-------------------------- MODULE InspectionSafety_proofs --------------------------
(***************************************************************************)
(* What holds of InspectionSystem through crashes and restarts of the task *)
(* manager: the latch and the mode, the active task, the end of a mission, *)
(* the store, which task a result is of, and the order of the queue.       *)
(***************************************************************************)
EXTENDS InspectionTypes_proofs, InspectionHistory

(***************************************************************************)
(* Mode and latch.  A process that is restarted takes both from the store, *)
(* so the invariant says as well that the store holds them as they are.    *)
(***************************************************************************)
LatchInv ==
  /\ ModeLatch
  /\ saved.latched = latched /\ saved.robotMode = robotMode

(* A first start has mode and latch in the store.                          *)
LEMMA LatchInit == Init => LatchInv
  BY DEF Init, ManagerInit, LatchInv, ModeLatch, Content

(* The handlers that touch mode or latch, and the rest, which do not.      *)
LEMMA LatchStep == LatchInv /\ [Next]_vars => LatchInv'
<1> SUFFICES ASSUME LatchInv, [Next]_vars PROVE LatchInv'
  OBVIOUS
<1> USE DEF LatchInv, ModeLatch
<1>1. ASSUME UNCHANGED << robotMode, latched, saved >> PROVE LatchInv'
  BY <1>1
<1>2. ASSUME UNCHANGED << robotMode, latched >>, saved' = Content' PROVE LatchInv'
  BY <1>2 DEF Content
<1>3. CASE UNCHANGED vars
  BY <1>3, <1>1 DEF vars, managerVars, runtimeVars, processVars
<1>4. CASE ExecNext /\ UNCHANGED managerVars
  BY <1>4, <1>1 DEF managerVars, runtimeVars, processVars
<1>5. CASE OperatorCommand
  <2>1. CASE ManageStart
    BY <2>1, <1>2 DEF ManageStart, Start, Publish
  <2>2. CASE ManagePause \/ ManageStop
    BY <2>2, <1>2 DEF ManagePause, ManageStop, Halting, Publish
  <2>3. CASE ManageResume
    BY <2>3, <1>2 DEF ManageResume, Publish
  <2>4. ASSUME NEW target \in {"AUTONOMOUS", "MANUAL"}, SetRobotMode(target) PROVE LatchInv'
    <3>1. CASE BarrierRefuses
      BY <3>1, <1>1 DEF BarrierRefuses, runtimeVars, processVars
    <3>2. CASE robotMode' = target /\ UNCHANGED latched /\ BarrierPasses
      BY <2>4, <3>2 DEF SetRobotMode, BarrierPasses, Publish, Content
    <3> QED BY <2>4, <3>1, <3>2 DEF SetRobotMode
  <2>5. CASE EmergencyStop
    BY <2>5 DEF EmergencyStop, Publish, Content
  <2>6. ASSUME NEW observed \in 1 .. MaxLatches, ResetStop(observed) PROVE LatchInv'
    <3>1. CASE BarrierRefuses
      BY <3>1, <1>1 DEF BarrierRefuses, runtimeVars, processVars
    <3>2. CASE latched' = FALSE /\ robotMode' = "MANUAL" /\ BarrierPasses
      BY <3>2 DEF BarrierPasses, Publish, Content
    <3> QED BY <2>6, <3>1, <3>2 DEF ResetStop
  <2>7. ASSUME NEW v \in Velocities, NEW d \in 1 .. ManualHold, OnManualVelocity(v, d)
        PROVE  LatchInv'
    BY <2>7, <1>1 DEF OnManualVelocity, velocityFrame, runtimeVars, processVars
  <2> QED BY <1>5, <2>1, <2>2, <2>3, <2>4, <2>5, <2>6, <2>7 DEF OperatorCommand
<1>6. CASE RiskUpdate
  BY <1>6, <1>2 DEF RiskUpdate, EmergencyRisk, NormalRisk, RiskApplied, Publish
<1>7. CASE CooldownEnds
  BY <1>7, <1>1 DEF CooldownEnds, processVars
<1>8. CASE PublishTimer
  BY <1>8, <1>2 DEF PublishTimer, Publish, runtimeVars
<1>9. CASE ServerDiscovered \/ OnGoalResponse \/ OnCancelled
  BY <1>9, <1>1 DEF ServerDiscovered, OnGoalResponse, OnCancelled, runtimeVars, processVars
<1>10. CASE OnResult
  <2>1. UNCHANGED << robotMode, latched >> /\ (UNCHANGED saved \/ saved' = Content')
    BY <1>10 DEF OnResult, ResultReplaced, ResultLatched, ResultApplied, ResultHandled, Publish
  <2> QED BY <2>1, <1>1, <1>2
<1>11. ASSUME NEW f \in feedback, OnFeedback(f) PROVE LatchInv'
  <2>1. UNCHANGED << robotMode, latched >> /\ (UNCHANGED saved \/ saved' = Content')
    BY <1>11 DEF OnFeedback, Publish
  <2> QED BY <2>1, <1>1, <1>2
<1>12. CASE OnNavVelocity \/ VelocityTick \/ Elapse
  BY <1>12, <1>1 DEF OnNavVelocity, VelocityTick, Elapse, velocityFrame, runtimeVars, processVars
<1>13. CASE Crash \/ RevisionConflict
  BY <1>13, <1>1 DEF Crash, RevisionConflict, Dies, runtimeVars
<1>14. CASE CrashInStart
  BY <1>14, <1>2 DEF CrashInStart, Start
<1>15. CASE RestartSame
  BY <1>15 DEF RestartSame, Content
<1>16. CASE RestartOther
  BY <1>16 DEF RestartOther, InheritSafety, Content
<1> QED
  BY <1>3, <1>4, <1>5, <1>6, <1>7, <1>8, <1>9, <1>10, <1>11, <1>12, <1>13, <1>14, <1>15, <1>16
     DEF Next, ManagerNext

(* ESTOP is the mode exactly while the latch is set, whatever the tasks,   *)
(* the risk samples, the commands and the number of restarts.              *)
THEOREM ModeLatchAlways == Spec => []ModeLatch
<1>1. LatchInv => ModeLatch
  BY DEF LatchInv
<1> QED BY <1>1, LatchInit, LatchStep, PTL DEF Spec

(* Only a task manager that runs releases a latch: no crash and no restart *)
(* does, under the identity of the store or under another.                 *)
THEOREM LatchSurvivesAlways == Spec => LatchSurvives
<1>1. LatchInv /\ [Next]_vars => [latched /\ ~latched' => alive]_vars
  <2> SUFFICES ASSUME LatchInv, Next, latched, ~latched', ~alive PROVE FALSE
    OBVIOUS
  <2>1. CASE ExecNext /\ UNCHANGED managerVars
    BY <2>1 DEF managerVars, runtimeVars
  <2>2. CASE RestartSame \/ RestartOther
    BY <2>2 DEF RestartSame, RestartOther, InheritSafety, LatchInv
  <2>3. CASE CooldownEnds \/ Elapse
    BY <2>3 DEF CooldownEnds, Elapse, velocityFrame, runtimeVars
  <2>4. ~OperatorCommand
    BY DEF OperatorCommand, ManageStart, Start, ManagePause, ManageResume, ManageStop,
           SetRobotMode, EmergencyStop, ResetStop, OnManualVelocity
  <2>5. ~RiskUpdate
    BY DEF RiskUpdate, EmergencyRisk, NormalRisk
  <2>6. ~OnResult
    BY DEF OnResult, ResultReplaced, ResultLatched, ResultApplied, ResultHandled
  <2>7. ~(PublishTimer \/ ServerDiscovered \/ OnGoalResponse \/ OnCancelled)
    BY DEF PublishTimer, ServerDiscovered, OnGoalResponse, OnCancelled
  <2>8. ~(\E f \in feedback : OnFeedback(f))
    BY DEF OnFeedback
  <2>9. ~(OnNavVelocity \/ VelocityTick \/ Crash \/ CrashInStart \/ RevisionConflict)
    BY DEF OnNavVelocity, VelocityTick, Crash, CrashInStart, Start, RevisionConflict
  <2> QED BY <2>1, <2>2, <2>3, <2>4, <2>5, <2>6, <2>7, <2>8, <2>9 DEF Next, ManagerNext
<1> QED BY <1>1, LatchInit, LatchStep, PTL DEF Spec, LatchSurvives
(***************************************************************************)
(* The active task.  ActiveConsistent is inductive under the types: every  *)
(* handler that moves active_task_id moves the state ACTIVE with it, and   *)
(* a restart clears both.                                                  *)
(***************************************************************************)
LEMMA NothingActive ==
  ASSUME NEW state \in [Tasks -> TaskStates], NEW t \in Tasks
  PROVE  /\ Demoted(state)[t] # "ACTIVE"
         /\ InitialState[t] # "ACTIVE"
         /\ \A u \in Tasks : EmergencyQueued(u, state)[t] = "ACTIVE" <=> state[t] = "ACTIVE"
  BY DEF Demoted, InitialState, EmergencyQueued, TaskStates

(* A mission starts with no task active.                                   *)
LEMMA ActiveInit == Init => ActiveConsistent
<1>1. InitialState \in [Tasks -> TaskStates]
  BY QueueTypes
<1> QED BY <1>1, NothingActive, QueueAssumption DEF Init, ManagerInit, ActiveConsistent

(* Every step keeps the active task consistent.                            *)
LEMMA ActiveStep == TypeOK /\ ActiveConsistent /\ [Next]_vars => ActiveConsistent'
<1> SUFFICES ASSUME TypeOK, ActiveConsistent, [Next]_vars PROVE ActiveConsistent'
  OBVIOUS
<1> USE DEF ActiveConsistent
<1>1. /\ taskState \in [Tasks -> TaskStates] /\ NoTask \notin Tasks
      /\ saved.taskState \in [Tasks -> TaskStates]
  BY ContentFields, QueueAssumption DEF TypeOK, Contents
<1>2. ASSUME UNCHANGED << taskState, active >> PROVE ActiveConsistent'
  BY <1>2
<1>3. ASSUME active' = NoTask, taskState' = InitialState PROVE ActiveConsistent'
  BY <1>1, <1>3, NothingActive
<1>4. CASE UNCHANGED vars
  BY <1>2, <1>4 DEF vars, managerVars, runtimeVars
<1>5. CASE ExecNext /\ UNCHANGED managerVars
  BY <1>2, <1>5 DEF managerVars, runtimeVars
<1>6. CASE OperatorCommand
  <2>1. CASE ManageStart
    BY <1>3, <2>1 DEF ManageStart, Start, FreshQueue
  <2>2. CASE ~ManageStart
    BY <1>2, <1>6, <2>2
       DEF OperatorCommand, ManagePause, ManageStop, Halting, ManageResume, SetRobotMode, ResetStop,
           BarrierRefuses, BarrierPasses, EmergencyStop, OnManualVelocity, velocityFrame, runtimeVars
  <2> QED BY <2>1, <2>2
<1>7. ASSUME NEW scores \in RiskMessages, EmergencyRisk(scores) PROVE ActiveConsistent'
  <2>1. PICK a \in EmergencyAssets(scores) :
          LET t == EmergencyTask(a)
              preempted == active # NoTask /\ active # t
          IN  /\ taskState' = IF preempted THEN Demoted(EmergencyQueued(t, taskState))
                              ELSE EmergencyQueued(t, taskState)
              /\ active' = IF preempted THEN NoTask ELSE active
    BY <1>7 DEF EmergencyRisk
  <2>2. EmergencyTask(a) \in Tasks
    BY QueueTypes DEF EmergencyAssets
  <2>3. EmergencyQueued(EmergencyTask(a), taskState) \in [Tasks -> TaskStates]
    BY <1>1, <2>2, QueueTypes
  <2>4. CASE active # NoTask /\ active # EmergencyTask(a)
    BY <1>1, <2>1, <2>3, <2>4, NothingActive
  <2>5. CASE ~(active # NoTask /\ active # EmergencyTask(a))
    BY <1>1, <2>1, <2>2, <2>5, NothingActive
  <2> QED BY <2>4, <2>5
<1>8. ASSUME NEW scores \in RiskMessages, NormalRisk(scores) PROVE ActiveConsistent'
  BY <1>2, <1>8 DEF NormalRisk
<1>9. CASE \/ CooldownEnds \/ PublishTimer \/ ServerDiscovered \/ OnGoalResponse \/ OnCancelled
           \/ OnNavVelocity \/ VelocityTick \/ Elapse
  BY <1>2, <1>9 DEF CooldownEnds, PublishTimer, ServerDiscovered, OnGoalResponse, OnCancelled,
                    OnNavVelocity, VelocityTick, Elapse, velocityFrame, runtimeVars
<1>10. CASE OnResult
  <2>1. CASE UNCHANGED << taskState, active >>
    BY <1>2, <2>1
  <2>2. CASE CanFinish /\ FinishExecution(result.outcome) /\ result # NoResult
    <3>1. result.outcome \in Outcomes
      BY <2>2 DEF TypeOK, LinkTypeOK, Results
    <3>2. TerminalState(result.outcome) # "ACTIVE"
      BY <3>1 DEF TerminalState
    <3>3. /\ taskState' = [taskState EXCEPT ![active] = TerminalState(result.outcome)]
          /\ active' = NoTask
      BY <2>2 DEF FinishExecution, Finish
    <3> QED BY <1>1, <3>2, <3>3
  <2> QED BY <1>10, <2>1, <2>2 DEF OnResult, ResultReplaced, ResultLatched, ResultApplied
<1>11. ASSUME NEW f \in feedback, OnFeedback(f) PROVE ActiveConsistent'
  <2>1. CASE TaskBecomesActive(f)
    <3>1. /\ taskState' = [Demoted(taskState) EXCEPT ![f.task] = "ACTIVE"]
          /\ active' = f.task
      BY <1>11, <2>1 DEF OnFeedback
    <3>2. f.task \in Tasks /\ Demoted(taskState) \in [Tasks -> TaskStates]
      BY <1>1, QueueTypes DEF TypeOK, LinkTypeOK, Feedbacks
    <3> QED BY <1>1, <3>1, <3>2, NothingActive
  <2>2. CASE ~TaskBecomesActive(f)
    BY <1>2, <1>11, <2>2 DEF OnFeedback
  <2> QED BY <2>1, <2>2
<1>12. CASE Crash \/ RevisionConflict
  BY <1>2, <1>12 DEF Crash, RevisionConflict, Dies, runtimeVars
<1>13. CASE CrashInStart \/ RestartOther
  BY <1>3, <1>13 DEF CrashInStart, Start, RestartOther, FreshQueue
<1>14. CASE RestartSame
  <2>1. taskState' = Demoted(saved.taskState) /\ active' = NoTask
    BY <1>14 DEF RestartSame
  <2> QED BY <1>1, <2>1, NothingActive
<1> QED
  BY <1>4, <1>5, <1>6, <1>7, <1>8, <1>9, <1>10, <1>11, <1>12, <1>13, <1>14
     DEF Next, ManagerNext, RiskUpdate

(* active_task_id names the one task that is ACTIVE, whatever order        *)
(* feedback, results, risk samples, crashes and restarts come in.          *)
THEOREM ActiveConsistentAlways == Spec => []ActiveConsistent
  BY ActiveInit, ActiveStep, TypeCorrect, PTL DEF Spec

(***************************************************************************)
(* How missions end.  A restart goes on from the record in the store, so   *)
(* the invariant is about the record the runtime would save and about the  *)
(* one that is saved; a record of a start that was cut off is STARTING,    *)
(* and goes on as RUNNING.                                                 *)
(***************************************************************************)
NoneFailed(states) == \A t \in Tasks : states[t] # "FAILED"

AllDone(states) == \A t \in Tasks : states[t] \in {"SUCCEEDED", "SKIPPED", "ABSENT"}

SoundRecord(state, life, states) ==
  /\ state \in {"READY", "RUNNING", "PAUSED"} => NoneFailed(states)
  /\ state = "SUCCEEDED" => AllDone(states)
  /\ life = "STARTING" => state = "READY"

EndInv ==
  /\ SoundRecord(missionState, lifecycle, taskState)
  /\ SoundRecord(saved.missionState, saved.lifecycle, saved.taskState)

(* Demotion and the insertion of an emergency make no task FAILED, and     *)
(* leave a queue alone in which every task is done.                        *)
LEMMA RequeuingIsSound ==
  ASSUME NEW states \in [Tasks -> TaskStates]
  PROVE  /\ NoneFailed(InitialState)
         /\ NoneFailed(states) => NoneFailed(Demoted(states))
         /\ NoneFailed(states) => \A t \in Tasks : NoneFailed(EmergencyQueued(t, states))
         /\ AllDone(states) => Demoted(states) = states
<1>1. NoneFailed(InitialState)
  BY DEF NoneFailed, InitialState
<1>2. NoneFailed(states) => NoneFailed(Demoted(states))
  BY DEF NoneFailed, Demoted
<1>3. NoneFailed(states) => \A t \in Tasks : NoneFailed(EmergencyQueued(t, states))
  BY DEF NoneFailed, EmergencyQueued
<1>4. ASSUME AllDone(states) PROVE Demoted(states) = states
  <2>1. \A u \in Tasks : Demoted(states)[u] = states[u]
    BY <1>4 DEF AllDone, Demoted
  <2>2. Demoted(states) \in [Tasks -> TaskStates]
    BY QueueTypes
  <2> QED BY <2>1, <2>2
<1> QED BY <1>1, <1>2, <1>3, <1>4

(* A finished task leaves the mission running only while no task failed,   *)
(* and ends it in success only when the queue is done (finish_execution).  *)
LEMMA FinishIsSound ==
  ASSUME taskState \in [Tasks -> TaskStates], ActiveConsistent, EndInv,
         CanFinish, NEW outcome \in Outcomes, FinishExecution(outcome)
  PROVE  SoundRecord(missionState', lifecycle', taskState')
<1>1. missionState = "RUNNING" /\ NoneFailed(taskState) /\ lifecycle # "STARTING"
  BY DEF CanFinish, EndInv, SoundRecord
<1>2. /\ taskState' = [taskState EXCEPT ![active] = TerminalState(outcome)]
      /\ IF GoesOn(outcome)
         THEN UNCHANGED << missionState, lifecycle >>
         ELSE /\ missionState' = IF Good(outcome) THEN "SUCCEEDED" ELSE "FAILED"
              /\ lifecycle' = "ENDED"
  BY DEF FinishExecution, Finish
<1>3. Good(outcome) => TerminalState(outcome) \in {"SUCCEEDED", "SKIPPED"}
  BY DEF Good, TerminalState
<1>4. CASE GoesOn(outcome)
  <2>1. Good(outcome) /\ UNCHANGED << missionState, lifecycle >>
    BY <1>2, <1>4 DEF GoesOn
  <2>2. NoneFailed(taskState')
    BY <1>1, <1>2, <1>3, <2>1 DEF NoneFailed
  <2> QED BY <1>1, <2>1, <2>2 DEF SoundRecord
<1>5. CASE ~GoesOn(outcome) /\ Good(outcome)
  <2>1. \A t \in Tasks : taskState'[t] # "QUEUED"
    BY <1>5 DEF GoesOn
  <2>2. AllDone(taskState')
    <3> SUFFICES ASSUME NEW t \in Tasks
                 PROVE  taskState'[t] \in {"SUCCEEDED", "SKIPPED", "ABSENT"}
      BY DEF AllDone
    <3>1. CASE t = active
      BY <1>2, <1>3, <1>5, <3>1
    <3>2. CASE t # active
      <4>1. taskState'[t] = taskState[t] /\ taskState[t] # "ACTIVE"
        BY <1>2, <3>2 DEF ActiveConsistent
      <4> QED BY <1>1, <2>1, <4>1 DEF NoneFailed, TaskStates
    <3> QED BY <3>1, <3>2
  <2>3. missionState' = "SUCCEEDED" /\ lifecycle' = "ENDED"
    BY <1>2, <1>5
  <2> QED BY <2>2, <2>3 DEF SoundRecord
<1>6. CASE ~Good(outcome)
  <2>1. missionState' = "FAILED" /\ lifecycle' = "ENDED"
    BY <1>2, <1>6 DEF GoesOn
  <2> QED BY <2>1 DEF SoundRecord
<1> QED BY <1>4, <1>5, <1>6

LEMMA EndStep == TypeOK /\ ActiveConsistent /\ EndInv /\ [Next]_vars => EndInv'
<1> SUFFICES ASSUME TypeOK, ActiveConsistent, EndInv, [Next]_vars PROVE EndInv'
  OBVIOUS
<1>1. taskState \in [Tasks -> TaskStates] /\ saved.taskState \in [Tasks -> TaskStates]
  BY ContentFields DEF TypeOK, Contents
<1>2. ASSUME SoundRecord(missionState', lifecycle', taskState'), UNCHANGED saved \/ saved' = Content'
      PROVE  EndInv'
  BY <1>2 DEF EndInv, Content
<1>3. ASSUME UNCHANGED << missionState, lifecycle, taskState >>, UNCHANGED saved \/ saved' = Content'
      PROVE  EndInv'
  BY <1>2, <1>3 DEF EndInv
<1>4. CASE UNCHANGED vars
  BY <1>3, <1>4 DEF vars, managerVars, runtimeVars, processVars
<1>5. CASE ExecNext /\ UNCHANGED managerVars
  BY <1>3, <1>5 DEF managerVars, runtimeVars, processVars
<1>6. ASSUME taskState' = InitialState, saved' = Content',
             \/ missionState' = "RUNNING" /\ lifecycle' = "ACTIVE"
             \/ missionState' = "READY" /\ lifecycle' = "STARTING"
      PROVE  EndInv'
  <2>1. NoneFailed(InitialState)
    BY DEF NoneFailed, InitialState
  <2> QED BY <1>2, <1>6, <2>1 DEF SoundRecord
<1>7. CASE OperatorCommand
  <2>1. CASE ManageStart
    BY <1>6, <2>1 DEF ManageStart, Start, FreshQueue, Publish
  <2>2. CASE ManagePause
    BY <1>2, <2>2 DEF ManagePause, Halting, Publish, EndInv, SoundRecord
  <2>3. CASE ManageStop
    BY <1>2, <2>3 DEF ManageStop, Halting, Publish, SoundRecord
  <2>4. CASE ManageResume
    BY <1>2, <2>4 DEF ManageResume, Publish, EndInv, SoundRecord
  <2>5. CASE BarrierRefuses
    BY <1>3, <2>5 DEF BarrierRefuses, runtimeVars, processVars
  <2>6. CASE BarrierPasses
    BY <1>3, <2>6 DEF BarrierPasses, Publish
  <2>7. CASE EmergencyStop
    BY <1>3, <2>7 DEF EmergencyStop, Publish
  <2>8. ASSUME NEW v \in Velocities, NEW d \in 1 .. ManualHold, OnManualVelocity(v, d)
        PROVE  EndInv'
    BY <1>3, <2>8 DEF OnManualVelocity, velocityFrame, runtimeVars, processVars
  <2> QED
    BY <1>7, <2>1, <2>2, <2>3, <2>4, <2>5, <2>6, <2>7, <2>8
       DEF OperatorCommand, SetRobotMode, ResetStop
<1>8. ASSUME NEW scores \in RiskMessages, EmergencyRisk(scores) PROVE EndInv'
  <2>1. /\ missionState \in {"RUNNING", "PAUSED"} /\ UNCHANGED << missionState, lifecycle >>
        /\ saved' = Content'
    BY <1>8 DEF EmergencyRisk, RiskApplied, Publish
  <2>2. PICK a \in EmergencyAssets(scores) :
          \/ taskState' = Demoted(EmergencyQueued(EmergencyTask(a), taskState))
          \/ taskState' = EmergencyQueued(EmergencyTask(a), taskState)
    BY <1>8 DEF EmergencyRisk
  <2>3. EmergencyTask(a) \in Tasks
    BY QueueTypes DEF EmergencyAssets
  <2>4. EmergencyQueued(EmergencyTask(a), taskState) \in [Tasks -> TaskStates]
    BY <1>1, <2>3, QueueTypes
  <2>5. NoneFailed(taskState')
    BY <1>1, <2>1, <2>2, <2>3, <2>4, RequeuingIsSound DEF EndInv, SoundRecord
  <2> QED BY <1>2, <2>1, <2>5 DEF EndInv, SoundRecord
<1>9. ASSUME NEW scores \in RiskMessages, NormalRisk(scores) PROVE EndInv'
  BY <1>3, <1>9 DEF NormalRisk, RiskApplied, Publish
<1>10. CASE \/ CooldownEnds \/ PublishTimer \/ ServerDiscovered \/ OnGoalResponse \/ OnCancelled
            \/ OnNavVelocity \/ VelocityTick \/ Elapse
  BY <1>3, <1>10
     DEF CooldownEnds, PublishTimer, Publish, ServerDiscovered, OnGoalResponse, OnCancelled,
         OnNavVelocity, VelocityTick, Elapse, velocityFrame, runtimeVars, processVars
<1>11. CASE OnResult
  <2>1. CASE UNCHANGED << missionState, lifecycle, taskState, saved >>
    BY <1>3, <2>1
  <2>2. CASE result # NoResult /\ CanFinish /\ FinishExecution(result.outcome) /\ Publish(arb, cmdVel)
    <3>1. result.outcome \in Outcomes
      BY <2>2 DEF TypeOK, LinkTypeOK, Results
    <3> QED BY <1>1, <1>2, <2>2, <3>1, FinishIsSound DEF Publish
  <2> QED BY <1>11, <2>1, <2>2 DEF OnResult, ResultReplaced, ResultLatched, ResultApplied
<1>12. ASSUME NEW f \in feedback, OnFeedback(f) PROVE EndInv'
  <2>1. CASE TaskBecomesActive(f)
    <3>1. /\ taskState' = [Demoted(taskState) EXCEPT ![f.task] = "ACTIVE"]
          /\ missionState = "RUNNING" /\ UNCHANGED << missionState, lifecycle >>
          /\ saved' = Content'
      BY <1>12, <2>1 DEF OnFeedback, TaskBecomesActive, Publish
    <3>2. f.task \in Tasks /\ Demoted(taskState) \in [Tasks -> TaskStates]
      BY <1>1, QueueTypes DEF TypeOK, LinkTypeOK, Feedbacks
    <3>3. NoneFailed(Demoted(taskState))
      BY <1>1, <3>1, <3>2, RequeuingIsSound DEF EndInv, SoundRecord
    <3>4. NoneFailed(taskState')
      BY <3>1, <3>2, <3>3 DEF NoneFailed
    <3> QED BY <1>2, <3>1, <3>4 DEF EndInv, SoundRecord
  <2>2. CASE ~TaskBecomesActive(f)
    BY <1>3, <1>12, <2>2 DEF OnFeedback
  <2> QED BY <2>1, <2>2
<1>13. CASE Crash \/ RevisionConflict
  BY <1>3, <1>13 DEF Crash, RevisionConflict, Dies, runtimeVars
<1>14. CASE CrashInStart \/ RestartOther
  BY <1>6, <1>14 DEF CrashInStart, Start, RestartOther, FreshQueue
<1>15. CASE RestartSame
  <2>1. taskState' = Demoted(saved.taskState) /\ (UNCHANGED saved \/ saved' = Content')
    BY <1>15 DEF RestartSame
  <2>2. SoundRecord(saved.missionState, saved.lifecycle, saved.taskState)
    BY DEF EndInv
  <2>3. CASE saved.lifecycle = "STARTING"
    <3>1. missionState' = "RUNNING" /\ lifecycle' = "ACTIVE"
      BY <1>15, <2>3 DEF RestartSame
    <3>2. NoneFailed(taskState')
      BY <1>1, <2>1, <2>2, <2>3, RequeuingIsSound, QueueTypes DEF SoundRecord
    <3> QED BY <1>2, <2>1, <3>1, <3>2 DEF SoundRecord
  <2>4. CASE saved.lifecycle # "STARTING"
    <3>1. missionState' = saved.missionState /\ lifecycle' = saved.lifecycle
      BY <1>15, <2>4 DEF RestartSame
    <3>2. NoneFailed(saved.taskState) => NoneFailed(taskState')
      BY <1>1, <2>1, RequeuingIsSound, QueueTypes
    <3>3. AllDone(saved.taskState) => AllDone(taskState')
      BY <1>1, <2>1, RequeuingIsSound, QueueTypes
    <3> QED BY <1>2, <2>1, <2>2, <2>4, <3>1, <3>2, <3>3 DEF SoundRecord
  <2> QED BY <2>3, <2>4
<1> QED
  BY <1>4, <1>5, <1>7, <1>8, <1>9, <1>10, <1>11, <1>12, <1>13, <1>14, <1>15
     DEF Next, ManagerNext, RiskUpdate

(* A mission goes on only while no task has failed, and succeeds only with *)
(* its queue done, whatever is requeued, preempted or cut off by a crash.  *)
THEOREM EndedMeansDoneAlways == Spec => []EndedMeansDone
<1>1. Init => EndInv
  BY DEF Init, ManagerInit, Content, EndInv, SoundRecord, NoneFailed, InitialState
<1>2. EndInv => EndedMeansDone
  BY DEF EndInv, SoundRecord, NoneFailed, AllDone, EndedMeansDone
<1> QED BY <1>1, <1>2, EndStep, TypeCorrect, ActiveConsistentAlways, PTL DEF Spec

(***************************************************************************)
(* The store.  Every handler that changes the record saves it before it    *)
(* returns, and a mission of its own is saved when it begins; only a       *)
(* restart under the stored identity goes on from a record it has changed  *)
(* (a task that was ACTIVE is QUEUED) and does not save it.  The launch    *)
(* files give no such identity: Recovery is false.                         *)
(***************************************************************************)
LEMMA SavedStep == ~Recovery /\ SavedIsCurrent /\ [Next]_vars => SavedIsCurrent'
<1> SUFFICES ASSUME ~Recovery, SavedIsCurrent, [Next]_vars PROVE SavedIsCurrent'
  OBVIOUS
<1> USE DEF SavedIsCurrent
<1>1. ASSUME UNCHANGED runtimeVars, UNCHANGED << saved, alive >> PROVE SavedIsCurrent'
  BY <1>1 DEF runtimeVars, Content
<1>2. ASSUME saved' = Content' \/ alive' = FALSE PROVE SavedIsCurrent'
  BY <1>2
<1>3. CASE UNCHANGED vars
  BY <1>1, <1>3 DEF vars, managerVars, processVars
<1>4. CASE ExecNext /\ UNCHANGED managerVars
  BY <1>1, <1>4 DEF managerVars, processVars
<1>5. CASE OperatorCommand
  <2>1. CASE ManageStart \/ ManagePause \/ ManageStop \/ ManageResume \/ EmergencyStop
    BY <1>2, <2>1
       DEF ManageStart, ManagePause, ManageStop, Halting, ManageResume, EmergencyStop, Publish
  <2>2. CASE BarrierRefuses
    BY <1>1, <2>2 DEF BarrierRefuses, processVars
  <2>3. CASE BarrierPasses
    BY <1>2, <2>3 DEF BarrierPasses, Publish
  <2>4. ASSUME NEW v \in Velocities, NEW d \in 1 .. ManualHold, OnManualVelocity(v, d)
        PROVE  SavedIsCurrent'
    BY <1>1, <2>4 DEF OnManualVelocity, velocityFrame, processVars
  <2> QED BY <1>5, <2>1, <2>2, <2>3, <2>4 DEF OperatorCommand, SetRobotMode, ResetStop
<1>6. CASE RiskUpdate
  BY <1>2, <1>6 DEF RiskUpdate, EmergencyRisk, NormalRisk, RiskApplied, Publish
<1>7. CASE CooldownEnds
  BY <1>7 DEF CooldownEnds, processVars, Content
<1>8. CASE PublishTimer
  BY <1>2, <1>8 DEF PublishTimer, Publish
<1>9. CASE ServerDiscovered \/ OnGoalResponse \/ OnCancelled
  BY <1>1, <1>9 DEF ServerDiscovered, OnGoalResponse, OnCancelled, processVars
<1>10. CASE OnResult
  <2>1. UNCHANGED << mission, robotMode, latched, latchRev, order, prio, alive >>
    BY <1>10 DEF OnResult, ResultReplaced, ResultLatched, ResultApplied, ResultHandled
  <2>2. CASE UNCHANGED << missionState, lifecycle, active, completed, progress, taskState, saved >>
    BY <2>1, <2>2 DEF Content
  <2>3. CASE saved' = Content'
    BY <1>2, <2>3
  <2> QED
    BY <1>10, <2>2, <2>3
       DEF OnResult, ResultReplaced, ResultLatched, ResultApplied, Publish
<1>11. ASSUME NEW f \in feedback, OnFeedback(f) PROVE SavedIsCurrent'
  <2>1. CASE TaskBecomesActive(f)
    BY <1>2, <1>11, <2>1 DEF OnFeedback, Publish
  <2>2. CASE ~TaskBecomesActive(f)
    BY <1>11, <2>2 DEF OnFeedback, Content
  <2> QED BY <2>1, <2>2
<1>12. CASE OnNavVelocity \/ VelocityTick \/ Elapse
  BY <1>1, <1>12 DEF OnNavVelocity, VelocityTick, Elapse, velocityFrame, processVars
<1>13. CASE Crash \/ RevisionConflict \/ CrashInStart
  BY <1>2, <1>13 DEF Crash, RevisionConflict, CrashInStart, Dies
<1>14. CASE RestartSame \/ RestartOther
  BY <1>2, <1>14 DEF RestartSame, RestartOther
<1> QED
  BY <1>3, <1>4, <1>5, <1>6, <1>7, <1>8, <1>9, <1>10, <1>11, <1>12, <1>13, <1>14
     DEF Next, ManagerNext

(* Between two handlers the store holds the runtime as it is, so a crash   *)
(* forgets nothing that was announced and the row of a revision is never   *)
(* written with another content, if a restart makes a mission of its own.  *)
THEOREM SavedIsCurrentAlways == ~Recovery => (Spec => []SavedIsCurrent)
<1> SUFFICES ASSUME ~Recovery PROVE Spec => []SavedIsCurrent
  OBVIOUS
<1>1. Init => SavedIsCurrent
  BY DEF Init, ManagerInit, SavedIsCurrent
<1>2. SavedIsCurrent /\ [Next]_vars => SavedIsCurrent'
  BY SavedStep
<1> QED BY <1>1, <1>2, PTL DEF Spec

(***************************************************************************)
(* The goal of the process that runs.  The goals a process leaves behind   *)
(* when it dies stay at the executor or on their way there; of its own, a  *)
(* process has at most one, which is a request, or a response and a run at *)
(* the executor, or a handle and a run, or a response or a handle and a    *)
(* result.  A process that is down has none.                               *)
(***************************************************************************)
Asking == \E g \in goalReqs : g.client = client

Working == phase # "idle" /\ goal.client = client

(* Nobody was there before the first process. *)
Earlier ==
  /\ \A g \in goalReqs : g.client <= client
  /\ goal.client <= client
  /\ \A c \in cancels : c <= client

OwnInv ==
  /\ ~(sendFuture /\ handle)
  /\ \A g, h \in goalReqs : g.client = client /\ h.client = client => g = h
  /\ Asking => sendFuture /\ goalResp = "none" /\ ~Working /\ result = NoResult
  /\ goalResp # "none" => sendFuture
  /\ goalResp = "rejected" => ~Working /\ result = NoResult
  /\ Working => (handle \/ goalResp = "accepted") /\ result = NoResult
  /\ result # NoResult => handle \/ goalResp = "accepted"
  /\ client \in cancels => handle
  /\ robotMode = "MANUAL" => ~InFlight
  /\ ~alive => ~InFlight
  /\ Earlier

(* The processes are numbered.                                             *)
LEMMA ClientNumbers ==
  ASSUME TypeOK
  PROVE  /\ client \in Nat /\ goal.client \in Nat
         /\ \A g \in goalReqs : g.client \in Nat
         /\ \A c \in cancels : c \in Nat
  BY LinkAssumption DEF TypeOK, LinkTypeOK, ExecTypeOK, Goals, Clients

(* With nothing in flight the process has no goal anywhere.                *)
LEMMA NothingOwn ==
  ASSUME TypeOK, OwnInv, ~InFlight
  PROVE  ~Asking /\ ~Working /\ goalResp = "none" /\ result = NoResult
  BY DEF OwnInv, InFlight, TypeOK, LinkTypeOK

LEMMA OwnInit == Init => OwnInv
<1> SUFFICES ASSUME Init PROVE OwnInv
  OBVIOUS
<1>1. goalReqs = {} /\ cancels = {} /\ client = 0 /\ goal.client = 0 /\ phase = "idle"
  BY DEF Init, LinkInit, ExecInit, IdleGoal
<1>2. /\ ~sendFuture /\ ~handle /\ goalResp = "none" /\ result = NoResult
      /\ robotMode = "AUTONOMOUS" /\ alive
  BY DEF Init, LinkInit, ManagerInit
<1> QED BY <1>1, <1>2 DEF OwnInv, Earlier, Asking, Working, InFlight

(* What a dispatch sends: a task that is queued, from a mission that runs, *)
(* when nothing else is in flight.                                         *)
DispatchedTask(t, held) ==
  /\ Runnable' /\ ~sendFuture /\ ~held /\ sendFuture' = TRUE
  /\ t \in Tasks /\ taskState'[t] = "QUEUED"
  /\ goalReqs' = goalReqs \cup {[task |-> t, mission |-> mission', client |-> client]}

LEMMA DispatchSends ==
  ASSUME NEW known, NEW held, Dispatch(known, held)
  PROVE  \/ UNCHANGED << goalReqs, sendFuture >>
         \/ \E t \in Tasks : DispatchedTask(t, held)
  BY DEF Dispatch, DispatchedTask, IsNextQueued

(* A cancellation is asked for the goal that has a handle.                 *)
LEMMA CancelGoalAsks ==
  ASSUME NEW wanted, CancelGoal(wanted)
  PROVE  /\ cancels' \subseteq cancels \cup {client}
         /\ client \in cancels' => client \in cancels \/ handle
  BY DEF CancelGoal

(* A handler that may dispatch and may cancel, and leaves the rest of the  *)
(* protocol alone: held is the goal handle, no longer kept if its result   *)
(* is handled.                                                             *)
LEMMA OwnDispatched ==
  ASSUME TypeOK, OwnInv, alive, UNCHANGED << goalResp, phase, goal, client, alive >>,
         NEW known, NEW held, Dispatch(known, held), handle' = held,
         \/ UNCHANGED << handle, result >>
         \/ handle /\ ~held /\ result # NoResult /\ result' = NoResult,
         cancels' \subseteq cancels \cup {client}, client \in cancels' => held,
         robotMode' = "MANUAL" => robotMode = "MANUAL" \/ ~InFlight
  PROVE  OwnInv'
<1>1. Earlier' <=> /\ \A g \in goalReqs' : g.client <= client
                   /\ goal.client <= client /\ \A c \in cancels' : c <= client
  BY DEF Earlier
<1>2. /\ Working' <=> Working
      /\ Asking' <=> \E g \in goalReqs' : g.client = client
  BY DEF Working, Asking
<1>3. CASE UNCHANGED << goalReqs, sendFuture >>
  <2>1. Earlier'
    BY <1>1, <1>3, ClientNumbers DEF OwnInv, Earlier
  <2>2. CASE UNCHANGED << handle, result >>
    BY <1>2, <1>3, <2>1, <2>2 DEF OwnInv, InFlight, Asking
  <2>3. CASE handle /\ ~held /\ result # NoResult /\ result' = NoResult
    BY <1>2, <1>3, <2>1, <2>3 DEF OwnInv, InFlight, Asking
  <2> QED BY <2>2, <2>3
<1>4. ASSUME NEW t \in Tasks, DispatchedTask(t, held) PROVE OwnInv'
  <2> DEFINE sent == [task |-> t, mission |-> mission', client |-> client]
  <2>1. /\ goalReqs' = goalReqs \cup {sent} /\ sent.client = client
        /\ ~sendFuture /\ sendFuture' = TRUE /\ handle' = FALSE /\ robotMode' # "MANUAL"
    BY <1>4 DEF DispatchedTask, Runnable, TypeOK
  <2> HIDE DEF sent
  <2>2. ~Asking /\ goalResp = "none" /\ result' = NoResult /\ ~Working
    BY <2>1 DEF OwnInv, TypeOK, LinkTypeOK
  <2>3. Earlier'
    BY <1>1, <2>1, ClientNumbers DEF OwnInv, Earlier
  <2> QED BY <1>2, <2>1, <2>2, <2>3 DEF OwnInv, InFlight, Asking
<1> QED BY <1>3, <1>4, DispatchSends

(* The executor moves a goal on and never makes one.                       *)
LEMMA OwnExecutor ==
  ASSUME TypeOK, OwnInv, ExecNext, UNCHANGED managerVars
  PROVE  OwnInv'
<1>1. UNCHANGED << sendFuture, handle, robotMode, alive >>
  BY DEF managerVars, clientVars, runtimeVars, processVars
<1>2. client' = client
  BY DEF ExecNext, ReceiveGoal, BeginExecution, NavAnswers, NavFinishes, NavDrives, ReceiveCancel,
         ReceiveStaleCancel, OnMissionState, linkVars
<1> USE <1>1, <1>2, ClientNumbers
<1>3. ASSUME UNCHANGED << goalReqs, goalResp, phase, goal, result >>, cancels' \subseteq cancels
      PROVE  OwnInv'
  BY <1>3 DEF OwnInv, Earlier, Asking, Working, InFlight
<1>4. ASSUME NEW g \in goalReqs, ReceiveGoal(g) PROVE OwnInv'
  <2>1. goalReqs' = goalReqs \ {g} /\ UNCHANGED << result, cancels >>
    BY <1>4 DEF ReceiveGoal
  <2>2. CASE g.client = client
    <3>1. /\ ~Asking' /\ sendFuture /\ goalResp = "none" /\ ~Working /\ result = NoResult
          /\ ~handle
      BY <2>1, <2>2 DEF OwnInv, Asking
    <3>2. \/ phase' = "accepted" /\ goal' = g /\ goalResp' = "accepted"
          \/ UNCHANGED << phase, goal >> /\ goalResp' = "rejected"
      BY <1>4, <2>2 DEF ReceiveGoal
    <3> QED BY <2>1, <3>1, <3>2 DEF OwnInv, Earlier, Working, InFlight
  <2>3. CASE g.client # client
    <3>1. goalResp' = goalResp
      BY <1>4, <2>3 DEF ReceiveGoal
    <3>2. (Asking' <=> Asking) /\ (Working' <=> Working)
      BY <1>4, <2>1, <2>3 DEF ReceiveGoal, Asking, Working
    <3>3. goal' = goal \/ goal' = g
      BY <1>4 DEF ReceiveGoal
    <3> QED BY <2>1, <3>1, <3>2, <3>3 DEF OwnInv, Earlier, InFlight
  <2> QED BY <2>2, <2>3
<1>5. ASSUME UNCHANGED << goalReqs, goalResp, cancels >>, phase # "idle",
             \/ phase' # "idle" /\ UNCHANGED << result, goal >>
             \/ phase' = "idle" /\ goal' = IdleGoal /\ (goal.client # client => UNCHANGED result)
      PROVE  OwnInv'
  <2>1. Asking' <=> Asking
    BY <1>5 DEF Asking
  <2>2. CASE phase' # "idle" /\ UNCHANGED << result, goal >>
    <3>1. Working' <=> Working
      BY <1>5, <2>2 DEF Working
    <3> QED BY <1>5, <2>1, <2>2, <3>1 DEF OwnInv, Earlier, InFlight
  <2>3. CASE phase' = "idle" /\ goal' = IdleGoal /\ (goal.client # client => UNCHANGED result)
    <3>1. ~Working' /\ goal'.client = 0
      BY <2>3 DEF Working, IdleGoal
    <3>2. Earlier'
      BY <1>5, <3>1 DEF OwnInv, Earlier
    <3>3. CASE goal.client = client
      BY <1>5, <2>1, <3>1, <3>2, <3>3 DEF OwnInv, InFlight, Working
    <3>4. CASE goal.client # client
      BY <1>5, <2>1, <2>3, <3>1, <3>2, <3>4 DEF OwnInv, InFlight
    <3> QED BY <3>3, <3>4
  <2> QED BY <1>5, <2>2, <2>3
<1>6. CASE BeginExecution
  BY <1>5, <1>6 DEF BeginExecution, Return
<1>7. CASE NavAnswers
  BY <1>5, <1>7 DEF NavAnswers, Return
<1>8. ASSUME NEW nav \in {"SUCCEEDED", "FAILED", "CANCELLED"}, NavFinishes(nav) PROVE OwnInv'
  BY <1>5, <1>8 DEF NavFinishes, Return
<1>9. ASSUME NEW v \in NavVelocities, NavDrives(v) PROVE OwnInv'
  BY <1>3, <1>9 DEF NavDrives, execVars
<1>10. ASSUME NEW c \in cancels, ReceiveCancel(c) PROVE OwnInv'
  BY <1>3, <1>10 DEF ReceiveCancel
<1>11. CASE ReceiveStaleCancel \/ OnMissionState
  BY <1>3, <1>11 DEF ReceiveStaleCancel, OnMissionState, execVars, linkVars
<1> QED BY <1>4, <1>6, <1>7, <1>8, <1>9, <1>10, <1>11 DEF ExecNext

(* A process dies, and is numbered no more; the next one has no goal.      *)
LEMMA OwnDies ==
  ASSUME TypeOK, OwnInv, ClientDies, UNCHANGED << phase, goal >>,
         alive' = FALSE, sendFuture' = FALSE, handle' = FALSE
  PROVE  OwnInv'
<1>1. /\ client' = client + 1 /\ goalResp' = "none" /\ result' = NoResult
      /\ UNCHANGED << goalReqs, cancels >>
  BY DEF ClientDies
<1>2. ~Asking' /\ ~Working' /\ client' \notin cancels' /\ Earlier'
  BY <1>1, ClientNumbers DEF OwnInv, Earlier, Asking, Working
<1>3. \A g \in goalReqs' : g.client # client'
  BY <1>2 DEF Asking
<1> QED BY <1>1, <1>2, <1>3 DEF OwnInv, InFlight

(* Every step keeps OwnInv.                                                *)
LEMMA OwnStep ==
  ASSUME TypeOK, OwnInv, [Next]_vars
  PROVE  OwnInv'
<1>1. ASSUME UNCHANGED << sendFuture, handle, goalReqs, goalResp, phase, goal, result, client, alive >>,
             cancels' \subseteq cancels \cup {client}, client \in cancels' => handle,
             robotMode' = "MANUAL" => robotMode = "MANUAL" \/ ~InFlight
      PROVE  OwnInv'
  BY <1>1, ClientNumbers DEF OwnInv, Earlier, Asking, Working, InFlight
<1>2. client \in cancels => handle
  BY DEF OwnInv
<1>3. CASE UNCHANGED vars
  BY <1>1, <1>2, <1>3
     DEF vars, managerVars, runtimeVars, clientVars, processVars, linkVars, execVars
<1>4. CASE ExecNext /\ UNCHANGED managerVars
  BY <1>4, OwnExecutor
<1>5. CASE ManagerNext /\ UNCHANGED execVars
  <2>1. UNCHANGED << phase, goal >>
    BY <1>5 DEF execVars
  <2>2. CASE ManageStart
    BY <1>2, <2>1, <2>2, OwnDispatched, CancelGoalAsks DEF ManageStart, Start
  <2>3. CASE ManagePause \/ ManageStop
    BY <1>2, <2>1, <2>3, OwnDispatched, CancelGoalAsks DEF ManagePause, ManageStop, Halting
  <2>4. CASE ManageResume
    BY <1>2, <2>1, <2>4, OwnDispatched, CancelGoalAsks DEF ManageResume
  <2>5. CASE BarrierRefuses
    BY <1>1, <1>2, <2>1, <2>5, CancelGoalAsks DEF BarrierRefuses, runtimeVars, processVars
  <2>6. ASSUME BarrierPasses, alive PROVE OwnInv'
    <3>1. ~InFlight
      BY <2>6 DEF BarrierPasses, BarrierPending
    <3> QED BY <1>2, <2>1, <2>6, <3>1, OwnDispatched DEF BarrierPasses
  <2>7. CASE EmergencyStop
    BY <1>1, <1>2, <2>1, <2>7, CancelGoalAsks DEF EmergencyStop, NoDispatch
  <2>8. ASSUME NEW v \in Velocities, NEW d \in 1 .. ManualHold, OnManualVelocity(v, d)
        PROVE  OwnInv'
    BY <1>1, <1>2, <2>1, <2>8 DEF OnManualVelocity, velocityFrame, runtimeVars, clientVars, processVars
  <2>9. CASE OperatorCommand
    BY <2>2, <2>3, <2>4, <2>5, <2>6, <2>7, <2>8, <2>9 DEF OperatorCommand, SetRobotMode, ResetStop
  <2>10. CASE RiskUpdate
    <3>1. PICK replace : RiskApplied(replace) /\ alive
      BY <2>10 DEF RiskUpdate, EmergencyRisk, NormalRisk
    <3>2. CASE (replace /\ InFlight) \/ ~replace
      BY <1>1, <1>2, <2>1, <3>1, <3>2, CancelGoalAsks DEF RiskApplied, NoDispatch
    <3>3. CASE ~InFlight /\ replace
      BY <1>2, <2>1, <3>1, <3>3, OwnDispatched, CancelGoalAsks DEF RiskApplied
    <3> QED BY <3>2, <3>3
  <2>11. CASE PublishTimer
    BY <1>2, <2>1, <2>11, OwnDispatched, CancelGoalAsks DEF PublishTimer, runtimeVars
  <2>12. CASE CooldownEnds \/ ServerDiscovered \/ OnCancelled
    BY <1>1, <1>2, <2>1, <2>12
       DEF CooldownEnds, ServerDiscovered, OnCancelled, runtimeVars, clientVars, processVars, linkVars
  <2>13. CASE OnGoalResponse
    <3>1. /\ sendFuture /\ goalResp # "none" /\ goalResp' = "none" /\ sendFuture' = FALSE
          /\ UNCHANGED << robotMode, goalReqs, result, alive, client >>
          /\ \/ /\ goalResp = "accepted" /\ handle' = TRUE
                /\ cancels' \subseteq cancels \cup {client}
             \/ goalResp # "accepted" /\ UNCHANGED << handle, cancels >>
      BY <2>13 DEF OnGoalResponse, runtimeVars, processVars
    <3>2. goalResp \in {"none", "accepted", "rejected"} /\ ~handle /\ ~Asking
      BY <3>1 DEF OwnInv, TypeOK, LinkTypeOK
    <3>3. Earlier' /\ (Asking' <=> Asking) /\ (Working' <=> Working)
      BY <2>1, <3>1, ClientNumbers DEF OwnInv, Earlier, Asking, Working
    <3> QED BY <2>1, <3>1, <3>2, <3>3 DEF OwnInv, InFlight
  <2>14. CASE OnResult
    <3>1. /\ handle /\ result # NoResult /\ result' = NoResult /\ handle' = FALSE
          /\ cancels' = cancels \ {client}
          /\ alive /\ UNCHANGED << robotMode, goalResp, client, alive >>
      BY <2>14 DEF OnResult, ResultReplaced, ResultLatched, ResultApplied, ResultHandled
    <3>2. CASE UNCHANGED << goalReqs, sendFuture >>
      <4>1. Earlier' /\ (Asking' <=> Asking) /\ (Working' <=> Working)
        BY <2>1, <3>1, <3>2, ClientNumbers DEF OwnInv, Earlier, Asking, Working
      <4> QED BY <2>1, <3>1, <3>2, <4>1 DEF OwnInv, InFlight
    <3>3. ASSUME NEW known, Dispatch(known, FALSE) PROVE OwnInv'
      BY <2>1, <3>1, <3>3, OwnDispatched
    <3> QED BY <2>14, <3>2, <3>3 DEF OnResult, ResultReplaced, ResultLatched, ResultApplied, NoDispatch
  <2>15. ASSUME NEW f \in feedback, OnFeedback(f) PROVE OwnInv'
    BY <1>1, <1>2, <2>1, <2>15 DEF OnFeedback
  <2>16. CASE OnNavVelocity \/ VelocityTick \/ Elapse
    BY <1>1, <1>2, <2>1, <2>16
       DEF OnNavVelocity, VelocityTick, Elapse, velocityFrame, runtimeVars, clientVars, processVars
  <2>17. CASE Crash \/ CrashInStart \/ RevisionConflict
    BY <2>1, <2>17, OwnDies DEF Crash, CrashInStart, RevisionConflict, Dies
  <2>18. CASE RestartSame \/ RestartOther
    <3>1. /\ ~alive /\ alive' = TRUE
          /\ UNCHANGED << sendFuture, handle, goalReqs, goalResp, result, client, cancels >>
      BY <2>18 DEF RestartSame, RestartOther, Restart, clientVars
    <3>2. ~InFlight
      BY <3>1 DEF OwnInv
    <3> QED BY <2>1, <3>1, <3>2, ClientNumbers DEF OwnInv, Earlier, Asking, Working, InFlight
  <2> QED
    BY <1>5, <2>9, <2>10, <2>11, <2>12, <2>13, <2>14, <2>15, <2>16, <2>17, <2>18 DEF ManagerNext
<1> QED BY <1>3, <1>4, <1>5 DEF Next

(* Through any number of crashes, a process has at most one goal of its    *)
(* own and knows of it.                                                    *)
LEMMA OwnAlways == Spec => []OwnInv
<1>1. TypeOK /\ OwnInv /\ [Next]_vars => OwnInv'
  BY OwnStep
<1> QED BY <1>1, OwnInit, TypeCorrect, PTL DEF Spec

(***************************************************************************)
(* What a step does to the tasks.  A result finishes the active task; a    *)
(* mission begins anew or is taken up from the store; anything else leaves *)
(* a finished task finished, except feedback of that very task.            *)
(***************************************************************************)
Requeued(t) ==
  \/ taskState'[t] = taskState[t]
  \/ taskState[t] \notin Terminal /\ taskState'[t] \in {"QUEUED", "ACTIVE"}

Finishes ==
  /\ CanFinish /\ ~replacement /\ ~latched /\ result # NoResult
  /\ ResultHandled /\ FinishExecution(result.outcome)

BeginsAnew == mission' = mission + 1 /\ taskState' = InitialState

Activates(f) == OnFeedback(f) /\ TaskBecomesActive(f) /\ taskState' = [Demoted(taskState) EXCEPT ![f.task] = "ACTIVE"]

LEMMA TaskEffects ==
  ASSUME TypeOK, [Next]_vars
  PROVE  \/ Finishes /\ OnResult /\ UNCHANGED execVars
         \/ BeginsAnew /\ (ManageStart \/ CrashInStart \/ RestartOther)
         \/ RestartSame
         \/ \E f \in feedback : Activates(f)
         \/ mission' = mission /\ \A t \in Tasks : Requeued(t)
<1>1. taskState \in [Tasks -> TaskStates]
  BY ContentFields DEF TypeOK
<1>2. ASSUME UNCHANGED << mission, taskState >> PROVE mission' = mission /\ \A t \in Tasks : Requeued(t)
  BY <1>2 DEF Requeued
<1>3. CASE UNCHANGED vars
  BY <1>2, <1>3 DEF vars, managerVars, runtimeVars
<1>4. CASE ExecNext /\ UNCHANGED managerVars
  BY <1>2, <1>4 DEF managerVars, runtimeVars
<1>5. CASE OperatorCommand
  <2>1. CASE ManageStart
    BY <2>1 DEF ManageStart, Start, FreshQueue, BeginsAnew
  <2>2. CASE ~ManageStart
    BY <1>2, <1>5, <2>2
       DEF OperatorCommand, ManagePause, ManageStop, Halting, ManageResume, SetRobotMode, ResetStop,
           BarrierRefuses, BarrierPasses, EmergencyStop, OnManualVelocity, velocityFrame, runtimeVars
  <2> QED BY <2>1, <2>2
<1>6. ASSUME NEW scores \in RiskMessages, EmergencyRisk(scores)
      PROVE  mission' = mission /\ \A t \in Tasks : Requeued(t)
  <2>1. PICK a \in EmergencyAssets(scores) :
          \/ taskState' = Demoted(EmergencyQueued(EmergencyTask(a), taskState))
          \/ taskState' = EmergencyQueued(EmergencyTask(a), taskState)
    BY <1>6 DEF EmergencyRisk
  <2>2. mission' = mission
    BY <1>6 DEF EmergencyRisk, RiskApplied
  <2>3. \A t \in Tasks : \/ taskState'[t] = taskState[t]
                         \/ taskState[t] \in {"ABSENT", "ACTIVE"} /\ taskState'[t] = "QUEUED"
    <3>1. EmergencyTask(a) \in Tasks
      BY QueueTypes DEF EmergencyAssets
    <3> QED BY <1>1, <2>1, <3>1 DEF Demoted, EmergencyQueued
  <2> QED BY <2>2, <2>3 DEF Requeued, Terminal
<1>7. ASSUME NEW scores \in RiskMessages, NormalRisk(scores)
      PROVE  mission' = mission /\ \A t \in Tasks : Requeued(t)
  BY <1>2, <1>7 DEF NormalRisk, RiskApplied
<1>8. CASE \/ CooldownEnds \/ PublishTimer \/ ServerDiscovered \/ OnGoalResponse \/ OnCancelled
           \/ OnNavVelocity \/ VelocityTick \/ Elapse
  BY <1>2, <1>8 DEF CooldownEnds, PublishTimer, ServerDiscovered, OnGoalResponse, OnCancelled,
                    OnNavVelocity, VelocityTick, Elapse, velocityFrame, runtimeVars
<1>9. CASE OnResult /\ UNCHANGED execVars
  <2>1. CASE UNCHANGED << mission, taskState >>
    BY <1>2, <2>1
  <2>2. CASE Finishes
    BY <1>9, <2>2
  <2> QED
    BY <1>9, <2>1, <2>2
       DEF OnResult, ResultReplaced, ResultLatched, ResultApplied, ResultHandled, Finishes
<1>10. ASSUME NEW f \in feedback, OnFeedback(f)
       PROVE  \/ Activates(f)
              \/ mission' = mission /\ \A t \in Tasks : Requeued(t)
  <2>1. CASE TaskBecomesActive(f)
    <3>1. taskState' = [Demoted(taskState) EXCEPT ![f.task] = "ACTIVE"]
      BY <1>10, <2>1 DEF OnFeedback
    <3> QED BY <1>10, <2>1, <3>1 DEF Activates
  <2>2. CASE ~TaskBecomesActive(f)
    BY <1>2, <1>10, <2>2 DEF OnFeedback
  <2> QED BY <2>1, <2>2
<1>11. CASE Crash \/ RevisionConflict
  BY <1>2, <1>11 DEF Crash, RevisionConflict, Dies, runtimeVars
<1>12. CASE CrashInStart \/ RestartOther
  BY <1>12 DEF CrashInStart, Start, RestartOther, FreshQueue, BeginsAnew
<1> QED
  BY <1>3, <1>4, <1>5, <1>6, <1>7, <1>8, <1>9, <1>10, <1>11, <1>12 DEF Next, ManagerNext, RiskUpdate

(* What the store knows of finished tasks is what the runtime knows.       *)
StoreKeeps ==
  /\ saved.mission = mission
  /\ \A t \in Tasks : taskState[t] \in Terminal \/ saved.taskState[t] \in Terminal
                        => taskState[t] = saved.taskState[t]

LEMMA StoreStep ==
  ASSUME TypeOK, StoreKeeps, [Next]_vars
  PROVE  StoreKeeps'
<1>1. CASE saved' = Content'
  BY <1>1 DEF Content, StoreKeeps
<1>2. ASSUME UNCHANGED << mission, taskState, saved >> PROVE StoreKeeps'
  BY <1>2 DEF StoreKeeps
<1>3. CASE UNCHANGED vars
  BY <1>2, <1>3 DEF vars, managerVars, runtimeVars, processVars
<1>4. CASE ExecNext /\ UNCHANGED managerVars
  BY <1>2, <1>4 DEF managerVars, runtimeVars, processVars
<1>5. CASE OperatorCommand
  <2>1. CASE ManageStart \/ ManagePause \/ ManageStop \/ ManageResume \/ EmergencyStop \/ BarrierPasses
    BY <1>1, <2>1
       DEF ManageStart, ManagePause, ManageStop, Halting, ManageResume, EmergencyStop, BarrierPasses,
           Publish
  <2>2. CASE BarrierRefuses
    BY <1>2, <2>2 DEF BarrierRefuses, runtimeVars, processVars
  <2>3. ASSUME NEW v \in Velocities, NEW d \in 1 .. ManualHold, OnManualVelocity(v, d)
        PROVE  StoreKeeps'
    BY <1>2, <2>3 DEF OnManualVelocity, velocityFrame, runtimeVars, processVars
  <2> QED BY <1>5, <2>1, <2>2, <2>3 DEF OperatorCommand, SetRobotMode, ResetStop
<1>6. CASE RiskUpdate \/ PublishTimer \/ CrashInStart \/ RestartOther
  BY <1>1, <1>6
     DEF RiskUpdate, EmergencyRisk, NormalRisk, RiskApplied, PublishTimer, Publish, CrashInStart,
         RestartOther
<1>7. CASE \/ CooldownEnds \/ ServerDiscovered \/ OnGoalResponse \/ OnCancelled
           \/ OnNavVelocity \/ VelocityTick \/ Elapse
  BY <1>2, <1>7 DEF CooldownEnds, ServerDiscovered, OnGoalResponse, OnCancelled, OnNavVelocity,
                    VelocityTick, Elapse, velocityFrame, runtimeVars, processVars
<1>8. CASE OnResult
  BY <1>1, <1>2, <1>8
     DEF OnResult, ResultReplaced, ResultLatched, ResultApplied, ResultHandled, Publish
<1>9. ASSUME NEW f \in feedback, OnFeedback(f) PROVE StoreKeeps'
  BY <1>1, <1>2, <1>9 DEF OnFeedback, Publish
<1>10. CASE Crash \/ RevisionConflict
  BY <1>2, <1>10 DEF Crash, RevisionConflict, Dies, runtimeVars
<1>11. CASE RestartSame
  <2>1. /\ mission' = saved.mission /\ taskState' = Demoted(saved.taskState)
        /\ saved' = saved \/ saved' = Content'
    BY <1>11 DEF RestartSame
  <2>2. \A t \in Tasks : Demoted(saved.taskState)[t] \in Terminal \/ saved.taskState[t] \in Terminal
                           => Demoted(saved.taskState)[t] = saved.taskState[t]
    BY DEF Demoted, Terminal
  <2> QED BY <1>1, <2>1, <2>2 DEF StoreKeeps
<1> QED
  BY <1>3, <1>4, <1>5, <1>6, <1>7, <1>8, <1>9, <1>10, <1>11 DEF Next, ManagerNext

LEMMA StoreAlways == Spec => []StoreKeeps
<1>1. Init => StoreKeeps
  BY DEF Init, ManagerInit, Content, StoreKeeps
<1>2. TypeOK /\ StoreKeeps /\ [Next]_vars => StoreKeeps'
  BY StoreStep
<1> QED BY <1>1, <1>2, TypeCorrect, PTL DEF Spec

(***************************************************************************)
(* What is in flight of the process's goal, as a pair of task and mission: *)
(* a request, the run at the executor, feedback, a result.                 *)
(***************************************************************************)
Names(x, t, m) == x.task = t /\ x.mission = m

SentTask(t, m) ==
  \/ \E g \in goalReqs : g.client = client /\ Names(g, t, m)
  \/ Working /\ Names(goal, t, m)
  \/ \E f \in feedback : Names(f, t, m)
  \/ result # NoResult /\ Names(result, t, m)

NothingSent == \A t \in Tasks, m \in Missions : ~SentTask(t, m)

(* No feedback outlives its goal, as long as no result is handled before   *)
(* the feedback that was published ahead of it.                            *)
FeedbackOfGoal == feedback # {} => Working \/ result # NoResult

LEMMA NothingSentAtRest ==
  ASSUME TypeOK, OwnInv, FeedbackOfGoal, ~InFlight
  PROVE  NothingSent
<1>1. ~Asking /\ ~Working /\ result = NoResult
  BY NothingOwn
<1>2. feedback = {}
  BY <1>1 DEF FeedbackOfGoal
<1> QED BY <1>1, <1>2 DEF NothingSent, SentTask, Asking

(* A step sends what was sent before, or it sends the one task that it     *)
(* dispatches, which is queued, when nothing else is in flight.            *)
Carries == \A t \in Tasks, m \in Missions : SentTask(t, m)' => SentTask(t, m)

SendsAnew ==
  \E t \in Tasks :
    /\ taskState'[t] = "QUEUED" /\ Runnable'
    /\ ~Working' /\ feedback' = {} /\ result' = NoResult /\ client' \notin cancels'
    /\ \A u \in Tasks, m \in Missions : SentTask(u, m)' => u = t /\ m = mission'

(* A dispatch with nothing in flight sends only its task.                  *)
LEMMA DispatchSendsAnew ==
  ASSUME TypeOK, ~Asking, ~Working', feedback' = {}, result' = NoResult, client' = client,
         client \notin cancels', NEW t \in Tasks, NEW held, DispatchedTask(t, held)
  PROVE  SendsAnew
<1> DEFINE sent == [task |-> t, mission |-> mission', client |-> client]
<1>1. /\ goalReqs' = goalReqs \cup {sent} /\ Names(sent, t, mission')
      /\ Runnable' /\ taskState'[t] = "QUEUED"
  BY DEF DispatchedTask, Names
<1> HIDE DEF sent
<1>2. ASSUME NEW u \in Tasks, NEW m \in Missions, SentTask(u, m)' PROVE u = t /\ m = mission'
  <2>1. PICK g \in goalReqs' : g.client = client /\ Names(g, u, m)
    BY <1>2 DEF SentTask
  <2>2. g = sent
    BY <1>1, <2>1 DEF Asking
  <2> QED BY <1>1, <2>1, <2>2 DEF Names
<1> QED BY <1>1, <1>2 DEF SendsAnew

(* A result that is handled leaves nothing of its goal behind.             *)
LEMMA ResultEmpties ==
  ASSUME feedback = {}, TypeOK, OwnInv, ResultHandled, UNCHANGED << phase, goal >>
  PROVE  /\ ~Asking /\ ~Working' /\ feedback' = {} /\ result' = NoResult /\ client' = client
         /\ client \notin cancels'
  BY DEF ResultHandled, OwnInv, Working

LEMMA ResultSends ==
  ASSUME feedback = {}, TypeOK, OwnInv, OnResult, UNCHANGED execVars
  PROVE  /\ FeedbackOfGoal'
         /\ NothingSent' \/ SendsAnew
<1>1. ResultHandled /\ UNCHANGED << phase, goal >>
  BY DEF OnResult, ResultReplaced, ResultLatched, ResultApplied, execVars
<1>2. /\ ~Asking /\ ~Working' /\ feedback' = {} /\ result' = NoResult /\ client' = client
      /\ client \notin cancels'
  BY <1>1, ResultEmpties
<1>3. FeedbackOfGoal'
  BY <1>2 DEF FeedbackOfGoal
<1>4. CASE UNCHANGED << goalReqs, sendFuture >>
  BY <1>2, <1>3, <1>4 DEF NothingSent, SentTask, Asking
<1>5. ASSUME NEW known, Dispatch(known, FALSE) PROVE NothingSent' \/ SendsAnew
  BY <1>2, <1>4, <1>5, DispatchSends, DispatchSendsAnew
<1> QED BY <1>3, <1>4, <1>5 DEF OnResult, ResultReplaced, ResultLatched, ResultApplied, NoDispatch

(* The executor sends nothing: it only works on what it was sent.          *)
LEMMA SentExecutor ==
  ASSUME TypeOK, OwnInv, FeedbackOfGoal, ExecNext, UNCHANGED managerVars
  PROVE  FeedbackOfGoal' /\ Carries
<1>0. ASSUME UNCHANGED << goalReqs, client, phase, goal, result >>, feedback' \subseteq feedback
      PROVE  FeedbackOfGoal' /\ Carries
  <2>1. Working' <=> Working
    BY <1>0 DEF Working
  <2> QED BY <1>0, <2>1 DEF FeedbackOfGoal, Carries, SentTask
<1>1. client' = client
  BY DEF ExecNext, ReceiveGoal, BeginExecution, NavAnswers, NavFinishes, NavDrives, ReceiveCancel,
         ReceiveStaleCancel, OnMissionState, linkVars
<1>2. ASSUME NEW g \in goalReqs, ReceiveGoal(g) PROVE FeedbackOfGoal' /\ Carries
  <2>1. /\ goalReqs' = goalReqs \ {g} /\ UNCHANGED << feedback, result >>
        /\ \/ UNCHANGED << phase, goal >>
           \/ phase = "idle" /\ phase' = "accepted" /\ goal' = g
    BY <1>2 DEF ReceiveGoal
  <2>2. Working => Working'
    BY <1>1, <2>1 DEF Working
  <2>3. \A t \in Tasks, m \in Missions :
          Working' /\ Names(goal', t, m) => SentTask(t, m)
    BY <1>1, <2>1 DEF Working, SentTask
  <2> QED BY <1>1, <2>1, <2>2, <2>3 DEF FeedbackOfGoal, Carries, SentTask
<1>3. ASSUME phase # "idle", UNCHANGED goalReqs,
             \/ UNCHANGED feedback
             \/ /\ goal.client = client
                /\ feedback' = feedback \cup {[task |-> goal.task, mission |-> goal.mission]},
             \/ phase' # "idle" /\ UNCHANGED << result, goal >>
             \/ /\ phase' = "idle" /\ goal.client # client /\ UNCHANGED result
             \/ /\ phase' = "idle" /\ goal.client = client
                /\ result' # NoResult /\ result'.task = goal.task /\ result'.mission = goal.mission
      PROVE  FeedbackOfGoal' /\ Carries
  <2>1. \A t \in Tasks, m \in Missions :
          (\E f \in feedback' : Names(f, t, m)) => SentTask(t, m)
    <3>1. \A t \in Tasks, m \in Missions :
            /\ Names([task |-> goal.task, mission |-> goal.mission], t, m)
            /\ goal.client = client
            => SentTask(t, m)
      BY <1>3 DEF Names, SentTask, Working
    <3> QED BY <1>3, <3>1 DEF SentTask
  <2>2. CASE phase' # "idle" /\ UNCHANGED << result, goal >>
    <3>1. (Working' <=> Working) /\ (goal.client = client => Working)
      BY <1>1, <1>3, <2>2 DEF Working
    <3> QED BY <1>1, <1>3, <2>1, <2>2, <3>1 DEF FeedbackOfGoal, Carries, SentTask
  <2>3. CASE phase' = "idle" /\ goal.client # client /\ UNCHANGED result
    <3>1. ~Working' /\ ~Working
      BY <2>3 DEF Working
    <3> QED BY <1>1, <1>3, <2>1, <2>3, <3>1 DEF FeedbackOfGoal, Carries, SentTask
  <2>4. CASE /\ phase' = "idle" /\ goal.client = client
             /\ result' # NoResult /\ result'.task = goal.task /\ result'.mission = goal.mission
    <3>1. ~Working' /\ Working
      BY <1>3, <2>4 DEF Working
    <3>2. \A t \in Tasks, m \in Missions : Names(result', t, m) => SentTask(t, m)
      BY <2>4, <3>1 DEF Names, SentTask
    <3> QED BY <1>1, <1>3, <2>1, <2>4, <3>1, <3>2 DEF FeedbackOfGoal, Carries, SentTask
  <2> QED BY <1>3, <2>2, <2>3, <2>4
<1>4. ASSUME NEW nav \in {"SUCCEEDED", "FAILED", "CANCELLED"}, Return(nav)
      PROVE  /\ phase' = "idle"
             /\ \/ goal.client # client /\ UNCHANGED result
                \/ /\ goal.client = client
                   /\ result' # NoResult /\ result'.task = goal.task /\ result'.mission = goal.mission
  <2>1. Outcome(nav) \in Outcomes
    BY <1>4, ExecutorAssumption DEF Outcome, Outcomes, TypeOK, ExecTypeOK
  <2>2. [task |-> goal.task, mission |-> goal.mission, outcome |-> Outcome(nav)] \in Results
    BY <2>1 DEF TypeOK, ExecTypeOK, Goals, Results
  <2> QED BY <1>4, <2>2, NoResultAssumption DEF Return
<1>5. CASE BeginExecution
  <2>1. phase # "idle" /\ UNCHANGED goalReqs
    BY <1>5 DEF BeginExecution
  <2>2. \/ UNCHANGED feedback
        \/ /\ goal.client = client
           /\ feedback' = feedback \cup {[task |-> goal.task, mission |-> goal.mission]}
    BY <1>5 DEF BeginExecution, Progress
  <2>3. \/ phase' # "idle" /\ UNCHANGED << result, goal >>
        \/ Return("CANCELLED") \/ Return("FAILED")
    BY <1>5 DEF BeginExecution
  <2> QED BY <1>3, <1>4, <2>1, <2>2, <2>3
<1>6. CASE NavAnswers
  <2>1. phase # "idle" /\ UNCHANGED << goalReqs, feedback >>
    BY <1>6 DEF NavAnswers
  <2>2. \/ phase' # "idle" /\ UNCHANGED << result, goal >>
        \/ Return("FAILED")
    BY <1>6 DEF NavAnswers
  <2> QED BY <1>3, <1>4, <2>1, <2>2
<1>7. ASSUME NEW nav \in {"SUCCEEDED", "FAILED", "CANCELLED"}, NavFinishes(nav)
      PROVE  FeedbackOfGoal' /\ Carries
  <2>1. phase # "idle" /\ UNCHANGED << goalReqs, feedback >> /\ Return(nav)
    BY <1>7 DEF NavFinishes
  <2> QED BY <1>3, <1>4, <2>1
<1>8. ASSUME NEW v \in NavVelocities, NavDrives(v) PROVE FeedbackOfGoal' /\ Carries
  BY <1>0, <1>1, <1>8 DEF NavDrives, execVars
<1>9. ASSUME NEW c \in cancels, ReceiveCancel(c) PROVE FeedbackOfGoal' /\ Carries
  BY <1>0, <1>1, <1>9 DEF ReceiveCancel
<1>10. CASE ReceiveStaleCancel \/ OnMissionState
  BY <1>0, <1>10 DEF ReceiveStaleCancel, OnMissionState, execVars, linkVars
<1> QED BY <1>2, <1>5, <1>6, <1>7, <1>8, <1>9, <1>10 DEF ExecNext

InOrder == OnResult => feedback = {}

LEMMA SentOrigin ==
  ASSUME InOrder, TypeOK, OwnInv, FeedbackOfGoal, [Next]_vars
  PROVE  /\ FeedbackOfGoal'
         /\ Carries \/ SendsAnew
<1>1. ASSUME UNCHANGED << goalReqs, client, phase, goal, result >>, feedback' \subseteq feedback
      PROVE  FeedbackOfGoal' /\ Carries
  <2>1. Working' <=> Working
    BY <1>1 DEF Working
  <2> QED BY <1>1, <2>1 DEF FeedbackOfGoal, Carries, SentTask
<1>2. ASSUME client' = client, UNCHANGED << phase, goal, result, feedback >>,
             client \notin cancels \/ handle, client \in cancels' => client \in cancels \/ handle,
             NEW known, Dispatch(known, handle)
      PROVE  FeedbackOfGoal' /\ (Carries \/ SendsAnew)
  <2>1. CASE UNCHANGED << goalReqs, sendFuture >>
    BY <1>1, <1>2, <2>1
  <2>2. ASSUME NEW t \in Tasks, DispatchedTask(t, handle) PROVE FeedbackOfGoal' /\ SendsAnew
    <3>1. ~InFlight /\ ~handle
      BY <2>2 DEF DispatchedTask, InFlight
    <3>2. ~Asking /\ ~Working /\ result = NoResult
      BY <3>1, NothingOwn
    <3>3. feedback = {} /\ ~Working'
      BY <1>2, <3>2 DEF FeedbackOfGoal, Working
    <3>4. feedback' = {} /\ result' = NoResult /\ client \notin cancels'
      BY <1>2, <3>1, <3>2, <3>3
    <3> QED BY <1>2, <2>2, <3>2, <3>3, <3>4, DispatchSendsAnew DEF FeedbackOfGoal
  <2> QED BY <1>2, <2>1, <2>2, DispatchSends
<1>3. client \notin cancels \/ handle
  BY DEF OwnInv
<1>4. CASE UNCHANGED vars
  BY <1>1, <1>4 DEF vars, linkVars, execVars
<1>5. CASE ExecNext /\ UNCHANGED managerVars
  BY <1>5, SentExecutor
<1>6. CASE ManagerNext /\ UNCHANGED execVars
  <2>1. UNCHANGED << phase, goal >>
    BY <1>6 DEF execVars
  <2>2. CASE ManageStart \/ ManageResume \/ PublishTimer
    BY <1>2, <1>3, <2>1, <2>2, CancelGoalAsks DEF ManageStart, ManageResume, PublishTimer
  <2>3. CASE ManagePause \/ ManageStop
    BY <1>2, <1>3, <2>1, <2>3, CancelGoalAsks DEF ManagePause, ManageStop, Halting
  <2>4. CASE BarrierPasses
    BY <1>2, <1>3, <2>1, <2>4 DEF BarrierPasses
  <2>5. CASE BarrierRefuses \/ EmergencyStop
    BY <1>1, <2>1, <2>5 DEF BarrierRefuses, EmergencyStop, NoDispatch
  <2>6. ASSUME NEW v \in Velocities, NEW d \in 1 .. ManualHold, OnManualVelocity(v, d)
        PROVE  FeedbackOfGoal' /\ Carries
    BY <1>1, <2>1, <2>6 DEF OnManualVelocity, velocityFrame
  <2>7. CASE OperatorCommand
    BY <2>2, <2>3, <2>4, <2>5, <2>6, <2>7 DEF OperatorCommand, SetRobotMode, ResetStop
  <2>8. CASE RiskUpdate
    <3>1. PICK replace : RiskApplied(replace)
      BY <2>8 DEF RiskUpdate, EmergencyRisk, NormalRisk
    <3>2. CASE (replace /\ InFlight) \/ ~replace
      BY <1>1, <2>1, <3>1, <3>2 DEF RiskApplied, NoDispatch
    <3>3. CASE ~InFlight /\ replace
      BY <1>2, <1>3, <2>1, <3>1, <3>3, CancelGoalAsks DEF RiskApplied
    <3> QED BY <3>2, <3>3
  <2>9. CASE \/ CooldownEnds \/ ServerDiscovered \/ OnGoalResponse \/ OnCancelled
             \/ OnNavVelocity \/ VelocityTick \/ Elapse
    BY <1>1, <2>1, <2>9 DEF CooldownEnds, ServerDiscovered, OnGoalResponse, OnCancelled, OnNavVelocity,
           VelocityTick, Elapse, velocityFrame, linkVars
  <2>10. CASE OnResult
    BY <1>6, <2>10, ResultSends DEF InOrder, NothingSent, Carries
  <2>11. ASSUME NEW f \in feedback, OnFeedback(f) PROVE FeedbackOfGoal' /\ Carries
    BY <1>1, <2>1, <2>11 DEF OnFeedback
  <2>12. CASE Crash \/ CrashInStart \/ RevisionConflict
    <3>1. ClientDies /\ alive' = FALSE /\ sendFuture' = FALSE /\ handle' = FALSE
      BY <2>12 DEF Crash, CrashInStart, RevisionConflict, Dies
    <3>2. client' = client + 1 /\ feedback' = {} /\ result' = NoResult /\ UNCHANGED goalReqs
      BY <3>1 DEF ClientDies
    <3>3. ~Working' /\ \A g \in goalReqs' : g.client # client'
      BY <2>1, <3>2, ClientNumbers DEF OwnInv, Earlier, Working
    <3> QED BY <3>2, <3>3 DEF FeedbackOfGoal, Carries, SentTask
  <2>13. CASE RestartSame \/ RestartOther
    BY <1>1, <2>1, <2>13 DEF RestartSame, RestartOther, Restart
  <2> QED
    BY <1>6, <2>2, <2>7, <2>8, <2>9, <2>10, <2>11, <2>12, <2>13 DEF ManagerNext
<1> QED BY <1>4, <1>5, <1>6 DEF Next

(***************************************************************************)
(* Finished tasks.                                                         *)
(***************************************************************************)

(* A process that is down has nothing in flight.                           *)
LEMMA NothingSentDown ==
  ASSUME TypeOK, OwnInv, FeedbackOfGoal, ~alive
  PROVE  NothingSent
  BY NothingSentAtRest DEF OwnInv

(* A task that was finished in a mission stays as it was finished, through *)
(* preemption, crashes and restarts under the same or another identity;    *)
(* what changes it is feedback of the very task, handled after its result. *)
THEOREM TerminalStaysAlways == Spec => TerminalStays
<1> DEFINE Stays == \A t \in Tasks :
                      mission' = mission /\ taskState[t] \in Terminal
                        => \/ taskState'[t] = taskState[t]
                           \/ \E f \in feedback \ feedback' : f.task = t
<1>1. ASSUME TypeOK, ActiveConsistent, StoreKeeps, [Next]_vars
      PROVE  Stays
  <2>0. taskState \in [Tasks -> TaskStates] /\ mission \in Nat
    BY <1>1, LinkAssumption, ContentFields DEF TypeOK, Missions
  <2>1. CASE Finishes
    <3>1. taskState' = [taskState EXCEPT ![active] = TerminalState(result.outcome)]
      BY <2>1 DEF Finishes, FinishExecution, Finish
    <3>2. \A t \in Tasks : t = active => taskState[t] \notin Terminal
      BY <1>1 DEF ActiveConsistent, Terminal
    <3> QED BY <2>0, <3>1, <3>2
  <2>2. CASE BeginsAnew
    BY <2>0, <2>2 DEF BeginsAnew
  <2>3. CASE RestartSame
    <3>1. taskState' = Demoted(saved.taskState)
      BY <2>3 DEF RestartSame
    <3> QED BY <1>1, <3>1 DEF StoreKeeps, Demoted, Terminal
  <2>4. ASSUME NEW f \in feedback, Activates(f) PROVE Stays
    <3>1. /\ taskState' = [Demoted(taskState) EXCEPT ![f.task] = "ACTIVE"]
          /\ feedback' = feedback \ {f}
      BY <2>4 DEF Activates, OnFeedback
    <3>2. f \in feedback \ feedback'
      BY <3>1
    <3>3. \A t \in Tasks : taskState[t] \in Terminal /\ t # f.task => taskState'[t] = taskState[t]
      BY <3>1 DEF Demoted, Terminal
    <3> QED BY <3>2, <3>3
  <2>5. CASE \A t \in Tasks : Requeued(t)
    BY <2>5 DEF Requeued
  <2> QED BY <1>1, <2>1, <2>2, <2>3, <2>4, <2>5, TaskEffects
<1> QED
  BY <1>1, TypeCorrect, ActiveConsistentAlways, StoreAlways, PTL DEF Spec, TerminalStays

(***************************************************************************)
(* Results.  While a mission runs that nobody paused or stopped, and no    *)
(* replacement is pending, the goal in flight was not cancelled and is the *)
(* goal of the active task as soon as its feedback has been handled; or it *)
(* is the goal of an earlier mission, of which this mission has no task to *)
(* make active.  Two things disturb this: a mission resumed before its     *)
(* pause is through runs with a goal that was cancelled, and a result that *)
(* overtakes its feedback leaves feedback of a goal that has ended.        *)
(***************************************************************************)
Undisturbed == InOrder /\ (ManageResume => ~InFlight \/ replacement)

OneSent ==
  \A t, u \in Tasks, m, n \in Missions : SentTask(t, m) /\ SentTask(u, n) => t = u /\ m = n

SentOpen ==
  \A t \in Tasks, m \in Missions :
     SentTask(t, m) => m <= mission /\ (m = mission => taskState[t] \in {"QUEUED", "ACTIVE"})

LEMMA OpenStep ==
  ASSUME InOrder, TypeOK, OwnInv, FeedbackOfGoal, OneSent, SentOpen, [Next]_vars
  PROVE  OneSent' /\ SentOpen'
<1>0. mission \in Nat /\ \A m \in Missions : m \in Nat
  BY ContentFields, LinkAssumption DEF TypeOK, Missions
<1>1. CASE SendsAnew
  BY <1>0, <1>1 DEF SendsAnew, OneSent, SentOpen
<1>2. ASSUME NothingSent' PROVE OneSent' /\ SentOpen'
  BY <1>2 DEF NothingSent, OneSent, SentOpen
<1>3. CASE Carries
  <2>1. OneSent'
    BY <1>3 DEF Carries, OneSent
  <2>2. CASE Finishes /\ OnResult /\ UNCHANGED execVars
    BY <1>1, <1>2, <2>2, ResultSends DEF InOrder
  <2>3. CASE BeginsAnew
    <3>1. \A t \in Tasks, m \in Missions : SentTask(t, m)' => m <= mission
      BY <1>3 DEF Carries, SentOpen
    <3> QED BY <1>0, <2>1, <2>3, <3>1 DEF BeginsAnew, SentOpen
  <2>4. CASE RestartSame
    <3>1. NothingSent
      BY <2>4, NothingSentDown DEF RestartSame, Restart
    <3> QED BY <1>2, <1>3, <3>1 DEF Carries, NothingSent
  <2>5. ASSUME NEW f \in feedback, Activates(f) PROVE SentOpen'
    <3>1. \A t \in Tasks : taskState'[t] \in {taskState[t], "QUEUED", "ACTIVE"}
      <4>1. taskState' = [Demoted(taskState) EXCEPT ![f.task] = "ACTIVE"]
        BY <2>5 DEF Activates
      <4> QED BY <4>1 DEF Demoted
    <3>2. mission' = mission
      BY <2>5 DEF Activates, OnFeedback
    <3> QED BY <1>3, <3>1, <3>2 DEF Carries, SentOpen
  <2>6. CASE mission' = mission /\ \A t \in Tasks : Requeued(t)
    <3>1. \A t \in Tasks : taskState[t] \in {"QUEUED", "ACTIVE"} => taskState'[t] \in {"QUEUED", "ACTIVE"}
      BY <2>6 DEF Requeued
    <3> QED BY <1>3, <2>1, <2>6, <3>1 DEF Carries, SentOpen
  <2> QED BY <2>1, <2>2, <2>3, <2>4, <2>5, <2>6, TaskEffects
<1> QED BY <1>1, <1>3, SentOrigin

(* The executor is told the latch as it is, and a mission that runs or is  *)
(* paused is in an active run.                                             *)
RunInv ==
  /\ snapshot = latched
  /\ missionState \in {"RUNNING", "PAUSED"} => lifecycle = "ACTIVE"
  /\ saved.missionState \in {"RUNNING", "PAUSED"} => saved.lifecycle = "ACTIVE"

LEMMA RunStep ==
  ASSUME TypeOK, LatchInv, RunInv, [Next]_vars
  PROVE  RunInv'
<1>1. ASSUME UNCHANGED << snapshot, latched >> \/ snapshot' = latched',
             missionState' \in {"RUNNING", "PAUSED"} => lifecycle' = "ACTIVE",
             UNCHANGED saved \/ saved' = Content'
      PROVE  RunInv'
  BY <1>1 DEF RunInv, Content
<1>2. ASSUME UNCHANGED << snapshot, latched >> \/ snapshot' = latched',
             UNCHANGED << missionState, lifecycle >>,
             UNCHANGED saved \/ saved' = Content'
      PROVE  RunInv'
  BY <1>1, <1>2 DEF RunInv
<1>3. CASE UNCHANGED vars
  BY <1>2, <1>3 DEF vars, managerVars, runtimeVars, processVars, linkVars
<1>4. CASE ExecNext /\ UNCHANGED managerVars
  BY <1>2, <1>4
     DEF managerVars, runtimeVars, processVars, ExecNext, ReceiveGoal, BeginExecution, NavAnswers,
         NavFinishes, NavDrives, ReceiveCancel, ReceiveStaleCancel, OnMissionState, linkVars
<1>5. CASE OperatorCommand
  <2>1. CASE ManageStart
    BY <1>1, <2>1 DEF ManageStart, Publish
  <2>2. CASE ManagePause \/ ManageStop
    BY <1>1, <2>2 DEF ManagePause, ManageStop, Halting, Publish, RunInv
  <2>3. CASE ManageResume
    BY <1>1, <2>3 DEF ManageResume, Publish, RunInv
  <2>4. CASE BarrierRefuses
    BY <1>2, <2>4 DEF BarrierRefuses, runtimeVars, processVars
  <2>5. CASE BarrierPasses \/ EmergencyStop
    BY <1>2, <2>5 DEF BarrierPasses, EmergencyStop, Publish
  <2>6. ASSUME NEW v \in Velocities, NEW d \in 1 .. ManualHold, OnManualVelocity(v, d)
        PROVE  RunInv'
    BY <1>2, <2>6 DEF OnManualVelocity, velocityFrame, runtimeVars, processVars
  <2> QED BY <1>5, <2>1, <2>2, <2>3, <2>4, <2>5, <2>6 DEF OperatorCommand, SetRobotMode, ResetStop
<1>6. CASE RiskUpdate
  BY <1>2, <1>6 DEF RiskUpdate, EmergencyRisk, NormalRisk, RiskApplied, Publish
<1>7. CASE \/ CooldownEnds \/ ServerDiscovered \/ OnGoalResponse \/ OnCancelled
           \/ OnNavVelocity \/ VelocityTick \/ Elapse
  BY <1>2, <1>7 DEF CooldownEnds, ServerDiscovered, OnGoalResponse, OnCancelled, OnNavVelocity,
                    VelocityTick, Elapse, velocityFrame, runtimeVars, processVars, linkVars
<1>8. CASE PublishTimer
  BY <1>2, <1>8 DEF PublishTimer, Publish, runtimeVars
<1>9. CASE OnResult
  <2>1. CASE UNCHANGED << missionState, lifecycle, snapshot, saved >>
    BY <1>2, <1>9, <2>1 DEF OnResult, ResultReplaced, ResultLatched, ResultApplied, ResultHandled
  <2>2. CASE CanFinish /\ FinishExecution(result.outcome) /\ Publish(arb, cmdVel)
    <3>1. \/ UNCHANGED << missionState, lifecycle >>
          \/ missionState' \in {"SUCCEEDED", "FAILED"}
      BY <2>2 DEF FinishExecution, Finish
    <3>2. snapshot' = latched' /\ saved' = Content'
      BY <2>2 DEF Publish
    <3> QED BY <1>1, <3>1, <3>2 DEF RunInv
  <2> QED BY <1>9, <2>1, <2>2 DEF OnResult, ResultReplaced, ResultLatched, ResultApplied
<1>10. ASSUME NEW f \in feedback, OnFeedback(f) PROVE RunInv'
  BY <1>2, <1>10 DEF OnFeedback, Publish
<1>11. CASE Crash \/ RevisionConflict
  BY <1>2, <1>11 DEF Crash, RevisionConflict, Dies, ClientDies, runtimeVars
<1>12. CASE CrashInStart
  BY <1>1, <1>12 DEF CrashInStart, Start, ClientDies
<1>13. CASE RestartSame
  <2>1. UNCHANGED << snapshot, latched >> \/ snapshot' = latched'
    BY <1>13 DEF RestartSame, LatchInv
  <2>2. missionState' \in {"RUNNING", "PAUSED"} => lifecycle' = "ACTIVE"
    BY <1>13 DEF RestartSame, RunInv
  <2> QED BY <1>1, <1>13, <2>1, <2>2 DEF RestartSame
<1>14. CASE RestartOther
  BY <1>1, <1>14 DEF RestartOther
<1> QED
  BY <1>3, <1>4, <1>5, <1>6, <1>7, <1>8, <1>9, <1>10, <1>11, <1>12, <1>13, <1>14 DEF Next, ManagerNext

LEMMA RunAlways == Spec => [](LatchInv /\ RunInv)
<1>1. Init => RunInv
  <2> SUFFICES ASSUME Init PROVE RunInv
    OBVIOUS
  <2>1. missionState = "RUNNING" /\ lifecycle = "ACTIVE" /\ latched = FALSE /\ snapshot = FALSE
    BY DEF Init, LinkInit, ManagerInit
  <2>2. saved.missionState = missionState /\ saved.lifecycle = lifecycle
    BY ContentFields DEF Init, ManagerInit, Content
  <2> QED BY <2>1, <2>2 DEF RunInv
<1>2. TypeOK /\ LatchInv /\ RunInv /\ [Next]_vars => RunInv'
  BY RunStep
<1> QED BY <1>1, <1>2, LatchInit, LatchStep, TypeCorrect, PTL DEF Spec

(***************************************************************************)
(* The goal of a mission that runs and waits for no replacement.           *)
(***************************************************************************)
Quiet == missionState = "RUNNING" /\ ~replacement

Ours == \E t \in Tasks : SentTask(t, mission)

(* The goal of task t in mission m has been begun, or has ended. *)
Begun(t, m) ==
  \/ Working /\ phase # "accepted" /\ Names(goal, t, m)
  \/ result # NoResult /\ Names(result, t, m)

Unhindered ==
  /\ client \notin cancels
  /\ Working => ~cancelRequested /\ ~execLatched /\ ~navCancel
  /\ result # NoResult => result.outcome \notin {"CANCELLED", "STOPPED"}

Shown ==
  \A t \in Tasks, m \in Missions :
     Begun(t, m) => active = t \/ \E f \in feedback : Names(f, t, m)

(* Nothing of an earlier mission can make a task of this one active. *)
StaleIdle ==
  \A t \in Tasks, m \in Missions :
     SentTask(t, m) /\ m # mission
       => active = NoTask /\ (IsEmergency(t) => taskState[t] = "ABSENT")

GoalInv ==
  Quiet => (latched => ~InFlight) /\ (Ours => Unhindered /\ Shown) /\ StaleIdle

(* The process has no goal, or one of this mission that was never begun.   *)
Rested ==
  /\ ~Working /\ result = NoResult /\ client \notin cancels /\ (latched => ~InFlight)
  /\ \A t \in Tasks, m \in Missions : SentTask(t, m) => m = mission

LEMMA RestedGoal == ASSUME Rested PROVE GoalInv
  BY DEF Rested, GoalInv, Unhindered, Shown, Begun, StaleIdle

LEMMA RestingNow ==
  ASSUME TypeOK, OwnInv, FeedbackOfGoal, ~InFlight
  PROVE  Rested /\ NothingSent
<1>1. ~Working /\ result = NoResult
  BY NothingOwn
<1>2. client \notin cancels
  BY DEF OwnInv, InFlight
<1>3. NothingSent
  BY NothingSentAtRest
<1> QED BY <1>1, <1>2, <1>3 DEF Rested, NothingSent

(* A goal is only sent while nothing is latched.                           *)
LEMMA SendsUnlatched ==
  ASSUME NEW known, NEW held, Dispatch(known, held), ~sendFuture, ~handle'
  PROVE  latched' => ~InFlight'
<1>1. UNCHANGED sendFuture \/ ~latched'
  BY DispatchSends DEF DispatchedTask, Runnable
<1> QED BY <1>1 DEF InFlight

(* What leaves the goal, the latch and the active task alone.              *)
LEMMA GoalFrame ==
  ASSUME GoalInv, Quiet' => Quiet, Carries,
         UNCHANGED << client, phase, goal, cancelRequested, execLatched, navCancel, result, active,
                      feedback, mission >>,
         active = NoTask => UNCHANGED taskState,
         client \in cancels' => client \in cancels, latched' => latched, InFlight' => InFlight,
         mission \in Missions
  PROVE  GoalInv'
<1>1. Working' <=> Working
  BY DEF Working
<1>2. \A t \in Tasks, m \in Missions : Begun(t, m)' <=> Begun(t, m)
  BY <1>1 DEF Begun
<1>3. Ours' => Ours
  BY DEF Ours, Carries
<1>4. StaleIdle => StaleIdle'
  BY DEF StaleIdle, Carries
<1> QED BY <1>1, <1>2, <1>3, <1>4 DEF GoalInv, Unhindered, Shown

LEMMA GoalExecutor ==
  ASSUME TypeOK, OwnInv, RunInv, GoalInv, Carries, ExecNext, UNCHANGED managerVars
  PROVE  GoalInv'
<1>0. /\ UNCHANGED << mission, missionState, replacement, latched, active, taskState, sendFuture,
                     handle >>
      /\ client' = client
  BY DEF managerVars, runtimeVars, clientVars, flagVars, ExecNext, ReceiveGoal, BeginExecution,
         NavAnswers, NavFinishes, NavDrives, ReceiveCancel, ReceiveStaleCancel, OnMissionState, linkVars
<1>1. (Quiet' <=> Quiet) /\ (InFlight' <=> InFlight)
  BY <1>0 DEF Quiet, InFlight
<1> SUFFICES ASSUME Quiet, Ours PROVE Unhindered' /\ Shown'
  <2>1. Ours' => Ours
    BY <1>0, ContentFields DEF Ours, Carries, TypeOK
  <2>2. StaleIdle => StaleIdle'
    BY <1>0 DEF StaleIdle, Carries
  <2> QED BY <1>0, <1>1, <2>1, <2>2 DEF GoalInv
<1>2. Unhindered /\ Shown /\ (latched => ~InFlight)
  BY DEF GoalInv
<1>3. ASSUME UNCHANGED << phase, goal, cancelRequested, execLatched, navCancel, result, feedback, cancels >>
      PROVE  Unhindered' /\ Shown'
  <2>1. (Working' <=> Working) /\ \A t \in Tasks, m \in Missions : Begun(t, m)' <=> Begun(t, m)
    BY <1>0, <1>3 DEF Working, Begun
  <2> QED BY <1>0, <1>2, <1>3, <2>1 DEF Unhindered, Shown
<1>4. ASSUME NEW g \in goalReqs, ReceiveGoal(g) PROVE Unhindered' /\ Shown'
  <2>1. UNCHANGED << cancels, feedback, result, execLatched >>
    BY <1>4 DEF ReceiveGoal
  <2>2. CASE UNCHANGED << phase, goal, cancelRequested, navCancel >>
    BY <1>3, <2>1, <2>2
  <2>3. CASE /\ ~execLatched /\ phase' = "accepted" /\ ~cancelRequested' /\ ~navCancel'
    <3>1. \A t \in Tasks, m \in Missions : Begun(t, m)' => Begun(t, m)
      BY <2>1, <2>3 DEF Begun
    <3> QED BY <1>0, <1>1, <1>2, <2>1, <2>3, <3>1 DEF Unhindered, Shown
  <2> QED BY <1>4, <2>2, <2>3 DEF ReceiveGoal
<1>5. ASSUME NEW nav \in {"SUCCEEDED", "FAILED", "CANCELLED"}, Return(nav),
             Working => nav # "CANCELLED", UNCHANGED cancels, phase # "idle",
             \/ UNCHANGED feedback /\ phase # "accepted"
             \/ UNCHANGED feedback /\ ~Working
             \/ Progress
      PROVE  Unhindered' /\ Shown'
  <2>1. ~Working' /\ phase' = "idle"
    BY <1>5 DEF Return, Working
  <2>2. \A t \in Tasks, m \in Missions :
           (\E f \in feedback : Names(f, t, m)) => \E f \in feedback' : Names(f, t, m)
    BY <1>5 DEF Progress
  <2>3. CASE goal.client # client
    <3>1. UNCHANGED result
      BY <1>5, <2>3 DEF Return
    <3> QED BY <1>0, <1>1, <1>2, <1>5, <2>1, <2>2, <2>3, <3>1 DEF Unhindered, Shown, Begun
  <2>4. CASE goal.client = client
    <3>1. Working /\ ~cancelRequested /\ ~execLatched
      BY <1>2, <1>5, <2>4 DEF Working, Unhindered
    <3>2. result' = [task |-> goal.task, mission |-> goal.mission, outcome |-> Outcome(nav)]
      BY <1>5, <2>4 DEF Return
    <3>3. Outcome(nav) \notin {"CANCELLED", "STOPPED"}
      BY <1>5, <3>1 DEF Outcome, TypeOK, ExecTypeOK
    <3>4. \A t \in Tasks, m \in Missions : Names(result', t, m) <=> Names(goal, t, m)
      BY <3>2 DEF Names
    <3>5. result'.outcome \notin {"CANCELLED", "STOPPED"}
      BY <3>2, <3>3
    <3>6. \A t \in Tasks, m \in Missions :
            Names(goal, t, m) => active = t \/ \E f \in feedback' : Names(f, t, m)
      <4>1. CASE phase # "accepted"
        BY <1>2, <2>2, <3>1, <4>1 DEF Shown, Begun
      <4>2. CASE Progress
        <5>1. [task |-> goal.task, mission |-> goal.mission] \in feedback'
          BY <2>4, <4>2 DEF Progress
        <5> QED BY <5>1 DEF Names
      <4> QED BY <1>5, <3>1, <4>1, <4>2
    <3> QED BY <1>0, <1>1, <1>2, <1>5, <2>1, <3>4, <3>5, <3>6 DEF Unhindered, Shown, Begun
  <2> QED BY <2>3, <2>4
<1>6. CASE BeginExecution
  <2>1. phase = "accepted" /\ UNCHANGED cancels
    BY <1>6 DEF BeginExecution
  <2>2. CASE Interrupted /\ Return("CANCELLED") /\ UNCHANGED feedback
    <3>1. ~Working
      BY <1>2, <2>2 DEF Interrupted, Unhindered
    <3> QED BY <1>5, <2>1, <2>2, <3>1
  <2>3. CASE Progress /\ Return("FAILED")
    BY <1>5, <2>1, <2>3
  <2>4. CASE /\ Progress /\ phase' = "requesting"
             /\ UNCHANGED << goal, cancelRequested, navCancel, execLatched, result >>
    <3>1. Working' <=> Working
      BY <1>0, <2>1, <2>4 DEF Working
    <3>2. \A t \in Tasks, m \in Missions :
             (\E f \in feedback : Names(f, t, m)) => \E f \in feedback' : Names(f, t, m)
      BY <2>4 DEF Progress
    <3>3. ASSUME NEW t \in Tasks, NEW m \in Missions, Working, Names(goal, t, m)
          PROVE  \E f \in feedback' : Names(f, t, m)
      <4>1. [task |-> goal.task, mission |-> goal.mission] \in feedback'
        BY <2>4, <3>3 DEF Progress, Working
      <4> QED BY <3>3, <4>1 DEF Names
    <3> QED BY <1>0, <1>1, <1>2, <2>1, <2>4, <3>1, <3>2, <3>3 DEF Unhindered, Shown, Begun
  <2> QED BY <1>6, <2>2, <2>3, <2>4 DEF BeginExecution
<1>7. CASE NavAnswers
  <2>1. phase = "requesting" /\ UNCHANGED << cancels, feedback >>
    BY <1>7 DEF NavAnswers
  <2>2. CASE Return("FAILED")
    BY <1>5, <2>1, <2>2
  <2>3. CASE /\ phase' = "navigating" /\ navCancel' = Interrupted
             /\ UNCHANGED << goal, cancelRequested, execLatched, result >>
    <3>1. Working' <=> Working
      BY <1>0, <2>1, <2>3 DEF Working
    <3> QED BY <1>0, <1>1, <1>2, <2>1, <2>3, <3>1 DEF Unhindered, Shown, Begun, Interrupted
  <2> QED BY <1>7, <2>2, <2>3 DEF NavAnswers
<1>8. ASSUME NEW nav \in {"SUCCEEDED", "FAILED", "CANCELLED"}, NavFinishes(nav)
      PROVE  Unhindered' /\ Shown'
  BY <1>2, <1>5, <1>8 DEF NavFinishes, Unhindered
<1>9. ASSUME NEW v \in NavVelocities, NavDrives(v) PROVE Unhindered' /\ Shown'
  BY <1>3, <1>9 DEF NavDrives, execVars
<1>10. ASSUME NEW c \in cancels, ReceiveCancel(c) PROVE Unhindered' /\ Shown'
  <2>1. /\ cancels' \subseteq cancels /\ c # client
        /\ UNCHANGED << phase, goal, execLatched, feedback, result >>
    BY <1>2, <1>10 DEF ReceiveCancel, Unhindered
  <2>2. Working' <=> Working
    BY <1>0, <2>1 DEF Working
  <2>3. Working => cancelRequested' = cancelRequested /\ navCancel' = navCancel
    BY <1>10, <2>1 DEF ReceiveCancel, Working, TypeOK, ExecTypeOK
  <2> QED BY <1>0, <1>1, <1>2, <2>1, <2>2, <2>3 DEF Unhindered, Shown, Begun
<1>11. CASE ReceiveStaleCancel
  BY <1>3, <1>11 DEF ReceiveStaleCancel, execVars
<1>12. CASE OnMissionState
  <2>1. /\ UNCHANGED << phase, goal, cancelRequested, feedback, result, cancels >>
        /\ execLatched' = latched /\ navCancel' = (navCancel \/ (latched /\ phase = "navigating"))
    BY <1>12 DEF OnMissionState, linkVars, RunInv
  <2>2. (Working' <=> Working) /\ (Working => ~latched)
    BY <1>0, <1>2, <2>1, NothingOwn DEF Working, Unhindered
  <2> QED BY <1>0, <1>1, <1>2, <2>1, <2>2 DEF Unhindered, Shown, Begun
<1> QED BY <1>4, <1>6, <1>7, <1>8, <1>9, <1>10, <1>11, <1>12 DEF ExecNext

LEMMA GoalManager ==
  ASSUME Undisturbed, TypeOK, OwnInv, OwnInv', LatchInv, RunInv, FeedbackOfGoal,
         OneSent, SentOpen, GoalInv, Carries \/ SendsAnew, ManagerNext, UNCHANGED execVars
  PROVE  GoalInv'
<1>0. UNCHANGED << phase, goal, cancelRequested, execLatched, navCancel >>
  BY DEF execVars
<1>1. ASSUME Quiet' => Quiet,
             UNCHANGED << client, result, active, feedback, mission, goalReqs >>,
             active = NoTask => UNCHANGED taskState,
             client \in cancels' => client \in cancels, latched' => latched, InFlight' => InFlight
      PROVE  GoalInv'
  <2>1. Carries
    BY <1>0, <1>1 DEF Carries, SentTask, Working
  <2>2. mission \in Missions
    BY ContentFields DEF TypeOK
  <2> QED BY <1>0, <1>1, <2>1, <2>2, GoalFrame
<1>2. ASSUME ~InFlight, UNCHANGED << client, result, handle >>,
             client \in cancels' => client \in cancels \/ handle,
             \/ UNCHANGED sendFuture
             \/ \E known : Dispatch(known, handle)
      PROVE  GoalInv'
  <2>1. Rested /\ NothingSent /\ ~sendFuture /\ ~handle
    BY <1>2, RestingNow DEF InFlight
  <2>2. latched' => ~InFlight'
    BY <1>2, <2>1, SendsUnlatched DEF InFlight
  <2>3. client \notin cancels'
    BY <1>2, <2>1 DEF Rested
  <2>4. \A t \in Tasks, m \in Missions : SentTask(t, m)' => m = mission'
    BY <2>1 DEF Carries, SendsAnew, NothingSent
  <2>5. Rested'
    BY <1>0, <1>2, <2>1, <2>2, <2>3, <2>4 DEF Rested, Working
  <2> QED BY <2>5, RestedGoal, PTL
<1>3. ASSUME ~Quiet' PROVE GoalInv'
  BY <1>3 DEF GoalInv
<1>4. CASE ManagePause \/ ManageStop
  BY <1>3, <1>4 DEF ManagePause, ManageStop, Quiet
<1>5. CASE ManageStart
  <2>1. /\ UNCHANGED << client, result, feedback, handle >> /\ ~latched'
        /\ mission' = mission + 1 /\ taskState' = InitialState /\ active' = NoTask
        /\ \E known : Dispatch(known, handle)
    BY <1>5 DEF ManageStart, Start, FreshQueue
  <2>2. CASE ~InFlight
    <3>1. client \in cancels' => client \in cancels \/ handle
      BY <1>5, CancelGoalAsks DEF ManageStart
    <3> QED BY <1>2, <2>1, <2>2, <3>1
  <2>3. CASE InFlight
    <3>1. UNCHANGED goalReqs
      BY <2>1, <2>3, DispatchSends DEF DispatchedTask, InFlight
    <3>2. \A t \in Tasks, m \in Missions : SentTask(t, m)' => m <= mission
      BY <1>0, <2>1, <3>1 DEF SentTask, Working, SentOpen
    <3>3. /\ mission \in Nat /\ mission' \in Missions
          /\ \A m \in Missions : m \in Nat
      BY <1>5, LinkAssumption, ContentFields DEF TypeOK, Missions, ManageStart, Start, FreshQueue
    <3>4. ~Ours'
      BY <2>1, <3>2, <3>3 DEF Ours
    <3>5. \A t \in Tasks : IsEmergency(t) => taskState'[t] = "ABSENT"
      BY <2>1 DEF InitialState
    <3> QED BY <2>1, <3>4, <3>5 DEF GoalInv, StaleIdle
  <2> QED BY <2>2, <2>3
<1>20. CASE ManageResume
  <2>1. CASE ~InFlight
    BY <1>2, <1>20, <2>1, CancelGoalAsks DEF ManageResume
  <2>2. CASE replacement
    BY <1>3, <1>20, <2>2 DEF ManageResume, flagVars, Quiet
  <2> QED BY <1>20, <2>1, <2>2 DEF Undisturbed
<1>6. CASE BarrierRefuses
  <2>1. CASE InFlight
    BY <1>3, <1>6, <2>1 DEF BarrierRefuses, Quiet
  <2>2. CASE ~InFlight
    BY <1>2, <1>6, <2>2, CancelGoalAsks DEF BarrierRefuses
  <2> QED BY <2>1, <2>2
<1>7. CASE BarrierPasses
  BY <1>2, <1>7 DEF BarrierPasses, BarrierPending
<1>8. CASE EmergencyStop
  <2>1. CASE InFlight
    BY <1>3, <1>8, <2>1 DEF EmergencyStop, Quiet
  <2>2. CASE ~InFlight
    BY <1>2, <1>8, <2>2, CancelGoalAsks DEF EmergencyStop, NoDispatch
  <2> QED BY <2>1, <2>2
<1>9. ASSUME NEW v \in Velocities, NEW d \in 1 .. ManualHold, OnManualVelocity(v, d) PROVE GoalInv'
  BY <1>1, <1>9
     DEF OnManualVelocity, velocityFrame, runtimeVars, clientVars, flagVars, Quiet, InFlight
<1>10. CASE OperatorCommand
  BY <1>4, <1>5, <1>6, <1>7, <1>8, <1>9, <1>10, <1>20 DEF OperatorCommand, SetRobotMode, ResetStop
<1>11. CASE RiskUpdate
  <2>1. PICK replace \in BOOLEAN :
               RiskApplied(replace) /\ (~replace => active' = active /\ active # NoTask)
    <3>1. ASSUME NEW scores \in RiskMessages, EmergencyRisk(scores)
          PROVE  /\ RiskApplied(~ActivePreserved)
                 /\ ActivePreserved => active' = active /\ active # NoTask
      BY <3>1 DEF EmergencyRisk, ActivePreserved
    <3>2. ASSUME NEW scores \in RiskMessages, NormalRisk(scores)
          PROVE  /\ RiskApplied(~ActivePreserved)
                 /\ ActivePreserved => active' = active /\ active # NoTask
      BY <3>2 DEF NormalRisk, ActivePreserved
    <3> DEFINE kept == ActivePreserved
    <3>3. RiskApplied(~kept) /\ (kept => active' = active /\ active # NoTask)
      BY <1>11, <3>1, <3>2 DEF RiskUpdate
    <3> HIDE DEF kept
    <3>4. (~kept) \in BOOLEAN
      OBVIOUS
    <3> QED BY <3>3, <3>4
  <2>2. CASE replace /\ InFlight
    BY <1>3, <2>1, <2>2 DEF RiskApplied, Quiet
  <2>3. CASE replace /\ ~InFlight
    BY <1>2, <2>1, <2>3, CancelGoalAsks DEF RiskApplied
  <2>4. CASE ~replace
    BY <1>1, <2>1, <2>4 DEF RiskApplied, NoDispatch, Quiet, InFlight
  <2> QED BY <2>2, <2>3, <2>4
<1>12. CASE PublishTimer
  <2>1. CASE ~InFlight
    BY <1>2, <1>12, <2>1, CancelGoalAsks DEF PublishTimer, runtimeVars
  <2>2. CASE InFlight /\ ~Quiet
    BY <1>3, <1>12, <2>2 DEF PublishTimer, runtimeVars, flagVars, Quiet
  <2>3. CASE InFlight /\ Quiet
    <3>1. ~latched /\ missionState = "RUNNING"
      BY <2>3 DEF GoalInv, Quiet
    <3>2. robotMode = "AUTONOMOUS"
      <4>1. robotMode \in RobotModes
        BY ContentFields DEF TypeOK
      <4> QED BY <2>3, <3>1, <4>1 DEF OwnInv, LatchInv, ModeLatch, RobotModes
    <3>3. Runnable'
      BY <1>12, <3>1, <3>2 DEF PublishTimer, runtimeVars, RunInv, Runnable
    <3>4. UNCHANGED << cancels, cancelFuture >>
      BY <1>12, <3>3 DEF PublishTimer, CancelGoal
    <3>5. UNCHANGED << goalReqs, sendFuture >>
      BY <1>12, <2>3, DispatchSends DEF PublishTimer, DispatchedTask, InFlight
    <3> QED
      BY <1>1, <1>12, <3>4, <3>5 DEF PublishTimer, runtimeVars, flagVars, Quiet, InFlight
  <2> QED BY <2>1, <2>2, <2>3
<1>13. CASE CooldownEnds \/ ServerDiscovered \/ OnCancelled
  BY <1>1, <1>13
     DEF CooldownEnds, ServerDiscovered, OnCancelled, runtimeVars, clientVars, flagVars, linkVars,
         Quiet, InFlight
<1>14. CASE OnGoalResponse
  <2>1. /\ UNCHANGED << mission, missionState, active, taskState, latched, client, result, feedback,
                       replacement, goalReqs >>
        /\ InFlight' => InFlight
    BY <1>14 DEF OnGoalResponse, runtimeVars, flagVars, InFlight
  <2>2. CASE ~Quiet
    BY <1>3, <2>1, <2>2 DEF Quiet
  <2>3. CASE Quiet
    <3>1. UNCHANGED cancels
      BY <1>14, <2>3 DEF OnGoalResponse, Quiet
    <3> QED BY <1>1, <2>1, <2>3, <3>1
  <2> QED BY <2>2, <2>3
<1>15. CASE OnNavVelocity \/ VelocityTick \/ Elapse
  BY <1>1, <1>15
     DEF OnNavVelocity, VelocityTick, Elapse, velocityFrame, runtimeVars, clientVars, flagVars, Quiet,
         InFlight
<1>16. CASE OnResult
  <2>0. feedback = {}
    BY <1>16 DEF Undisturbed, InOrder
  <2>1. ResultHandled /\ UNCHANGED << phase, goal >>
    BY <1>0, <1>16 DEF OnResult, ResultReplaced, ResultLatched, ResultApplied
  <2>2. ~Working' /\ result' = NoResult /\ client' = client /\ client \notin cancels'
    BY <2>0, <2>1, ResultEmpties
  <2>3. ~sendFuture /\ ~handle' /\ latched' = latched
    BY <2>1 DEF ResultHandled, OwnInv
  <2>4. UNCHANGED sendFuture \/ \E known : Dispatch(known, FALSE)
    BY <1>16 DEF OnResult, ResultReplaced, ResultLatched, ResultApplied, NoDispatch
  <2>5. latched' => ~InFlight'
    BY <2>3, <2>4, SendsUnlatched DEF InFlight
  <2>6. \A t \in Tasks, m \in Missions : SentTask(t, m)' => m = mission'
    BY <1>16, <2>0, ResultSends DEF NothingSent, SendsAnew
  <2>7. Rested'
    BY <2>2, <2>5, <2>6 DEF Rested
  <2> QED BY <2>7, RestedGoal, PTL
<1>17. ASSUME NEW f \in feedback, OnFeedback(f) PROVE GoalInv'
  <2>1. /\ UNCHANGED << mission, missionState, replacement, latched, sendFuture, handle, client, result,
                       cancels, goalReqs >>
        /\ feedback' = feedback \ {f}
    BY <1>17 DEF OnFeedback, flagVars
  <2>2. (Quiet' <=> Quiet) /\ (InFlight' <=> InFlight) /\ (Working' <=> Working)
    BY <1>0, <2>1 DEF Quiet, InFlight, Working
  <2>3. f.task \in Tasks /\ f.mission \in Missions /\ SentTask(f.task, f.mission)
    BY DEF TypeOK, LinkTypeOK, Feedbacks, SentTask, Names
  <2>4. Carries
    BY <1>0, <2>1, <2>2 DEF Carries, SentTask
  <2>5. \A t \in Tasks, m \in Missions : SentTask(t, m)' => t = f.task /\ m = f.mission
    BY <2>3, <2>4 DEF Carries, OneSent
  <2>6. mission \in Missions
    BY ContentFields DEF TypeOK
  <2> SUFFICES ASSUME Quiet PROVE (Ours' => Unhindered' /\ Shown') /\ StaleIdle'
    BY <2>1, <2>2 DEF GoalInv
  <2>7. CASE f.mission = mission
    <3>1. Unhindered /\ StaleIdle'
      BY <2>1, <2>3, <2>5, <2>7 DEF GoalInv, Ours, StaleIdle
    <3>2. active' = f.task
      <4>1. CASE TaskBecomesActive(f)
        BY <1>17, <4>1 DEF OnFeedback
      <4>2. CASE ~TaskBecomesActive(f)
        <5>1. Known(f)
          BY <2>3, <2>7 DEF SentOpen, Known
        <5>2. active = f.task
          BY <4>2, <5>1 DEF TaskBecomesActive, Quiet
        <5> QED BY <1>17, <4>2, <5>2 DEF OnFeedback
      <4> QED BY <4>1, <4>2
    <3>3. \A t \in Tasks, m \in Missions : Begun(t, m)' => t = f.task
      <4>1. \A t \in Tasks, m \in Missions : Begun(t, m)' => SentTask(t, m)
        BY <1>0, <2>1, <2>2 DEF Begun, SentTask
      <4> QED BY <2>3, <4>1 DEF OneSent
    <3> QED BY <1>0, <2>1, <2>2, <3>1, <3>2, <3>3 DEF Unhindered, Shown
  <2>8. CASE f.mission # mission
    <3>1. active = NoTask /\ (IsEmergency(f.task) => taskState[f.task] = "ABSENT")
      BY <2>3, <2>8 DEF GoalInv, StaleIdle
    <3>2. ~TaskBecomesActive(f)
      BY <2>8, <3>1 DEF TaskBecomesActive, Known
    <3>3. UNCHANGED << taskState, active >>
      BY <1>17, <3>2 DEF OnFeedback
    <3>4. StaleIdle'
      BY <2>5, <3>1, <3>3 DEF StaleIdle
    <3>5. ~Ours'
      BY <2>1, <2>5, <2>6, <2>8 DEF Ours
    <3> QED BY <3>4, <3>5
  <2> QED BY <2>7, <2>8
<1>18. CASE Crash \/ RevisionConflict \/ CrashInStart
  <2>1. /\ client' = client + 1 /\ result' = NoResult /\ feedback' = {} /\ ~InFlight'
        /\ UNCHANGED << cancels, goalReqs >>
    BY <1>18 DEF Crash, RevisionConflict, CrashInStart, Dies, ClientDies, InFlight
  <2>2. ~Working' /\ client' \notin cancels' /\ \A g \in goalReqs' : g.client # client'
    BY <1>0, <2>1, ClientNumbers DEF OwnInv, Earlier, Working
  <2>3. Rested'
    BY <2>1, <2>2 DEF Rested, SentTask
  <2> QED BY <2>3, RestedGoal, PTL
<1>19. CASE RestartSame \/ RestartOther
  <2>1. ~alive /\ UNCHANGED << sendFuture, handle, client, result, cancels >>
    BY <1>19 DEF RestartSame, RestartOther, Restart, clientVars
  <2> QED BY <1>2, <2>1 DEF OwnInv
<1> QED
  BY <1>10, <1>11, <1>12, <1>13, <1>14, <1>15, <1>16, <1>17, <1>18, <1>19 DEF ManagerNext

LEMMA GoalStep ==
  ASSUME Undisturbed, TypeOK, OwnInv, OwnInv', LatchInv, RunInv, FeedbackOfGoal,
         OneSent, SentOpen, GoalInv, [Next]_vars
  PROVE  GoalInv'
<1>1. CASE UNCHANGED vars
  <2>1. Carries
    BY <1>1 DEF vars, linkVars, execVars, Carries, SentTask, Working
  <2>2. mission \in Missions
    BY ContentFields DEF TypeOK
  <2> QED
    BY <1>1, <2>1, <2>2, GoalFrame
       DEF vars, managerVars, runtimeVars, clientVars, flagVars, linkVars, execVars, Quiet, InFlight
<1>2. Carries \/ SendsAnew
  BY SentOrigin DEF Undisturbed
<1>3. CASE ExecNext /\ UNCHANGED managerVars
  <2>1. Carries
    BY <1>3, SentExecutor
  <2> QED BY <1>3, <2>1, GoalExecutor
<1>4. CASE ManagerNext /\ UNCHANGED execVars
  BY <1>2, <1>4, GoalManager
<1> QED BY <1>1, <1>3, <1>4 DEF Next

SentInv == FeedbackOfGoal /\ OneSent /\ SentOpen /\ GoalInv

(* A step that disturbs nothing keeps it. *)
LEMMA SentStep ==
  ASSUME Undisturbed, TypeOK, OwnInv, OwnInv', LatchInv, RunInv, SentInv, [Next]_vars
  PROVE  SentInv'
  BY SentOrigin, OpenStep, GoalStep DEF SentInv, Undisturbed

(* With nothing in flight it holds whatever went before.                   *)
AllRests == NothingSent /\ Rested /\ feedback = {}

LEMMA SentNothing == ASSUME AllRests PROVE SentInv
  BY RestedGoal DEF AllRests, SentInv, FeedbackOfGoal, OneSent, SentOpen, NothingSent

(* A process that ends takes all of it along.                              *)
LEMMA SentDies ==
  ASSUME TypeOK, OwnInv, alive, ~alive', [Next]_vars
  PROVE  SentInv'
<1>1. (Crash \/ CrashInStart \/ RevisionConflict) /\ UNCHANGED execVars
  <2>1. ~UNCHANGED alive
    BY DEF TypeOK
  <2>2. ManagerNext /\ UNCHANGED execVars
    BY <2>1 DEF Next, vars, managerVars, processVars
  <2>3. OperatorCommand => UNCHANGED alive
    BY DEF OperatorCommand, ManageStart, ManagePause, ManageStop, Halting, ManageResume, SetRobotMode,
           ResetStop, BarrierRefuses, BarrierPasses, EmergencyStop, OnManualVelocity, velocityFrame,
           processVars
  <2>4. RiskUpdate \/ CooldownEnds \/ PublishTimer \/ ServerDiscovered => UNCHANGED alive
    BY DEF RiskUpdate, EmergencyRisk, NormalRisk, RiskApplied, CooldownEnds, PublishTimer,
           ServerDiscovered, processVars
  <2>5. OnGoalResponse \/ OnCancelled \/ OnResult \/ (\E f \in feedback : OnFeedback(f)) => UNCHANGED alive
    BY DEF OnGoalResponse, OnCancelled, OnResult, ResultReplaced, ResultLatched, ResultApplied,
           ResultHandled, OnFeedback, processVars
  <2>6. OnNavVelocity \/ VelocityTick \/ Elapse => UNCHANGED alive
    BY DEF OnNavVelocity, VelocityTick, Elapse, velocityFrame, processVars
  <2>7. RestartSame \/ RestartOther => ~alive
    BY DEF RestartSame, RestartOther, Restart
  <2> QED BY <2>1, <2>2, <2>3, <2>4, <2>5, <2>6, <2>7 DEF ManagerNext
<1>2. ClientDies /\ sendFuture' = FALSE /\ handle' = FALSE
  BY <1>1 DEF Crash, CrashInStart, RevisionConflict, Dies
<1>3. /\ client' = client + 1 /\ feedback' = {} /\ result' = NoResult /\ ~InFlight'
      /\ UNCHANGED << goalReqs, cancels, phase, goal >>
  BY <1>1, <1>2 DEF ClientDies, InFlight, execVars
<1>4. ~Working' /\ client' \notin cancels' /\ \A g \in goalReqs' : g.client # client'
  BY <1>3, ClientNumbers DEF OwnInv, Earlier, Working
<1>5. AllRests'
  BY <1>3, <1>4 DEF AllRests, NothingSent, SentTask, Rested
<1> QED BY <1>5, SentNothing, PTL

(* A mission that is started while nothing is in flight begins afresh.     *)
LEMMA SentAfresh ==
  ASSUME TypeOK, OwnInv, ~InFlight, feedback = {}, alive, alive', mission' # mission, [Next]_vars
  PROVE  SentInv'
<1>1. ManageStart /\ UNCHANGED execVars
  <2>1. taskState \in [Tasks -> TaskStates] /\ mission \in Nat
    BY LinkAssumption, ContentFields DEF TypeOK, Missions
  <2>2. OnResult \/ RestartSame \/ (\E f \in feedback : OnFeedback(f)) => mission' = mission
    BY DEF OnResult, ResultReplaced, ResultLatched, ResultApplied, ResultHandled, OnFeedback,
           RestartSame, Restart
  <2>3. ~Finishes \/ ~OnResult
    BY <2>2
  <2>4. ManageStart
    BY <2>2, <2>3, TaskEffects DEF Activates, CrashInStart, RestartOther, Restart
  <2>5. ~(ExecNext /\ UNCHANGED managerVars) /\ ~UNCHANGED vars
    BY DEF vars, managerVars, runtimeVars
  <2> QED BY <2>4, <2>5 DEF Next
<1>2. /\ UNCHANGED << client, result, feedback, handle, phase, goal >> /\ ~latched'
      /\ \E known : Dispatch(known, handle)
      /\ client \in cancels' => client \in cancels \/ handle
  BY <1>1, CancelGoalAsks DEF ManageStart, Start, execVars
<1>3. Rested /\ NothingSent /\ ~sendFuture /\ ~handle
  <2>1. FeedbackOfGoal
    BY DEF FeedbackOfGoal
  <2> QED BY <2>1, RestingNow DEF InFlight
<1>4. ~Asking /\ ~Working' /\ feedback' = {} /\ result' = NoResult /\ client \notin cancels'
  BY <1>2, <1>3, NothingOwn DEF Rested, Working
<1>5. CASE UNCHANGED << goalReqs, sendFuture >>
  <2>1. AllRests'
    BY <1>2, <1>3, <1>4, <1>5 DEF AllRests, NothingSent, SentTask, Rested, Working, InFlight
  <2> QED BY <2>1, SentNothing, PTL
<1>6. CASE SendsAnew
  <2>1. Rested'
    BY <1>2, <1>4, <1>6 DEF SendsAnew, Rested, Working
  <2>2. mission' \in Nat
    BY <1>1, LinkAssumption, ContentFields DEF TypeOK, Missions, ManageStart, Start, FreshQueue
  <2>3. FeedbackOfGoal' /\ OneSent' /\ SentOpen'
    BY <1>4, <1>6, <2>2 DEF SendsAnew, FeedbackOfGoal, OneSent, SentOpen
  <2>4. GoalInv'
    BY <2>1, RestedGoal, PTL
  <2> QED BY <2>3, <2>4 DEF SentInv
<1> QED BY <1>2, <1>4, <1>5, <1>6, DispatchSends, DispatchSendsAnew

(* While nothing has disturbed it, and a process that is down starts over. *)
HistoryInv ==
  /\ disturbed \in BOOLEAN
  /\ ~alive => ~disturbed
  /\ ~disturbed => SentInv

LEMMA HistoryStep ==
  ASSUME TypeOK, OwnInv, OwnInv', LatchInv, RunInv, HistoryInv, [HistoryNext]_historyVars
  PROVE  HistoryInv'
<1>1. CASE UNCHANGED historyVars
  <2>1. UNCHANGED vars /\ UNCHANGED disturbed
    BY <1>1 DEF historyVars
  <2>2. UNCHANGED << alive, feedback, handle, missionState >>
    BY <2>1 DEF vars, managerVars, processVars, linkVars, clientVars, runtimeVars
  <2>3. ASSUME ~disturbed PROVE SentInv'
    <3>1. Undisturbed
      BY <2>2 DEF Undisturbed, InOrder, OnResult, ResultReplaced, ResultLatched, ResultApplied,
                  ResultHandled, ManageResume
    <3> QED BY <2>1, <2>3, <3>1, SentStep DEF HistoryInv
  <2> QED BY <2>1, <2>2, <2>3 DEF HistoryInv
<1>2. CASE HistoryNext
  <2>1. Next /\ disturbed' = (~Settled /\ (disturbed \/ ResumedEarly \/ ResultOvertakes))
    BY <1>2 DEF HistoryNext, Remembers
  <2>2. disturbed' \in BOOLEAN /\ (~alive' => ~disturbed')
    BY <2>1 DEF Settled
  <2>3. ASSUME ~disturbed' PROVE SentInv'
    <3>1. CASE alive /\ ~alive'
      BY <2>1, <3>1, SentDies
    <3>2. CASE alive /\ alive' /\ Settled
      BY <2>1, <3>2, SentAfresh DEF Settled
    <3>3. CASE ~alive
      <4>1. Undisturbed
        BY <3>3 DEF Undisturbed, InOrder, OnResult, ResultReplaced, ResultLatched, ResultApplied,
                    ResultHandled, ManageResume
      <4> QED BY <2>1, <3>3, <4>1, SentStep DEF HistoryInv
    <3>4. CASE alive /\ alive' /\ ~Settled
      <4>1. ~disturbed /\ ~ResumedEarly /\ ~ResultOvertakes
        BY <2>1, <2>3, <3>4
      <4>2. OnResult => handle /\ ~handle'
        BY DEF OnResult, ResultReplaced, ResultLatched, ResultApplied, ResultHandled
      <4>3. ManageResume => missionState = "PAUSED" /\ missionState' = "RUNNING"
        BY DEF ManageResume
      <4>4. Undisturbed
        BY <3>4, <4>1, <4>2, <4>3 DEF Undisturbed, InOrder, ResumedEarly, ResultOvertakes
      <4> QED BY <2>1, <4>1, <4>4, SentStep DEF HistoryInv
    <3> QED BY <3>1, <3>2, <3>3, <3>4
  <2> QED BY <2>2, <2>3 DEF HistoryInv
<1> QED BY <1>1, <1>2

(* The history variable restrains nothing: what is proved of Spec holds.   *)
LEMMA HistoryIsSpec == HistorySpec => Spec
<1>1. HistoryInit => Init
  BY DEF HistoryInit
<1>2. [HistoryNext]_historyVars => [Next]_vars
  BY DEF HistoryNext, historyVars
<1> QED BY <1>1, <1>2, PTL DEF HistorySpec, Spec

LEMMA HistoryAlways == HistorySpec => []HistoryInv
<1>1. HistoryInit => HistoryInv
  <2> SUFFICES ASSUME HistoryInit PROVE HistoryInv
    OBVIOUS
  <2>1. /\ goalReqs = {} /\ feedback = {} /\ result = NoResult /\ cancels = {} /\ phase = "idle"
        /\ latched = FALSE /\ alive = TRUE /\ disturbed = FALSE
    BY DEF HistoryInit, Init, LinkInit, ManagerInit, ExecInit
  <2>2. AllRests
    BY <2>1 DEF AllRests, NothingSent, SentTask, Rested, Working
  <2> QED BY <2>1, <2>2, SentNothing DEF HistoryInv
<1>2. TypeOK /\ OwnInv /\ OwnInv' /\ LatchInv /\ RunInv /\ HistoryInv /\ [HistoryNext]_historyVars
        => HistoryInv'
  BY HistoryStep
<1> QED BY <1>1, <1>2, HistoryIsSpec, TypeCorrect, OwnAlways, RunAlways, PTL DEF HistorySpec

(* Only a result finishes a task.                                          *)
LEMMA OnlyResultFinishes ==
  ASSUME TypeOK, StoreKeeps, [Next]_vars,
         NEW t \in Tasks, taskState[t] \notin Terminal, taskState'[t] \in Terminal
  PROVE  OnResult /\ Finishes
<1>1. "QUEUED" \notin Terminal /\ "ACTIVE" \notin Terminal /\ "ABSENT" \notin Terminal
  BY DEF Terminal
<1>2. CASE BeginsAnew
  BY <1>1, <1>2 DEF BeginsAnew, InitialState
<1>3. CASE RestartSame
  BY <1>1, <1>3 DEF RestartSame, StoreKeeps, Demoted
<1>4. ASSUME NEW f \in feedback, Activates(f) PROVE FALSE
  BY <1>1, <1>4 DEF Activates, Demoted
<1>5. CASE Requeued(t)
  BY <1>1, <1>5 DEF Requeued
<1> QED BY <1>2, <1>3, <1>4, <1>5, TaskEffects

(* A task that is finished does not fail afterwards.                       *)
LEMMA NoneFailsTwice ==
  ASSUME TypeOK, ActiveConsistent, StoreKeeps, [Next]_vars,
         NEW t \in Tasks, taskState[t] # "FAILED", taskState'[t] = "FAILED"
  PROVE  taskState[t] \notin Terminal
<1> SUFFICES ASSUME taskState[t] \in Terminal PROVE FALSE
  OBVIOUS
<1>1. CASE Finishes
  <2>1. taskState' = [taskState EXCEPT ![active] = TerminalState(result.outcome)]
    BY <1>1 DEF Finishes, FinishExecution, Finish
  <2>2. t = active
    BY <2>1, ContentFields DEF TypeOK
  <2> QED BY <2>2 DEF ActiveConsistent, Terminal
<1>2. CASE BeginsAnew
  BY <1>2 DEF BeginsAnew, InitialState
<1>3. CASE RestartSame
  BY <1>3 DEF RestartSame, StoreKeeps, Demoted, Terminal
<1>4. ASSUME NEW f \in feedback, Activates(f) PROVE FALSE
  BY <1>4 DEF Activates, Demoted
<1>5. CASE Requeued(t)
  BY <1>5 DEF Requeued
<1> QED BY <1>1, <1>2, <1>3, <1>4, <1>5, TaskEffects

(* A result finishes the task that its goal named.                         *)
LEMMA FinishesItsTask ==
  ASSUME InOrder, TypeOK, StoreKeeps, SentInv, [Next]_vars,
         NEW t \in Tasks, taskState[t] \notin Terminal, taskState'[t] \in Terminal
  PROVE  /\ result # NoResult /\ result.task = t /\ result.mission = mission
         /\ taskState'[t] = TerminalState(result.outcome)
         /\ result.outcome \in Outcomes \ {"CANCELLED", "STOPPED"}
<1>1. taskState \in [Tasks -> TaskStates]
  BY ContentFields DEF TypeOK
<1>2. CASE Finishes /\ OnResult
  <2>1. taskState' = [taskState EXCEPT ![active] = TerminalState(result.outcome)]
    BY <1>2 DEF Finishes, FinishExecution, Finish
  <2>2. t = active /\ taskState'[t] = TerminalState(result.outcome)
    BY <1>1, <2>1
  <2>3. result # NoResult /\ feedback = {} /\ Quiet /\ active # NoTask
    BY <1>2 DEF InOrder, Finishes, CanFinish, Quiet
  <2>4. result.task \in Tasks /\ result.mission \in Missions /\ result.outcome \in Outcomes
    BY <2>3 DEF TypeOK, LinkTypeOK, Results
  <2>5. Begun(result.task, result.mission) /\ SentTask(result.task, result.mission)
    BY <2>3 DEF Begun, SentTask, Names
  <2>6. result.mission = mission
    BY <2>3, <2>4, <2>5 DEF SentInv, GoalInv, StaleIdle
  <2>7. active = result.task /\ result.outcome \notin {"CANCELLED", "STOPPED"}
    BY <2>3, <2>4, <2>5, <2>6 DEF SentInv, GoalInv, Ours, Shown, Unhindered
  <2> QED BY <2>2, <2>3, <2>4, <2>6, <2>7
<1> QED BY <1>2, OnlyResultFinishes

(* A result that is handled before its feedback disturbs the mission.      *)
LEMMA FinishedInOrder ==
  ASSUME HistoryInv, HistoryNext, ~disturbed', OnResult
  PROVE  InOrder /\ SentInv
<1>1. disturbed' = (~Settled /\ (disturbed \/ ResumedEarly \/ ResultOvertakes))
  BY DEF HistoryNext, Remembers
<1>2. alive /\ alive' /\ handle /\ ~handle' /\ mission' = mission
  <2>1. ResultHandled
    BY DEF OnResult, ResultReplaced, ResultLatched, ResultApplied
  <2> QED BY <2>1 DEF ResultHandled
<1>3. ~Settled
  BY <1>2 DEF Settled
<1>4. ~disturbed /\ ~ResultOvertakes
  BY <1>1, <1>3
<1> QED BY <1>2, <1>4 DEF InOrder, ResultOvertakes, HistoryInv

(* A result finishes the task that the executor worked on, in the mission  *)
(* it worked for: the goal of a mission that goes on is never mistaken for *)
(* the next one, through crashes, emergencies, stops and mode changes.     *)
(* The one way to another attribution is a mission that was disturbed.     *)
THEOREM ResultOfActiveAlways == HistorySpec => ResultOfActive
<1> DEFINE Kept == \A t \in Tasks : taskState[t] \notin Terminal /\ taskState'[t] \in Terminal
                      => disturbed' \/ (result.task = t /\ result.mission = mission)
<1>1. ASSUME TypeOK, StoreKeeps, HistoryInv, [HistoryNext]_historyVars
      PROVE  Kept
  <2> SUFFICES ASSUME NEW t \in Tasks, taskState[t] \notin Terminal, taskState'[t] \in Terminal,
                      ~disturbed'
               PROVE  result.task = t /\ result.mission = mission
    OBVIOUS
  <2>1. HistoryNext /\ [Next]_vars
    BY <1>1 DEF HistoryNext, historyVars, vars, managerVars, runtimeVars
  <2>2. OnResult
    BY <1>1, <2>1, OnlyResultFinishes
  <2> QED BY <1>1, <2>1, <2>2, FinishedInOrder, FinishesItsTask
<1> QED
  BY <1>1, HistoryIsSpec, TypeCorrect, StoreAlways, HistoryAlways, PTL DEF HistorySpec, ResultOfActive

(* A task only fails because its goal failed: a cancelled or stopped goal  *)
(* has its task queued again, whoever cancelled it, unless the mission was *)
(* disturbed.                                                              *)
THEOREM CancelIsNoFailureAlways == HistorySpec => CancelIsNoFailure
<1> DEFINE Kept == \A t \in Tasks : taskState[t] # "FAILED" /\ taskState'[t] = "FAILED"
                      => disturbed' \/ result.outcome = "FAILED"
<1>1. ASSUME TypeOK, ActiveConsistent, StoreKeeps, HistoryInv, [HistoryNext]_historyVars
      PROVE  Kept
  <2> SUFFICES ASSUME NEW t \in Tasks, taskState[t] # "FAILED", taskState'[t] = "FAILED", ~disturbed'
               PROVE  result.outcome = "FAILED"
    OBVIOUS
  <2>1. HistoryNext /\ [Next]_vars
    BY <1>1 DEF HistoryNext, historyVars, vars, managerVars, runtimeVars
  <2>2. taskState'[t] \in Terminal
    BY DEF Terminal
  <2>3. taskState[t] \notin Terminal
    BY <1>1, <2>1, NoneFailsTwice
  <2>4. OnResult
    BY <1>1, <2>1, <2>2, <2>3, OnlyResultFinishes
  <2>5. /\ TerminalState(result.outcome) = "FAILED"
        /\ result.outcome \in Outcomes \ {"CANCELLED", "STOPPED"}
    BY <1>1, <2>1, <2>2, <2>3, <2>4, FinishedInOrder, FinishesItsTask
  <2> QED BY <2>5 DEF TerminalState, Outcomes
<1> QED
  BY <1>1, HistoryIsSpec, TypeCorrect, ActiveConsistentAlways, StoreAlways, HistoryAlways, PTL
     DEF HistorySpec, CancelIsNoFailure

(***************************************************************************)
(* Emergencies first.  Every task of the mission is once in the queue,     *)
(* emergency tasks have the higher priorities, and they stand in front,    *)
(* whatever their state: a replan sorts the queued tasks within the slots  *)
(* they hold, and an active one, which keeps its slot, may be queued again *)
(* there.  That priorities tell the kinds apart is owed to the scores:     *)
(* weighted means of components from 0 to 1, times 100 (risk_engine.py).   *)
(***************************************************************************)
ScoresInRange == RiskMessages \subseteq [Assets -> 0 .. 100]

Once(o) == \A i, j \in DOMAIN o : i # j => o[i] # o[j]

EmergenciesLead(o) == \A i, j \in DOMAIN o : i < j /\ IsEmergency(o[j]) => IsEmergency(o[i])

Ranked(o, p) == \A t \in ToSet(o) : p[t] \in Int /\ (IsEmergency(t) <=> p[t] >= EmergencyPriority)

SoundQueue(o, states, p) ==
  /\ Once(o) /\ EmergenciesLead(o) /\ Ranked(o, p)
  /\ \A t \in Tasks : t \in ToSet(o) <=> states[t] # "ABSENT"

QueueInv ==
  /\ SoundQueue(order, taskState, prio)
  /\ SoundQueue(saved.order, saved.taskState, saved.prio)

(* A sequence of all elements of a set, each once, has them all.           *)
LEMMA SetToSeqsIsOnto ==
  ASSUME NEW S, IsFiniteSet(S), NEW s \in SetToSeqs(S)
  PROVE  DOMAIN s = 1 .. Cardinality(S) /\ ToSet(s) = S /\ Once(s)
<1> DEFINE D == 1 .. Cardinality(S)
<1>1. s \in [D -> S] /\ \A i, j \in D : i # j => s[i] # s[j]
  BY DEF SetToSeqs
<1>2. s \in Injection(D, S)
  BY <1>1 DEF Injection, IsInjective
<1>3. Cardinality(S) \in Nat
  BY FS_CardinalityType
<1>4. IsFiniteSet(D) /\ Cardinality(D) = Cardinality(S)
  BY <1>3, FS_Interval
<1>5. s \in Surjection(D, S)
  BY <1>2, <1>4, FS_Injection
<1> QED BY <1>1, <1>5 DEF Surjection, ToSet, Once

(* Two sequences of the same tasks, each once, are equally long and have   *)
(* emergencies in equally many places.                                     *)
EmergencySlots(o) == {i \in DOMAIN o : IsEmergency(o[i])}

LEMMA SlotsCounted ==
  ASSUME NEW o \in Seq(Tasks), Once(o)
  PROVE  /\ IsFiniteSet(EmergencySlots(o)) /\ Len(o) = Cardinality(ToSet(o))
         /\ Cardinality(EmergencySlots(o)) = Cardinality({t \in ToSet(o) : IsEmergency(t)})
<1> DEFINE T == {t \in ToSet(o) : IsEmergency(t)}
           E == EmergencySlots(o)
           f == [i \in E |-> o[i]]
<1>1. DOMAIN o = 1 .. Len(o) /\ Len(o) \in Nat
  OBVIOUS
<1>2. IsFiniteSet(1 .. Len(o)) /\ Cardinality(1 .. Len(o)) = Len(o)
  BY <1>1, FS_Interval
<1>3. E \subseteq 1 .. Len(o)
  BY <1>1 DEF EmergencySlots
<1>4. IsFiniteSet(E)
  BY <1>2, <1>3, FS_Subset
<1>5. f \in Bijection(E, T)
  <2>1. f \in [E -> T]
    BY DEF EmergencySlots, ToSet
  <2>2. \A i, j \in E : f[i] = f[j] => i = j
    BY DEF EmergencySlots, Once
  <2>3. \A t \in T : \E i \in E : f[i] = t
    BY DEF EmergencySlots, ToSet
  <2> HIDE DEF f, E, T
  <2> QED BY <2>1, <2>2, <2>3 DEF Bijection, Injection, IsInjective, Surjection
<1>6. Cardinality(E) = Cardinality(T)
  <2>1. ExistsBijection(E, T)
    BY <1>5 DEF ExistsBijection
  <2> QED BY <1>4, <2>1, FS_Bijection
<1>7. o \in Bijection(1 .. Len(o), ToSet(o))
  <2>1. o \in [1 .. Len(o) -> ToSet(o)] /\ \A t \in ToSet(o) : \E i \in 1 .. Len(o) : o[i] = t
    BY <1>1 DEF ToSet
  <2> QED BY <1>1, <2>1 DEF Bijection, Injection, IsInjective, Surjection, Once
<1>8. Cardinality(1 .. Len(o)) = Cardinality(ToSet(o))
  <2>1. ExistsBijection(1 .. Len(o), ToSet(o))
    BY <1>7 DEF ExistsBijection
  <2> QED BY <1>2, <2>1, FS_Bijection
<1> QED BY <1>2, <1>4, <1>6, <1>8

(* Where one of them has an emergency and the other has none, somewhere    *)
(* else it is the other way round.                                         *)
LEMMA SlotsExchanged ==
  ASSUME NEW o \in Seq(Tasks), NEW q \in Seq(Tasks), Once(o), Once(q), ToSet(o) = ToSet(q),
         NEW i \in EmergencySlots(o), i \notin EmergencySlots(q)
  PROVE  \E k \in EmergencySlots(q) : k \notin EmergencySlots(o)
<1>1. /\ IsFiniteSet(EmergencySlots(o))
      /\ Cardinality(EmergencySlots(o)) = Cardinality(EmergencySlots(q))
  BY SlotsCounted
<1>2. EmergencySlots(q) \subseteq EmergencySlots(o) => EmergencySlots(q) = EmergencySlots(o)
  BY <1>1, FS_Subset
<1> QED BY <1>2

(* The normal replan keeps the emergencies in front.                       *)
LEMMA ReplanLeads ==
  ASSUME NEW before \in Seq(Tasks), NEW after \in Seq(Tasks), NEW states, NEW p,
         Once(before), Once(after), ToSet(before) = ToSet(after),
         EmergenciesLead(before), Ranked(before, p), IsReplan(before, after, states, p)
  PROVE  EmergenciesLead(after)
<1>1. DOMAIN before = DOMAIN after /\ \A i \in DOMAIN before : i \in Nat
  <2>1. Len(before) = Len(after)
    BY SlotsCounted
  <2> QED BY <2>1
<1>2. \A i, j \in DOMAIN after : Precedes(after[i], after[j], p) /\ IsEmergency(after[j])
                                  => IsEmergency(after[i])
  <2> SUFFICES ASSUME NEW i \in DOMAIN after, NEW j \in DOMAIN after,
                      Precedes(after[i], after[j], p), IsEmergency(after[j])
               PROVE  IsEmergency(after[i])
    OBVIOUS
  <2>1. after[i] \in ToSet(before) /\ after[j] \in ToSet(before)
    BY DEF ToSet
  <2>2. p[after[i]] \in Int /\ p[after[j]] \in Int /\ p[after[i]] >= p[after[j]]
    BY <2>1 DEF Ranked, Precedes
  <2> QED BY <2>1, <2>2 DEF Ranked, EmergencyPriority
<1>3. SUFFICES ASSUME NEW i \in DOMAIN after, NEW j \in DOMAIN after, i < j,
                      IsEmergency(after[j]), ~IsEmergency(after[i])
               PROVE  FALSE
  BY DEF EmergenciesLead
(* A slot that changes its kind held a queued task, and the queued tasks   *)
(* are sorted.                                                             *)
<1>4. ASSUME NEW k \in DOMAIN after, NEW l \in DOMAIN after, k < l,
             ~IsEmergency(after[k]), IsEmergency(after[l]),
             states[before[k]] = "QUEUED", states[before[l]] = "QUEUED"
      PROVE  FALSE
  BY <1>1, <1>2, <1>4 DEF IsReplan
<1>5. ASSUME NEW k \in DOMAIN after, IsEmergency(after[k]) # IsEmergency(before[k])
      PROVE  states[before[k]] = "QUEUED"
  BY <1>1, <1>5 DEF IsReplan
<1>6. CASE IsEmergency(before[i])
  <2>1. PICK k \in DOMAIN after : IsEmergency(after[k]) /\ ~IsEmergency(before[k])
    <3>1. i \in EmergencySlots(before) /\ i \notin EmergencySlots(after)
      BY <1>1, <1>3, <1>6 DEF EmergencySlots
    <3>2. PICK k \in EmergencySlots(after) : k \notin EmergencySlots(before)
      BY <3>1, SlotsExchanged
    <3> QED BY <1>1, <3>2 DEF EmergencySlots
  <2>2. i < k
    BY <1>1, <1>6, <1>3, <2>1 DEF EmergenciesLead
  <2>3. states[before[i]] = "QUEUED" /\ states[before[k]] = "QUEUED"
    BY <1>3, <1>5, <1>6, <2>1
  <2> QED BY <1>3, <1>4, <2>1, <2>2, <2>3
<1>7. CASE ~IsEmergency(before[i])
  <2>1. ~IsEmergency(before[j])
    BY <1>1, <1>3, <1>7 DEF EmergenciesLead
  <2>2. PICK k \in DOMAIN after : IsEmergency(before[k]) /\ ~IsEmergency(after[k])
    <3>1. j \in EmergencySlots(after) /\ j \notin EmergencySlots(before)
      BY <1>1, <1>3, <2>1 DEF EmergencySlots
    <3>2. PICK k \in EmergencySlots(before) : k \notin EmergencySlots(after)
      BY <3>1, SlotsExchanged
    <3> QED BY <1>1, <3>2 DEF EmergencySlots
  <2>3. k < j
    BY <1>1, <1>3, <2>1, <2>2 DEF EmergenciesLead
  <2>4. states[before[j]] = "QUEUED" /\ states[before[k]] = "QUEUED"
    BY <1>3, <1>5, <2>1, <2>2
  <2> QED BY <1>3, <1>4, <2>2, <2>3, <2>4
<1> QED BY <1>6, <1>7

(* A task changes its state, and neither appears nor disappears.           *)
LEMMA SoundQueueFrame ==
  ASSUME NEW o, NEW p, NEW states, NEW next, SoundQueue(o, states, p),
         \A t \in Tasks : next[t] = "ABSENT" <=> states[t] = "ABSENT"
  PROVE  SoundQueue(o, next, p)
  BY DEF SoundQueue

LEMMA PresenceKept ==
  ASSUME NEW states \in [Tasks -> TaskStates]
  PROVE  /\ \A t \in Tasks : Demoted(states)[t] = "ABSENT" <=> states[t] = "ABSENT"
         /\ \A e \in Tasks : \A t \in Tasks :
              EmergencyQueued(e, states)[t] = "ABSENT" <=> states[t] = "ABSENT" /\ t # e
  BY DEF Demoted, EmergencyQueued

(* The queue a mission begins with.                                        *)
LEMMA InitialQueueSound == SoundQueue(InitialOrder, InitialState, [t \in Tasks |-> 0])
<1>1. DOMAIN Registry = 1 .. Cardinality(Assets) /\ ToSet(Registry) = Assets /\ Once(Registry)
  BY QueueAssumption, SetToSeqsIsOnto
<1>2. DOMAIN InitialOrder = DOMAIN Registry /\ \A i \in DOMAIN Registry : InitialOrder[i] = << Registry[i], "route" >>
  BY DEF InitialOrder, RouteTask
<1>3. \A t \in Tasks : t \in ToSet(InitialOrder) <=> ~IsEmergency(t)
  <2>1. \A i \in DOMAIN Registry : Registry[i] \in Assets
    BY <1>1 DEF ToSet
  <2>2. ASSUME NEW t \in Tasks, ~IsEmergency(t) PROVE t \in ToSet(InitialOrder)
    <3>1. t = << t[1], "route" >> /\ t[1] \in Assets
      BY <2>2 DEF Tasks, IsEmergency
    <3>2. PICK i \in DOMAIN Registry : Registry[i] = t[1]
      BY <1>1, <3>1 DEF ToSet
    <3> QED BY <1>2, <3>1, <3>2 DEF ToSet
  <2>3. ASSUME NEW t \in ToSet(InitialOrder) PROVE ~IsEmergency(t)
    BY <1>2 DEF ToSet, IsEmergency
  <2> QED BY <2>2, <2>3
<1>4. \A t \in ToSet(InitialOrder) : t \in Tasks
  BY QueueTypes DEF ToSet
<1>5. Once(InitialOrder) /\ EmergenciesLead(InitialOrder)
  BY <1>1, <1>2 DEF Once, EmergenciesLead, IsEmergency
<1>6. Ranked(InitialOrder, [t \in Tasks |-> 0])
  BY <1>3, <1>4 DEF Ranked, EmergencyPriority
<1> QED BY <1>3, <1>5, <1>6 DEF SoundQueue, InitialState

(* A score ranks an emergency task above every route task.                 *)
LEMMA ScoresRank ==
  ASSUME NEW t \in Tasks, NEW score \in 0 .. 100
  PROVE  /\ ComputedPriority(t, score) \in Int
         /\ IsEmergency(t) <=> ComputedPriority(t, score) >= EmergencyPriority
<1>1. Detour[AssetOf(t)] \in Nat
  BY QueueAssumption DEF AssetOf, Tasks
<1> QED BY <1>1 DEF ComputedPriority, EmergencyPriority, RoutePriority

(* A normal sample.                                                        *)
LEMMA NormalKeepsQueue ==
  ASSUME TypeOK, SoundQueue(order, taskState, prio), NEW scores \in [Assets -> 0 .. 100],
         NormalRisk(scores)
  PROVE  SoundQueue(order, taskState, prio)'
<1>1. order \in Seq(Tasks) /\ taskState \in [Tasks -> TaskStates] /\ prio \in [Tasks -> Int]
  BY ContentFields DEF TypeOK
<1>2. /\ order' \in Orders(ToSet(order)) /\ IsReplan(order, order', taskState, prio')
      /\ prio' = RiskPriorities(prio, taskState, scores) /\ taskState' = taskState
  BY DEF NormalRisk
<1>3. ToSet(order) \subseteq Tasks
  BY <1>1 DEF ToSet
<1>4. order' \in Seq(Tasks) /\ ToSet(order') = ToSet(order) /\ Once(order')
  <2>1. IsFiniteSet(ToSet(order))
    BY <1>3, TasksFinite, FS_Subset
  <2> QED BY <1>2, <2>1, SetToSeqsIsOnto DEF Orders
<1>5. ASSUME NEW t \in ToSet(order)
      PROVE  prio'[t] \in Int /\ (IsEmergency(t) <=> prio'[t] >= EmergencyPriority)
  <2>1. t \in Tasks /\ scores[AssetOf(t)] \in 0 .. 100
    BY <1>3 DEF Tasks, AssetOf
  <2>2. \/ prio'[t] = prio[t]
        \/ prio'[t] = ComputedPriority(t, scores[AssetOf(t)])
    BY <1>2, <2>1 DEF RiskPriorities
  <2> QED BY <2>1, <2>2, ScoresRank DEF SoundQueue, Ranked
<1>6. Ranked(order, prio')
  BY <1>5 DEF Ranked
<1>7. EmergenciesLead(order')
  BY <1>1, <1>2, <1>4, <1>6, ReplanLeads DEF SoundQueue
<1> QED BY <1>2, <1>4, <1>6, <1>7 DEF SoundQueue, Ranked

(* A sample that inserts an emergency task.                                *)
LEMMA EmergencyKeepsQueue ==
  ASSUME TypeOK, SoundQueue(order, taskState, prio), NEW scores \in [Assets -> 0 .. 100],
         EmergencyRisk(scores)
  PROVE  SoundQueue(order, taskState, prio)'
<1>1. order \in Seq(Tasks) /\ taskState \in [Tasks -> TaskStates] /\ prio \in [Tasks -> Int]
  BY ContentFields DEF TypeOK
<1>2. PICK a \in EmergencyAssets(scores) :
        LET t == EmergencyTask(a)
        IN  /\ prio' = [prio EXCEPT ![t] = ComputedPriority(t, scores[a])]
            /\ order' \in Orders(ToSet(order) \cup {t})
            /\ IsEmergencyOrder(order, order', t, prio')
            /\ \/ taskState' = Demoted(EmergencyQueued(t, taskState))
               \/ taskState' = EmergencyQueued(t, taskState)
  BY DEF EmergencyRisk
<1> DEFINE t == EmergencyTask(a)
<1>3. t \in Tasks /\ IsEmergency(t) /\ scores[a] \in 0 .. 100
  BY QueueTypes DEF EmergencyAssets, EmergencyTask, IsEmergency
<1>4. /\ prio' = [prio EXCEPT ![t] = ComputedPriority(t, scores[a])]
      /\ order' \in Orders(ToSet(order) \cup {t})
      /\ IsEmergencyOrder(order, order', t, prio')
      /\ \/ taskState' = Demoted(EmergencyQueued(t, taskState))
         \/ taskState' = EmergencyQueued(t, taskState)
  BY <1>2
<1> HIDE DEF t
<1>5. ToSet(order) \subseteq Tasks
  BY <1>1 DEF ToSet
<1>6. order' \in Seq(Tasks) /\ ToSet(order') = ToSet(order) \cup {t} /\ Once(order')
  <2>1. IsFiniteSet(ToSet(order) \cup {t})
    BY <1>3, <1>5, TasksFinite, FS_Subset
  <2> QED BY <1>4, <2>1, SetToSeqsIsOnto DEF Orders
<1>7. Ranked(order', prio')
  <2>1. ASSUME NEW u \in ToSet(order')
        PROVE  prio'[u] \in Int /\ (IsEmergency(u) <=> prio'[u] >= EmergencyPriority)
    <3>1. CASE u = t
      BY <1>1, <1>3, <1>4, <3>1, ScoresRank
    <3>2. CASE u # t
      <4>1. u \in ToSet(order) /\ prio'[u] = prio[u]
        BY <1>1, <1>4, <1>6, <2>1, <3>2
      <4> QED BY <4>1 DEF SoundQueue, Ranked
    <3> QED BY <3>1, <3>2
  <2> QED BY <2>1 DEF Ranked
<1>8. EmergenciesLead(order')
  <2> SUFFICES ASSUME NEW i \in DOMAIN order', NEW j \in DOMAIN order', i < j,
                      IsEmergency(order'[j])
               PROVE  IsEmergency(order'[i])
    BY DEF EmergenciesLead
  <2>1. i \in 1 .. Len(order') /\ j \in 1 .. Len(order')
    BY <1>6
  <2>2. CASE i = 1
    BY <1>3, <1>4, <2>2 DEF IsEmergencyOrder
  <2>3. CASE i # 1
    <3>1. Precedes(order'[i], order'[j], prio')
      <4>1. i \in 2 .. Len(order') /\ j \in 2 .. Len(order')
        BY <1>6, <2>1, <2>3
      <4> QED BY <1>4, <4>1 DEF IsEmergencyOrder
    <3>2. order'[i] \in ToSet(order') /\ order'[j] \in ToSet(order')
      BY DEF ToSet
    <3>3. prio'[order'[i]] \in Int /\ prio'[order'[j]] \in Int /\ prio'[order'[i]] >= prio'[order'[j]]
      BY <1>7, <3>1, <3>2 DEF Ranked, Precedes
    <3> QED BY <1>7, <3>2, <3>3 DEF Ranked, EmergencyPriority
  <2> QED BY <2>2, <2>3
<1>9. \A u \in Tasks : taskState'[u] = "ABSENT" <=> taskState[u] = "ABSENT" /\ u # t
  <2>1. EmergencyQueued(t, taskState) \in [Tasks -> TaskStates]
    BY <1>1, <1>3, QueueTypes
  <2>2. \A u \in Tasks : EmergencyQueued(t, taskState)[u] = "ABSENT" <=> taskState[u] = "ABSENT" /\ u # t
    BY <1>1, <1>3, PresenceKept
  <2>3. \A u \in Tasks : Demoted(EmergencyQueued(t, taskState))[u] = "ABSENT"
                           <=> EmergencyQueued(t, taskState)[u] = "ABSENT"
    BY <2>1, PresenceKept
  <2> QED BY <1>4, <2>2, <2>3
<1> QED BY <1>6, <1>7, <1>8, <1>9 DEF SoundQueue

LEMMA QueueStep ==
  ASSUME ScoresInRange, TypeOK, ActiveConsistent, QueueInv, [Next]_vars
  PROVE  QueueInv'
<1>1. taskState \in [Tasks -> TaskStates] /\ saved.taskState \in [Tasks -> TaskStates]
  BY ContentFields DEF TypeOK, Contents
<1>2. SoundQueue(order, taskState, prio) /\ SoundQueue(saved.order, saved.taskState, saved.prio)
  BY DEF QueueInv
(* The row of the store is kept or written.                                *)
<1>3. ASSUME SoundQueue(order, taskState, prio)', UNCHANGED saved \/ saved' = Content'
      PROVE  QueueInv'
  BY <1>2, <1>3 DEF QueueInv, Content
<1>4. ASSUME UNCHANGED << order, prio >>, UNCHANGED saved \/ saved' = Content',
             \A t \in Tasks : taskState'[t] = "ABSENT" <=> taskState[t] = "ABSENT"
      PROVE  QueueInv'
  <2>1. SoundQueue(order, taskState', prio)
    BY <1>2, <1>4, SoundQueueFrame
  <2> QED BY <1>3, <1>4, <2>1
<1>5. ASSUME UNCHANGED << order, prio, taskState >>, UNCHANGED saved \/ saved' = Content'
      PROVE  QueueInv'
  BY <1>4, <1>5
<1>6. ASSUME NEW m, FreshQueue(m), UNCHANGED saved \/ saved' = Content' PROVE QueueInv'
  <2>1. SoundQueue(order, taskState, prio)'
    BY <1>6, InitialQueueSound DEF FreshQueue
  <2> QED BY <1>3, <1>6, <2>1
<1>7. CASE UNCHANGED vars
  BY <1>5, <1>7 DEF vars, managerVars, runtimeVars, processVars
<1>8. CASE ExecNext /\ UNCHANGED managerVars
  BY <1>5, <1>8 DEF managerVars, runtimeVars, processVars
<1>9. CASE OperatorCommand
  <2>1. CASE ManageStart
    BY <1>6, <2>1 DEF ManageStart, Start, Publish
  <2>2. CASE ManagePause \/ ManageStop \/ ManageResume \/ EmergencyStop \/ BarrierPasses
    BY <1>5, <2>2
       DEF ManagePause, ManageStop, Halting, ManageResume, EmergencyStop, BarrierPasses, Publish
  <2>3. CASE BarrierRefuses
    BY <1>5, <2>3 DEF BarrierRefuses, runtimeVars, processVars
  <2>4. ASSUME NEW v \in Velocities, NEW d \in 1 .. ManualHold, OnManualVelocity(v, d)
        PROVE  QueueInv'
    BY <1>5, <2>4 DEF OnManualVelocity, velocityFrame, runtimeVars, processVars
  <2> QED BY <1>9, <2>1, <2>2, <2>3, <2>4 DEF OperatorCommand, SetRobotMode, ResetStop
<1>10. CASE RiskUpdate
  <2>1. PICK scores \in RiskMessages : EmergencyRisk(scores) \/ NormalRisk(scores)
    BY <1>10 DEF RiskUpdate
  <2>2. scores \in [Assets -> 0 .. 100]
    BY DEF ScoresInRange
  <2>3. saved' = Content'
    BY <2>1 DEF EmergencyRisk, NormalRisk, RiskApplied, Publish
  <2>4. SoundQueue(order, taskState, prio)'
    BY <1>2, <2>1, <2>2, NormalKeepsQueue, EmergencyKeepsQueue
  <2> QED BY <1>3, <2>3, <2>4
<1>11. CASE \/ CooldownEnds \/ PublishTimer \/ ServerDiscovered \/ OnGoalResponse \/ OnCancelled
            \/ OnNavVelocity \/ VelocityTick \/ Elapse
  BY <1>5, <1>11 DEF CooldownEnds, PublishTimer, ServerDiscovered, OnGoalResponse, OnCancelled,
                     OnNavVelocity, VelocityTick, Elapse, velocityFrame, runtimeVars, processVars, Publish
<1>12. CASE OnResult
  <2>1. UNCHANGED << order, prio >> /\ (UNCHANGED saved \/ saved' = Content')
    BY <1>12 DEF OnResult, ResultReplaced, ResultLatched, ResultApplied, ResultHandled, Publish,
                 processVars
  <2>2. CASE UNCHANGED taskState
    BY <1>5, <2>1, <2>2
  <2>3. ASSUME CanFinish, FinishExecution(result.outcome) PROVE QueueInv'
    <3>1. active \in Tasks /\ taskState[active] = "ACTIVE"
      BY <2>3, ContentFields DEF CanFinish, ActiveConsistent, TypeOK
    <3>2. taskState' = [taskState EXCEPT ![active] = TerminalState(result.outcome)]
      BY <2>3 DEF FinishExecution, Finish
    <3>3. TerminalState(result.outcome) # "ABSENT"
      BY DEF TerminalState
    <3>4. \A t \in Tasks : taskState'[t] = "ABSENT" <=> taskState[t] = "ABSENT"
      BY <1>1, <3>1, <3>2, <3>3
    <3> QED BY <1>4, <2>1, <3>4
  <2> QED BY <1>12, <2>2, <2>3 DEF OnResult, ResultReplaced, ResultLatched, ResultApplied
<1>13. ASSUME NEW f \in feedback, OnFeedback(f) PROVE QueueInv'
  <2>1. UNCHANGED << order, prio >> /\ (UNCHANGED saved \/ saved' = Content')
    BY <1>13 DEF OnFeedback, Publish
  <2>2. CASE TaskBecomesActive(f)
    <3>1. taskState' = [Demoted(taskState) EXCEPT ![f.task] = "ACTIVE"] /\ taskState[f.task] # "ABSENT"
      BY <1>13, <2>2 DEF OnFeedback, TaskBecomesActive, Known
    <3>2. \A t \in Tasks : Demoted(taskState)[t] = "ABSENT" <=> taskState[t] = "ABSENT"
      BY <1>1, PresenceKept
    <3>3. Demoted(taskState) \in [Tasks -> TaskStates]
      BY <1>1, QueueTypes
    <3>4. \A t \in Tasks : taskState'[t] = "ABSENT" <=> taskState[t] = "ABSENT"
      BY <3>1, <3>2, <3>3
    <3> QED BY <1>4, <2>1, <3>4
  <2>3. CASE ~TaskBecomesActive(f)
    BY <1>5, <1>13, <2>1, <2>3 DEF OnFeedback
  <2> QED BY <2>2, <2>3
<1>14. CASE Crash \/ RevisionConflict
  BY <1>5, <1>14 DEF Crash, RevisionConflict, Dies, runtimeVars
<1>15. CASE CrashInStart \/ RestartOther
  BY <1>6, <1>15 DEF CrashInStart, Start, RestartOther
<1>16. CASE RestartSame
  <2>1. /\ order' = saved.order /\ prio' = saved.prio /\ taskState' = Demoted(saved.taskState)
        /\ UNCHANGED saved \/ saved' = Content'
    BY <1>16 DEF RestartSame
  <2>2. SoundQueue(saved.order, Demoted(saved.taskState), saved.prio)
    BY <1>1, <1>2, PresenceKept, SoundQueueFrame
  <2> QED BY <1>3, <2>1, <2>2
<1> QED
  BY <1>7, <1>8, <1>9, <1>10, <1>11, <1>12, <1>13, <1>14, <1>15, <1>16 DEF Next, ManagerNext

(* Only a dispatch sends a goal.                                           *)
LEMMA NewRequest ==
  ASSUME [Next]_vars
  PROVE  \/ goalReqs' \subseteq goalReqs
         \/ \E t \in Tasks :
              /\ IsNextQueued(t, order', taskState')
              /\ \A g \in goalReqs' \ goalReqs : g.task = t
<1>1. ASSUME NEW known, NEW held, Dispatch(known, held)
      PROVE  \/ goalReqs' \subseteq goalReqs
             \/ \E t \in Tasks :
                  /\ IsNextQueued(t, order', taskState')
                  /\ \A g \in goalReqs' \ goalReqs : g.task = t
  BY <1>1 DEF Dispatch
<1>2. CASE UNCHANGED vars
  BY <1>2 DEF vars, linkVars
<1>3. CASE ExecNext
  BY <1>3 DEF ExecNext, ReceiveGoal, NavDrives, ReceiveCancel, BeginExecution, NavAnswers, NavCancelled,
              NavFinishes, ReceiveStaleCancel, OnMissionState, linkVars
<1>4. CASE OperatorCommand
  BY <1>1, <1>4
     DEF OperatorCommand, ManageStart, ManagePause, ManageStop, Halting, ManageResume, SetRobotMode,
         ResetStop, BarrierRefuses, BarrierPasses, EmergencyStop, NoDispatch, OnManualVelocity,
         velocityFrame
<1>5. CASE RiskUpdate
  BY <1>1, <1>5 DEF RiskUpdate, EmergencyRisk, NormalRisk, RiskApplied, NoDispatch
<1>6. CASE \/ CooldownEnds \/ PublishTimer \/ ServerDiscovered \/ OnGoalResponse \/ OnCancelled
           \/ OnNavVelocity \/ VelocityTick \/ Elapse \/ \E f \in feedback : OnFeedback(f)
  BY <1>1, <1>6 DEF CooldownEnds, PublishTimer, ServerDiscovered, OnGoalResponse, OnCancelled,
                    OnNavVelocity, VelocityTick, Elapse, OnFeedback, velocityFrame, linkVars
<1>7. CASE OnResult
  BY <1>1, <1>7 DEF OnResult, ResultReplaced, ResultLatched, ResultApplied, NoDispatch
<1>8. CASE Crash \/ RevisionConflict \/ CrashInStart \/ RestartSame \/ RestartOther
  BY <1>8 DEF Crash, RevisionConflict, Dies, CrashInStart, ClientDies, RestartSame, RestartOther, Restart
<1> QED BY <1>2, <1>3, <1>4, <1>5, <1>6, <1>7, <1>8 DEF Next, ManagerNext

(* The task that a dispatch finds first is an emergency task if there is   *)
(* one waiting.                                                            *)
LEMMA NextIsEmergency ==
  ASSUME NEW o \in Seq(Tasks), NEW states, NEW p, SoundQueue(o, states, p),
         NEW t \in Tasks, IsNextQueued(t, o, states),
         NEW e \in Tasks, IsEmergency(e), states[e] = "QUEUED"
  PROVE  IsEmergency(t)
<1>1. PICK i \in DOMAIN o : o[i] = t /\ \A j \in 1 .. (i - 1) : states[o[j]] # "QUEUED"
  BY DEF IsNextQueued
<1>2. PICK j \in DOMAIN o : o[j] = e
  BY DEF SoundQueue, ToSet
<1>3. i \in 1 .. Len(o) /\ j \in 1 .. Len(o)
  OBVIOUS
<1>4. j >= i
  BY <1>1, <1>2, <1>3
<1> QED BY <1>1, <1>2, <1>3, <1>4 DEF SoundQueue, EmergenciesLead

LEMMA QueueAlways == ScoresInRange => (Spec => []QueueInv)
<1> SUFFICES ASSUME ScoresInRange PROVE Spec => []QueueInv
  OBVIOUS
<1>1. Init => QueueInv
  BY InitialQueueSound DEF Init, ManagerInit, QueueInv, Content
<1>2. TypeOK /\ ActiveConsistent /\ QueueInv /\ [Next]_vars => QueueInv'
  BY QueueStep
<1> QED BY <1>1, <1>2, TypeCorrect, ActiveConsistentAlways, PTL DEF Spec

(* No route task is sent while an emergency task waits, whatever samples,  *)
(* results, commands, crashes and restarts came before                     *)
(* (_insert_emergency, _replan, _dispatch_execution_snapshot).             *)
THEOREM EmergencyFirstAlways == ScoresInRange => (Spec => EmergencyFirst)
<1> SUFFICES ASSUME ScoresInRange PROVE Spec => EmergencyFirst
  OBVIOUS
<1> DEFINE First == \A g \in goalReqs' \ goalReqs :
                      ~IsEmergency(g.task) => \A a \in Assets : taskState'[EmergencyTask(a)] # "QUEUED"
<1>1. ASSUME TypeOK', QueueInv', [Next]_vars PROVE First
  <2> SUFFICES ASSUME NEW g \in goalReqs' \ goalReqs, ~IsEmergency(g.task),
                      NEW a \in Assets, taskState'[EmergencyTask(a)] = "QUEUED"
               PROVE  FALSE
    OBVIOUS
  <2>1. PICK t \in Tasks : IsNextQueued(t, order', taskState') /\ g.task = t
    BY <1>1, NewRequest
  <2>2. order' \in Seq(Tasks)
    BY <1>1, ContentFields DEF TypeOK
  <2>3. SoundQueue(order', taskState', prio')
    BY <1>1 DEF QueueInv
  <2>4. EmergencyTask(a) \in Tasks /\ IsEmergency(EmergencyTask(a))
    BY QueueTypes DEF EmergencyTask, IsEmergency
  <2>5. IsEmergency(t)
    BY <2>1, <2>2, <2>3, <2>4, NextIsEmergency
  <2> QED BY <2>1, <2>5
<1> QED BY <1>1, QueueAlways, TypeCorrect, PTL DEF Spec, EmergencyFirst
=============================================================================
