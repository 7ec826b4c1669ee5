--------------------------- MODULE VelocityArbiter ---------------------------
(***************************************************************************)
(* SafeVelocityArbiter, the safety policy in front of the task manager's   *)
(* single /cmd_vel publisher (velocity_arbiter.py), as operators on a      *)
(* record: each method is one operator that returns the arbiter after the  *)
(* call, and a method that may order a stop has a ...Stops companion that  *)
(* says whether it does.                                                   *)
(*                                                                         *)
(* Velocities are abstracted to "zero" and "moving": the policy tells      *)
(* nothing else apart.  Monotonic time is counted in ticks and kept as     *)
(* ages, so that no clock grows: zeroAge is the time since zero velocity   *)
(* was first published (at most ZeroHold, the 0.5 s of the barrier), and   *)
(* manualLeft the time left before the manual deadline.                    *)
(***************************************************************************)
EXTENDS Integers

CONSTANTS
  ZeroHold,     (* ticks of continuous zero velocity the barrier asks for  *)
  ManualHold    (* the longest duration of a manual command, in ticks      *)

ASSUME HoldAssumption == ZeroHold \in Nat \ {0} /\ ManualHold \in Nat \ {0}

Velocities == {"zero", "moving"}
RobotModes == {"AUTONOMOUS", "MANUAL", "ESTOP"}

NotZero    == -1    (* _zero_since is None                                 *)
NoDeadline == -1    (* _manual_deadline is None                            *)

Arbiters(Missions) ==
  [ mission    : Missions,
    active     : BOOLEAN,
    mode       : RobotModes,
    latched    : BOOLEAN,
    manualLeft : -1 .. ManualHold,
    output     : BOOLEAN,
    zeroAge    : -1 .. ZeroHold ]

NewArbiter(m) ==
  [ mission |-> m, active |-> FALSE, mode |-> "AUTONOMOUS", latched |-> FALSE,
    manualLeft |-> NoDeadline, output |-> FALSE, zeroAge |-> NotZero ]

(***************************************************************************)
(* _stop: forget the command being executed; a zero velocity is due when   *)
(* there was one.                                                          *)
(***************************************************************************)
Stop(a) == [a EXCEPT !.manualLeft = NoDeadline, !.output = FALSE]

StopIsDue(a) == a.output \/ a.manualLeft # NoDeadline

(* Mutant of RecordPublished: every zero restarts the clock. *)
RecordRestarted(a, v) == [a EXCEPT !.zeroAge = IF v # "zero" THEN NotZero ELSE 0]

RecordPublished(a, v) ==
  [a EXCEPT !.zeroAge = IF v # "zero" THEN NotZero
                        ELSE IF @ = NotZero THEN 0 ELSE @]

ZeroBarrierSatisfied(a) == a.zeroAge # NotZero /\ a.zeroAge >= ZeroHold

(***************************************************************************)
(* update_context.  The context revision changes exactly when the mission  *)
(* or the lifecycle does, so the two stand for it.                         *)
(***************************************************************************)
ContextStops(a, mission, active) ==
  /\ mission # a.mission \/ active # a.active
  /\ ~active \/ a.manualLeft # NoDeadline

UpdateContext(a, mission, active) ==
  LET b == [a EXCEPT !.mission = mission, !.active = active]
  IN  IF ContextStops(a, mission, active) THEN Stop(b) ELSE b

MissionStops(a, mode, latched) == latched \/ mode # a.mode \/ mode = "ESTOP"

UpdateMission(a, mode, latched) ==
  LET b == [a EXCEPT !.mode = mode, !.latched = latched]
  IN  IF MissionStops(a, mode, latched) THEN Stop(b) ELSE b

(***************************************************************************)
(* The head of TaskManagerNode._publish: refresh the arbiter and publish   *)
(* zero when either update returned a stop.                                *)
(***************************************************************************)
RefreshStops(a, mission, active, mode, latched) ==
  LET b == UpdateContext(a, mission, active)
  IN  \/ ContextStops(a, mission, active) /\ StopIsDue(a)
      \/ MissionStops(b, mode, latched) /\ StopIsDue(b)

Refresh(a, mission, active, mode, latched) ==
  LET c == UpdateMission(UpdateContext(a, mission, active), mode, latched)
  IN  IF RefreshStops(a, mission, active, mode, latched)
      THEN RecordPublished(c, "zero") ELSE c

(* Mutant of NavAccepted: the mode is not looked at. *)
NavAcceptedInAnyMode(a) == a.active /\ ~a.latched

(***************************************************************************)
(* accept_nav and accept_manual, when they select a velocity.              *)
(***************************************************************************)
NavAccepted(a) == a.active /\ a.mode = "AUTONOMOUS" /\ ~a.latched

AcceptNav(a, v) == RecordPublished([a EXCEPT !.output = (v # "zero")], v)

ManualAccepted(a, mission) ==
  a.active /\ mission = a.mission /\ a.mode = "MANUAL" /\ ~a.latched

(* Mutant of AcceptManual: the deadline is a tick late. *)
AcceptManualTooLong(a, v, duration) ==
  RecordPublished([a EXCEPT !.manualLeft = duration + 1, !.output = (v # "zero")], v)

AcceptManual(a, v, duration) ==
  RecordPublished([a EXCEPT !.manualLeft = duration, !.output = (v # "zero")], v)

(***************************************************************************)
(* tick: at the deadline the arbiter stops and zero is published.          *)
(***************************************************************************)
DeadlinePassed(a) == a.manualLeft = 0

TickStop(a) == RecordPublished(Stop(a), "zero")

(* One tick of monotonic time. *)
Elapsed(a) ==
  [a EXCEPT !.zeroAge = IF @ = NotZero \/ @ >= ZeroHold THEN @ ELSE @ + 1,
            !.manualLeft = IF @ > 0 THEN @ - 1 ELSE @]
=============================================================================
