--------------------------- MODULE MotionAuthority ---------------------------
(***************************************************************************)
(* Who may move the robot: what the task manager promises to the people    *)
(* around it (docs/INTERFACES.md, sections on EmergencyStop,               *)
(* ResetEmergencyStop and SetRobotMode).  The authority is with the        *)
(* navigation in AUTONOMOUS, with an operator in MANUAL and with nobody in *)
(* ESTOP.  Anybody may take it away at any time; it passes on only when    *)
(* the robot is at rest and no goal is left.                               *)
(***************************************************************************)
VARIABLES
  mode,        (* AUTONOMOUS, MANUAL or ESTOP                              *)
  moving,      (* the velocity commanded last is not zero                  *)
  executing    (* an inspection goal exists somewhere                      *)

authorityVars == << mode, moving, executing >>

AtRest == ~moving /\ ~executing

AuthorityInit == mode = "AUTONOMOUS" /\ AtRest

EmergencyStopped ==
  mode' = "ESTOP" /\ moving' = FALSE /\ UNCHANGED executing

(* After a stop, the authority only goes to an operator. *)
PassedOn ==
  /\ AtRest
  /\ \/ mode \in {"ESTOP", "AUTONOMOUS"} /\ mode' = "MANUAL" /\ UNCHANGED executing
     \/ mode = "MANUAL" /\ mode' = "AUTONOMOUS" /\ executing' \in BOOLEAN
  /\ UNCHANGED moving

Moves == mode # "ESTOP" /\ moving' \in BOOLEAN /\ UNCHANGED << mode, executing >>

Executes ==
  /\ executing' => executing \/ mode = "AUTONOMOUS"
  /\ executing' \in BOOLEAN
  /\ moving' => moving
  /\ moving' \in BOOLEAN
  /\ UNCHANGED mode

AuthorityNext == EmergencyStopped \/ PassedOn \/ Moves \/ Executes

AuthoritySpec == AuthorityInit /\ [][AuthorityNext]_authorityVars

(* Follows from the specification. *)
NobodyMovesStopped == mode = "ESTOP" => ~moving

ManualIsExclusive == mode = "MANUAL" => ~executing
=============================================================================
