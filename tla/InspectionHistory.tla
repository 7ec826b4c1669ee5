--------------------------- MODULE InspectionHistory ---------------------------
(***************************************************************************)
(* InspectionSystem with a history of what may mislead the task manager    *)
(* about a result: finish_execution applies it to the task that is active, *)
(* and two things may make that another task than the goal's, or make a    *)
(* cancelled goal count.  The history variable is written here and read by *)
(* no action, so the behaviours are those of InspectionSystem.             *)
(***************************************************************************)
EXTENDS InspectionSystem

VARIABLE disturbed

historyVars == << vars, disturbed >>

(* A mission is resumed before the goal cancelled by its pause is through. *)
ResumedEarly ==
  missionState = "PAUSED" /\ missionState' = "RUNNING" /\ InFlight /\ ~replacement

(* A result is handled before the feedback that was published ahead of it. *)
ResultOvertakes == alive' /\ handle /\ ~handle' /\ feedback # {}

(* The process ends, or a mission begins while nothing is in flight. *)
Settled == ~alive' \/ (mission' # mission /\ ~InFlight /\ feedback = {})

Remembers == disturbed' = (~Settled /\ (disturbed \/ ResumedEarly \/ ResultOvertakes))

HistoryInit == Init /\ disturbed = FALSE
HistoryNext == Next /\ Remembers
HistorySpec == HistoryInit /\ [][HistoryNext]_historyVars

(* A result finishes the task that the executor worked on, not whichever   *)
(* task is active when the result arrives (_on_execution_result), unless   *)
(* the mission was disturbed.                                              *)
ResultOfActive ==
  [][\A t \in Tasks : taskState[t] \notin Terminal /\ taskState'[t] \in Terminal
        => disturbed' \/ (result.task = t /\ result.mission = mission)]_historyVars

(* A task fails because it could not be done, never because its goal was   *)
(* cancelled or stopped on the operator's or the task manager's request,   *)
(* unless the mission was disturbed.                                       *)
CancelIsNoFailure ==
  [][\A t \in Tasks : taskState[t] # "FAILED" /\ taskState'[t] = "FAILED"
        => disturbed' \/ result.outcome = "FAILED"]_historyVars
=============================================================================
