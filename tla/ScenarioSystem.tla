---------------------------- MODULE ScenarioSystem ----------------------------
(***************************************************************************)
(* A scenario command between the gateway (dispatch_scenario,              *)
(* on_scenario_state, complete_from_scenario) and the scenario manager,    *)
(* with other clients that set the parameters themselves.  What the        *)
(* gateway stores of a command is in GatewayCommands; here a command waits *)
(* from its call on.  A state of another run is as if it was not read.     *)
(***************************************************************************)
EXTENDS ScenarioManager

CONSTANTS
  Sent,          (* the commands of the gateway, each sent once            *)
  MaxRestarts    (* bound: of the scenario manager                         *)

(* The gateway's ids are its own (uuid4). *)
ASSUME SentAssumption ==
  /\ Sent \subseteq Commands
  /\ \A c \in Sent, d \in Commands : d.id = c.id => d = c

VARIABLES
  projected,     (* the state the gateway has read last                    *)
  claim,         (* per command of the gateway: state, baseline revision   *)
  restarts

vars == << scenarioVars, projected, claim, restarts >>

Unsent == [state |-> "unsent", base |-> 0]

Init ==
  /\ ScenarioInit
  /\ projected = topic /\ claim = [c \in Sent |-> Unsent] /\ restarts = 0

(* dispatch_scenario reads the baseline before it calls. *)
Ask ==
  /\ \E c \in Sent : claim[c] = Unsent
                     /\ claim' = [claim EXCEPT ![c] = [state |-> "asking", base |-> projected.rev]]
  /\ UNCHANGED << scenarioVars, projected, restarts >>

Call ==
  /\ \E c \in Sent :
       /\ claim[c].state = "asking"
       /\ \/ TakeCommand(c) /\ claim' = [claim EXCEPT ![c].state = "waiting"]
          \/ Busy /\ claim' = [claim EXCEPT ![c].state = "refused"] /\ UNCHANGED scenarioVars
  /\ UNCHANGED << projected, restarts >>

(* Another client, which may repeat a command. *)
OtherCall ==
  /\ \E c \in Commands \ Sent : TakeCommand(c)
  /\ UNCHANGED << projected, claim, restarts >>

(* complete_from_scenario *)
Completes(c) ==
  /\ claim[c].state = "waiting"
  /\ topic.cmd # Nothing /\ topic.cmd.id = c.id /\ topic.cmd.reset = c.reset
  /\ topic.scenario = c.scenario
  /\ \/ topic.status = "applied" /\ topic.rev > claim[c].base
     \/ topic.status = "failed" /\ topic.rev >= claim[c].base

(* on_scenario_state *)
Read ==
  /\ projected' = topic
  /\ claim' = [c \in Sent |->
       IF Completes(c)
       THEN [claim[c] EXCEPT !.state = IF topic.status = "applied" THEN "succeeded" ELSE "failed"]
       ELSE claim[c]]
  /\ UNCHANGED << scenarioVars, restarts >>

TimerSteps ==
  /\ StartWorker \/ TakeCompleted \/ Finish
  /\ UNCHANGED << projected, claim, restarts >>

WorkerSteps ==
  /\ WorkerSets \/ WorkerUndoes \/ WorkerRaises \/ WorkerEnds
  /\ UNCHANGED << projected, claim, restarts >>

Repeats == (RepeatReads \/ Repeat) /\ UNCHANGED << projected, claim, restarts >>

ManagerRestarts ==
  /\ restarts < MaxRestarts /\ restarts' = restarts + 1
  /\ ManagerDies /\ UNCHANGED << projected, claim >>

Next ==
  \/ Ask \/ Call \/ OtherCall \/ Read
  \/ TimerSteps \/ WorkerSteps \/ Repeats \/ ManagerRestarts

(* Timers fire, a thread that has begun goes on, and a call to Gazebo ends *)
(* within its timeout.                                                     *)
Spec == Init /\ [][Next]_vars /\ WF_vars(TimerSteps) /\ WF_vars(WorkerSteps)

(* When no command is being applied, Gazebo shows the scenario the manager *)
(* names, except for props a failed or a lost call may have left: a        *)
(* command that failed half way has been undone.                           *)
WorldShown ==
  work.phase = "idle" =>
    \A p \in Props \ doubtful : (p \in world) = (p \in Shows[shown])

(* A client is told "succeeded" only of a command that was applied and     *)
(* "failed" only of one that was not, whatever state of whichever command  *)
(* it was read from.                                                       *)
ToldTruth ==
  \A c \in Sent :
    /\ claim[c].state = "succeeded" => "applied" \in outcomes[c]
    /\ claim[c].state = "failed" => "failed" \in outcomes[c]

(* A command that was taken is applied or fails: nothing holds it back     *)
(* for ever, unless the manager is restarted.                              *)
TakenIsDecided ==
  \A c \in Commands : (pending = c) ~> (outcomes[c] # {} \/ restarts > 0)
=============================================================================
