---------------------------- MODULE ScenarioManager ----------------------------
(***************************************************************************)
(* The scenario manager (scenario_manager.py) and its engine               *)
(* (scenario_catalog.py): a command is taken as a parameter change, a      *)
(* worker thread sets the poses of the props of Gazebo one by one, a timer *)
(* with two threads starts the worker and tells what came of it, and a     *)
(* periodic timer repeats the state, which it reads without a lock.        *)
(* Measurements, truth and battery go with the state.                      *)
(*                                                                         *)
(* Commands are valid; the others are refused and change nothing.  A       *)
(* command names a scenario; a reset hides every prop, whatever it names.  *)
(***************************************************************************)
EXTENDS Integers, Sequences, Functions

CONSTANTS
  Props,         (* _poses: the props of the catalogue                     *)
  Scenarios, Normal,
  Shows,         (* the props a scenario shows                             *)
  Commands,      (* records: id, scenario, reset                           *)
  Nothing,       (* no command                                             *)
  MaxCalls       (* bound: commands taken, repeated ones included          *)

ASSUME ScenarioAssumption ==
  /\ Normal \in Scenarios /\ Shows \in [Scenarios -> SUBSET Props] /\ Shows[Normal] = {}
  /\ Nothing \notin Commands /\ \A c \in Commands : c.scenario \in Scenarios

VARIABLES
  pending,       (* _pending                                               *)
  applying,      (* _applying_command                                      *)
  work,          (* the worker: command, props to set, props set, phase    *)
  completed,     (* _completed_application: a result, or Nothing           *)
  finishing,     (* results the threads of the timer are in the middle of  *)
  reading,       (* what a periodic publication has read so far            *)
  last,          (* _last_command_id and _last_action: the command         *)
  shown,         (* engine.active_scenario                                 *)
  revision,      (* engine.revision                                        *)
  results,       (* engine._results                                        *)
  topic,         (* what /simulation/scenario_state holds, of depth one    *)
  world,         (* the props Gazebo shows                                 *)
  doubtful,      (* props a failed call may have left where they should    *)
                 (* not be                                                 *)
  outcomes,      (* what has become of a command, restarts included        *)
  calls

engineVars   == << shown, revision, results >>
scenarioVars == << pending, applying, work, completed, finishing, reading, last, engineVars,
                   topic, world, doubtful, outcomes, calls >>

Target(c) == IF c.reset THEN Normal ELSE c.scenario
NoWork    == [cmd |-> Nothing, todo |-> {}, done |-> << >>, phase |-> "idle"]

State(c, name, status, rev) == [cmd |-> c, scenario |-> name, status |-> status, rev |-> rev]

ManagerStarted ==
  /\ pending = Nothing /\ applying = Nothing /\ work = NoWork
  /\ completed = Nothing /\ finishing = {} /\ reading = << >> /\ last = Nothing
  /\ shown = Normal /\ revision = 0 /\ results = [c \in Commands |-> Nothing]

ScenarioInit ==
  /\ ManagerStarted
  /\ topic = State(Nothing, Normal, "applied", 0)
  /\ world = {} /\ doubtful = {}
  /\ outcomes = [c \in Commands |-> {}] /\ calls = 0

(* _on_parameters: one command at a time. *)
Busy == pending # Nothing \/ applying # Nothing

TakeCommand(c) ==
  /\ calls < MaxCalls /\ calls' = calls + 1
  /\ ~Busy /\ pending' = c
  /\ topic' = State(c, c.scenario, "applying", revision)
  /\ UNCHANGED << applying, work, completed, finishing, reading, last, engineVars, world, doubtful,
                  outcomes >>

(* Mutant of StartWorker: the command counts as the last one already. *)
StartWorkerEarly ==
  /\ completed = Nothing /\ applying = Nothing /\ pending # Nothing
  /\ pending' = Nothing /\ applying' = pending /\ last' = pending
  /\ work' = [cmd |-> pending, todo |-> (Shows[shown] \ Shows[Target(pending)])
                                          \cup (Shows[Target(pending)] \ Shows[shown]),
              done |-> << >>, phase |-> "setting"]
  /\ UNCHANGED << completed, finishing, reading, engineVars, topic, world, doubtful, outcomes, calls >>

(* The end of _process_pending, and the start of apply: the props whose    *)
(* pose changes, compared with what the engine has set.                    *)
Changed(c) ==
  (Shows[shown] \ Shows[Target(c)]) \cup (Shows[Target(c)] \ Shows[shown])

StartWorker ==
  /\ completed = Nothing /\ applying = Nothing /\ pending # Nothing
  /\ pending' = Nothing /\ applying' = pending
  /\ work' = [cmd |-> pending, todo |-> Changed(pending), done |-> << >>, phase |-> "setting"]
  /\ UNCHANGED << completed, finishing, reading, last, engineVars, topic, world, doubtful, outcomes,
                  calls >>

(* A call of pose_setter: it does it, or fails, or fails and does it.      *)
SetPose(p, show, ok) ==
  \/ /\ ok /\ world' = IF show THEN world \cup {p} ELSE world \ {p}
     /\ doubtful' = doubtful \ {p}
  \/ ~ok /\ UNCHANGED << world, doubtful >>
  \/ /\ ~ok /\ world' = IF show THEN world \cup {p} ELSE world \ {p}
     /\ doubtful' = doubtful \cup {p}

(* _results knows the id of a command, with this content or with another.  *)
Repeated(c)    == results[c] # Nothing
Conflicting(c) == \E d \in Commands : d # c /\ d.id = c.id /\ results[d] # Nothing
IsNew(c)       == ~Repeated(c) /\ ~Conflicting(c)

(* Mutant of WorkerSets: a failing call ends the thread, and nobody hears. *)
WorkerSetsRaising ==
  /\ work.phase = "setting" /\ IsNew(work.cmd)
  /\ \E p \in work.todo, ok \in BOOLEAN :
       /\ SetPose(p, p \in Shows[Target(work.cmd)], ok)
       /\ work' = IF ok THEN [work EXCEPT !.todo = @ \ {p}, !.done = Append(@, p)]
                        ELSE NoWork
  /\ UNCHANGED << pending, applying, completed, finishing, reading, last, engineVars, topic, outcomes,
                  calls >>

(* apply, the next prop; the order of the names is left open.              *)
WorkerSets ==
  /\ work.phase = "setting" /\ IsNew(work.cmd)
  /\ \E p \in work.todo, ok \in BOOLEAN :
       /\ SetPose(p, p \in Shows[Target(work.cmd)], ok)
       /\ work' = IF ok THEN [work EXCEPT !.todo = @ \ {p}, !.done = Append(@, p)]
                        ELSE [work EXCEPT !.phase = "undoing"]
  /\ UNCHANGED << pending, applying, completed, finishing, reading, last, engineVars, topic, outcomes,
                  calls >>

(* Mutant of WorkerUndoes: there is no way back. *)
WorkerUndoesNothing ==
  /\ work.phase = "undoing" /\ work.done # << >>
  /\ work' = [work EXCEPT !.done = << >>]
  /\ UNCHANGED << pending, applying, completed, finishing, reading, last, engineVars, topic, world,
                  doubtful, outcomes, calls >>

(* The rollback, in reverse; at a call that fails all() gives up, and the  *)
(* props before it stay as they are.                                       *)
WorkerUndoes ==
  /\ work.phase = "undoing" /\ work.done # << >>
  /\ LET p == work.done[Len(work.done)]
     IN  \/ /\ SetPose(p, p \in Shows[shown], TRUE)
            /\ work' = [work EXCEPT !.done = SubSeq(@, 1, Len(@) - 1)]
         \/ /\ work' = [work EXCEPT !.done = << >>]
            /\ doubtful' = doubtful \cup Range(work.done)
            /\ world' \in {world, IF p \in Shows[shown] THEN world \cup {p} ELSE world \ {p}}
  /\ UNCHANGED << pending, applying, completed, finishing, reading, last, engineVars, topic, outcomes,
                  calls >>

Result(c, status, rev) == [cmd |-> c, status |-> status, rev |-> rev]

(* A call to Gazebo raises what pose_setter does not catch (its output is  *)
(* not text, say), with or without effect: _apply_command makes a failure  *)
(* of it, nothing is put back, and no result is kept.                      *)
WorkerRaises ==
  /\ \E p \in Props :
       LET target == IF work.phase = "setting" THEN Shows[Target(work.cmd)] ELSE Shows[shown]
       IN  /\ \/ work.phase = "setting" /\ IsNew(work.cmd) /\ p \in work.todo
              \/ work.phase = "undoing" /\ work.done # << >> /\ p = work.done[Len(work.done)]
           /\ world' \in {world, IF p \in target THEN world \cup {p} ELSE world \ {p}}
           /\ doubtful' = doubtful \cup Range(work.done) \cup {p}
  /\ completed' = Result(work.cmd, "failed", revision)
  /\ outcomes' = [outcomes EXCEPT ![work.cmd] = @ \cup {"failed"}]
  /\ work' = NoWork
  /\ UNCHANGED << pending, applying, finishing, reading, last, engineVars, topic, calls >>

(* The end of apply and of _apply_command: the result this command has had *)
(* before, the refusal of an id that was another command's, success, or    *)
(* failure.                                                                *)
WorkerEnds ==
  /\ work.phase # "idle"
  /\ LET c == work.cmd
     IN  \/ /\ Repeated(c)
            /\ completed' = results[c] /\ UNCHANGED << engineVars, outcomes >>
         \/ /\ Conflicting(c)
            /\ completed' = Result(c, "failed", revision)
            /\ outcomes' = [outcomes EXCEPT ![c] = @ \cup {"failed"}]
            /\ UNCHANGED engineVars
         \/ /\ IsNew(c) /\ work.phase = "setting" /\ work.todo = {}
            /\ shown' = Target(c) /\ revision' = revision + 1
            /\ completed' = Result(c, "applied", revision + 1)
            /\ results' = [results EXCEPT ![c] = completed']
            /\ outcomes' = [outcomes EXCEPT ![c] = @ \cup {"applied"}]
         \/ /\ IsNew(c) /\ work.phase = "undoing" /\ work.done = << >>
            /\ completed' = Result(c, "failed", revision)
            /\ results' = [results EXCEPT ![c] = completed']
            /\ outcomes' = [outcomes EXCEPT ![c] = @ \cup {"failed"}]
            /\ UNCHANGED << shown, revision >>
  /\ work' = NoWork
  /\ UNCHANGED << pending, applying, finishing, reading, last, topic, world, doubtful, calls >>

(* The start of _process_pending: from here on the other thread may go on  *)
(* with the next command.                                                  *)
TakeCompleted ==
  /\ completed # Nothing /\ completed' = Nothing
  /\ applying' = Nothing
  /\ finishing' = finishing \cup {completed}
  /\ UNCHANGED << pending, work, reading, last, engineVars, topic, world, doubtful, outcomes, calls >>

(* _finish_application and _publish_result *)
Finish ==
  /\ \E f \in finishing :
       /\ finishing' = finishing \ {f}
       /\ last' = IF f.status = "applied" THEN f.cmd ELSE last
       /\ topic' = State(f.cmd, f.cmd.scenario, f.status, f.rev)
  /\ UNCHANGED << pending, applying, work, completed, reading, engineVars, world, doubtful, outcomes,
                  calls >>

(* publish_truth_state_and_battery reads scenario, command and revision    *)
(* one after the other, while the worker and the other thread of the timer *)
(* write them, and publishes later still.  The id and the action of the    *)
(* last command are read as one: an action that is not that of the id      *)
(* completes nothing.                                                      *)
RepeatReads ==
  /\ \/ reading = << >> /\ reading' = << shown >>
     \/ Len(reading) = 1 /\ reading' = Append(reading, last)
     \/ Len(reading) = 2 /\ reading' = Append(reading, revision)
  /\ UNCHANGED << pending, applying, work, completed, finishing, last, engineVars, topic, world,
                  doubtful, outcomes, calls >>

Repeat ==
  /\ Len(reading) = 3 /\ reading' = << >>
  /\ topic' = State(reading[2], reading[1], "applied", reading[3])
  /\ UNCHANGED << pending, applying, work, completed, finishing, last, engineVars, world,
                  doubtful, outcomes, calls >>

(* The process dies, and starts with every prop supposed to be hidden.     *)
ManagerDies ==
  /\ pending' = Nothing /\ applying' = Nothing /\ work' = NoWork
  /\ completed' = Nothing /\ finishing' = {} /\ reading' = << >> /\ last' = Nothing
  /\ shown' = Normal /\ revision' = 0 /\ results' = [c \in Commands |-> Nothing]
  /\ doubtful' = doubtful \cup world
  /\ UNCHANGED << topic, world, outcomes, calls >>
=============================================================================
