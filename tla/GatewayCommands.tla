---------------------------- MODULE GatewayCommands ----------------------------
(***************************************************************************)
(* A command on its way through the gateway: the HTTP request on the       *)
(* event loop, the call to the task manager on a worker thread, the row of *)
(* CommandStore, and the ROS thread that projects snapshots and completes  *)
(* rows from them (app.py, ros_adapter.py).                                *)
(*                                                                         *)
(* The event loop runs a request without interruption between two awaits,  *)
(* but the ROS thread runs meanwhile: the stages "inserted" and            *)
(* "announced" are inside such a stretch, and keep the loop busy.  All     *)
(* callbacks of the ROS thread are in one exclusive group; an observer     *)
(* between its two accesses to the store keeps the others out.             *)
(*                                                                         *)
(* A request is also its command: the id is fresh.  The body stands for    *)
(* its digest; of a mode change it is the target mode.  The task manager   *)
(* is seen from here as the state it announces; the topics carry its last  *)
(* state only, and republish it.                                           *)
(***************************************************************************)
EXTENDS Integers, Sequences, FiniteSets

CONSTANTS
  Requests, Keys, Nobody,
  Forms,         (* the requests a history may make                        *)
  MaxRevision,   (* bound: state revisions of the task manager             *)
  MaxCrashes     (* bound: crashes of the gateway                          *)

MissionKinds == {"start", "pause", "resume", "stop"}
RobotKinds   == {"mode", "estop", "reset"}
AllKinds     == MissionKinds \cup RobotKinds \cup {"velocity"}

ASSUME GatewayAssumption ==
  /\ Nobody \notin Requests
  /\ Forms \subseteq [kind : AllKinds, key : Keys, body : {"MANUAL", "AUTONOMOUS"}]
  /\ MaxRevision \in Nat /\ MaxCrashes \in Nat

VARIABLES
  \* the requests
  form,          (* kind, key and body                                     *)
  stage,
  answer,        (* the response and the command it names                  *)
  \* durable
  row,           (* of CommandStore                                        *)
  \* memory of the gateway
  announced,     (* command.status events, per command                     *)
  calls,         (* service calls the task manager has not served          *)
  replies,       (* service responses on their way                         *)
  context,       (* RosStateProjector._context, run 0 before the first     *)
  mission,       (* GatewayState.mission with the projector's mode         *)
  missionReady,  (* ready_dependencies["mission"]                          *)
  observing,     (* the observer between complete_from_... and get         *)
  remembered,    (* _terminal_observations                                 *)
  manual,        (* _manual_command_context                                *)
  crashes,
  \* the task manager and its topics
  manager,
  velocity,      (* /cmd_vel_manual, which keeps one command               *)
  velocityStatus,(* /mission/manual_velocity_status, per command           *)
  \* history
  moved,         (* the velocity commands that moved the robot             *)
  author         (* author[n]: the transition id of state revision n       *)

requestVars == << form, stage, answer >>
storeVars   == << row, announced >>
callVars    == << calls, replies >>
projectVars == << context, mission, missionReady >>
observeVars == << observing, remembered, manual >>
managerVars == << manager, velocity, velocityStatus, moved, author >>
vars == << requestVars, storeVars, callVars, projectVars, observeVars, managerVars, crashes >>

Open     == {"accepted", "executing"}
Terminal == {"succeeded", "failed", "timed_out"}

Snapshots ==
  [ run : Nat, life : {"STARTING", "ACTIVE", "ENDED"},
    state : {"READY", "RUNNING", "PAUSED", "STOPPED", "SUCCEEDED"},
    mode : {"AUTONOMOUS", "MANUAL", "ESTOP"}, latched : BOOLEAN, latchRev : Nat,
    rev : Nat, by : Requests \cup {Nobody} ]

Observations ==
       [of : Requests, source : {"mission"}, seen : Snapshots]
  \cup [of : Requests, source : {"velocity"}, status : {"ACCEPTED", "APPLIED", "REJECTED"},
        run : Nat, stamped : BOOLEAN]

NewRow  == [status |-> "none", run |-> 0, rev |-> 0, latchRev |-> 0,
            resultRun |-> 0, resultRev |-> 0]
FirstSnapshot ==
  [ run |-> 1, life |-> "ACTIVE", state |-> "RUNNING", mode |-> "AUTONOMOUS",
    latched |-> FALSE, latchRev |-> 0, rev |-> 1, by |-> Nobody ]

(* The gateway starts any time after the task manager. *)
FirstSnapshots ==
  { FirstSnapshot, [FirstSnapshot EXCEPT !.state = "PAUSED", !.mode = "MANUAL"],
    [FirstSnapshot EXCEPT !.state = "STOPPED", !.life = "ENDED"],
    [FirstSnapshot EXCEPT !.mode = "ESTOP", !.latched = TRUE, !.latchRev = 1] }

Init ==
  /\ form = [r \in Requests |-> [kind |-> "none"]]
  /\ stage = [r \in Requests |-> "new"]
  /\ answer = [r \in Requests |-> [code |-> "none", of |-> Nobody]]
  /\ row = [r \in Requests |-> NewRow]
  /\ announced = [r \in Requests |-> << >>]
  /\ calls = {} /\ replies = {}
  /\ context = [run |-> 0, life |-> "NONE"]
  /\ mission = [FirstSnapshot EXCEPT !.run = 0, !.rev = 0]
  /\ missionReady = FALSE
  /\ observing = {} /\ remembered = {} /\ manual = {}
  /\ crashes = 0
  /\ manager \in FirstSnapshots
  /\ velocity = {} /\ velocityStatus = [r \in Requests |-> << >>]
  /\ moved = {} /\ author = << Nobody >>

(***************************************************************************)
(* CommandStore.                                                           *)
(***************************************************************************)
Kind(c) == form[c].kind
Stored(c) == row[c].status # "none"

(* find_idempotency, and the UNIQUE constraint: a kind has one route. *)
Holders(f) == {c \in Requests : Stored(c) /\ Kind(c) = f.kind /\ form[c].key = f.key}

(* Mutant of MissionCompletes: any snapshot in the expected state will do. *)
MissionCompletesAny(c, s) ==
  /\ row[c].status \in Open
  /\ s.rev >= row[c].rev
  /\ \/ Kind(c) = "mode"  /\ s.mode = form[c].body /\ ~s.latched
     \/ Kind(c) = "estop" /\ s.mode = "ESTOP" /\ s.latched
     \/ Kind(c) = "reset" /\ s.mode = "MANUAL" /\ ~s.latched
     \/ Kind(c) = "pause" /\ s.state = "PAUSED"

(* complete_from_mission, when it completes. *)
MissionCompletes(c, s) ==
  /\ row[c].status \in Open
  /\ s.by = c
  /\ s.rev >= row[c].rev
  /\ Kind(c) \in RobotKinds => s.latchRev >= row[c].latchRev
  /\ \/ Kind(c) \in {"start", "resume"} /\ s.state = "RUNNING"
     \/ Kind(c) = "pause" /\ s.state = "PAUSED"
     \/ Kind(c) = "stop"  /\ s.state = "STOPPED"
     \/ Kind(c) = "mode"  /\ s.mode = form[c].body /\ ~s.latched
     \/ Kind(c) = "estop" /\ s.mode = "ESTOP" /\ s.latched
     \/ Kind(c) = "reset" /\ s.mode = "MANUAL" /\ ~s.latched

(* complete_from_manual_velocity, when it does anything. *)
VelocityCompletes(o) ==
  /\ Kind(o.of) = "velocity" /\ row[o.of].status \in Open
  /\ row[o.of].run = o.run
  /\ o.status = "APPLIED" => o.stamped

Completes(o) ==
  IF o.source = "mission" THEN MissionCompletes(o.of, o.seen) ELSE VelocityCompletes(o)

(* Mutant of StatusAfter: the state of the arbiter is stored as it is. *)
StatusAfterRaw(o) ==
  IF o.source = "mission" THEN "succeeded" ELSE o.status

(* EXPIRED and CANCELLED, which also end a command, are sent by no node.   *)
StatusAfter(o) ==
  IF o.source = "mission" THEN "succeeded"
  ELSE [ACCEPTED |-> "executing", APPLIED |-> "succeeded", REJECTED |-> "failed"][o.status]

(* Commit and, still under the lock, announce. *)
Move(c, status, run, rev) ==
  /\ row' = [row EXCEPT ![c].status = status, ![c].resultRun = run, ![c].resultRev = rev]
  /\ announced' = [announced EXCEPT ![c] = Append(@, status)]

Complete(o) ==
  Move(o.of, StatusAfter(o),
       IF o.source = "mission" THEN o.seen.run ELSE o.run,
       IF o.source = "mission" THEN o.seen.rev ELSE 0)

ObservedOf(c) == {o \in remembered : o.of = c}

LoopFree == \A r \in Requests : stage[r] \notin {"inserted", "announced"}

Answer(r, code, c) ==
  /\ answer' = [answer EXCEPT ![r] = [code |-> code, of |-> c]]
  /\ stage' = [stage EXCEPT ![r] = "answered"]

(***************************************************************************)
(* The event loop.                                                         *)
(***************************************************************************)
(* The head of dispatch_json_service_command, mission_command and          *)
(* emergency_stop: up to the await of the worker, which sends the call.    *)
Submit(r, f) ==
  /\ stage[r] = "new" /\ LoopFree
  /\ form' = [form EXCEPT ![r] = f]
  /\ \/ \E c \in Holders(f) :
          /\ IF form[c].body = f.body THEN Answer(r, "replayed", c) ELSE Answer(r, "reused", Nobody)
          /\ UNCHANGED calls
     \/ /\ Holders(f) = {}
        /\ \/ Answer(r, "unavailable", Nobody) /\ UNCHANGED calls   \* no service, or no fresh pose
           \/ /\ stage' = [stage EXCEPT ![r] = "sent"]
              /\ calls' = IF f.kind = "velocity" THEN calls ELSE calls \cup {r}
              /\ UNCHANGED answer
  /\ UNCHANGED << storeVars, replies, projectVars, observeVars, managerVars, crashes >>

(* dispatch_manual_velocity, on the worker: it publishes and is done. *)
PublishVelocity(r) ==
  /\ stage[r] = "sent" /\ Kind(r) = "velocity"
  /\ \/ /\ context.life = "ACTIVE" /\ mission.mode = "MANUAL" /\ ~mission.latched
        /\ manual' = manual \cup {[of |-> r, run |-> context.run]}
        /\ velocity' = {[of |-> r, run |-> context.run]}
        /\ stage' = [stage EXCEPT ![r] = "returned"]
        /\ UNCHANGED answer
     \/ Answer(r, "refused", Nobody) /\ UNCHANGED << manual, velocity >>
  /\ UNCHANGED << form, storeVars, callVars, projectVars, observing, remembered, manager,
                  velocityStatus, moved, author, crashes >>

(* Mutant of TimesOut: the worker waits for a response without a limit. *)
TimesOutAnswered(r) ==
  /\ stage[r] = "sent" /\ \E a \in replies : a.of = r
  /\ Answer(r, "unavailable", Nobody)
  /\ replies' = {a \in replies : a.of # r}
  /\ UNCHANGED << form, storeVars, calls, projectVars, observeVars, managerVars, crashes >>

(* The 2 s of _wait_for_service_future end first. *)
TimesOut(r) ==
  /\ stage[r] = "sent" /\ Kind(r) # "velocity"
  /\ Answer(r, "unavailable", Nobody)
  /\ replies' = {a \in replies : a.of # r}
  /\ UNCHANGED << form, storeVars, calls, projectVars, observeVars, managerVars, crashes >>

(* The ROS thread hands the response to the worker. *)
Returned(r) ==
  /\ stage[r] = "sent" /\ observing = {}
  /\ \E a \in replies :
       /\ a.of = r
       /\ IF a.accepted
          THEN stage' = [stage EXCEPT ![r] = "returned"] /\ UNCHANGED << answer, replies >>
          ELSE Answer(r, "refused", Nobody) /\ replies' = replies \ {a}
  /\ UNCHANGED << form, storeVars, calls, projectVars, observeVars, managerVars, crashes >>

(* The response as the row keeps it: the revisions a snapshot must reach. *)
Expectations(r) ==
  IF Kind(r) = "velocity" THEN {[rev |-> 0, latchRev |-> 0]} ELSE {a \in replies : a.of = r}

Inserted(r, a) ==
  [row[r] EXCEPT !.status = "accepted", !.run = context.run, !.rev = a.rev, !.latchRev = a.latchRev]

(* Mutant of Insert: the table has no UNIQUE constraint. *)
InsertTwice(r) ==
  /\ stage[r] = "returned" /\ LoopFree
  /\ \E a \in Expectations(r) : row' = [row EXCEPT ![r] = Inserted(r, a)] /\ replies' = replies \ {a}
  /\ stage' = [stage EXCEPT ![r] = "inserted"]
  /\ UNCHANGED << form, answer, announced, calls, projectVars, observeVars, managerVars,
                  crashes >>

(* insert_accepted, up to its commit; the run is the one of the moment. *)
Insert(r) ==
  /\ stage[r] = "returned" /\ LoopFree
  /\ \E a \in Expectations(r) :
       /\ replies' = replies \ {a}
       /\ \/ /\ Holders(form[r]) = {}
             /\ row' = [row EXCEPT ![r] = Inserted(r, a)]
             /\ stage' = [stage EXCEPT ![r] = "inserted"]
             /\ UNCHANGED answer
          \/ Holders(form[r]) # {} /\ Answer(r, "error", Nobody) /\ UNCHANGED row
  /\ UNCHANGED << form, announced, calls, projectVars, observeVars, managerVars, crashes >>

(* The event of the insertion; mission_command then looks at the last      *)
(* projected snapshot, with the run of the moment.                         *)
Announce(r) ==
  /\ stage[r] = "inserted"
  /\ stage' = [stage EXCEPT ![r] = "announced"]
  /\ IF Kind(r) \in MissionKinds /\ MissionCompletes(r, mission)
     THEN /\ row' = [row EXCEPT ![r].status = "succeeded", ![r].resultRun = context.run,
                                ![r].resultRev = mission.rev]
          /\ announced' = [announced EXCEPT ![r] = Append(Append(@, "accepted"), "succeeded")]
     ELSE /\ announced' = [announced EXCEPT ![r] = Append(@, "accepted")]
          /\ UNCHANGED row
  /\ UNCHANGED << form, answer, callVars, projectVars, observeVars, managerVars, crashes >>

(* replay_terminal, then the 202. *)
Replay(r) ==
  /\ stage[r] = "announced"
  /\ \/ \E o \in ObservedOf(r) :
          Completes(o) /\ Complete(o)
          /\ remembered' = IF StatusAfter(o) \in Terminal THEN remembered \ {o} ELSE remembered
     \/ (\A o \in ObservedOf(r) : ~Completes(o)) /\ UNCHANGED << storeVars, remembered >>
  /\ Answer(r, "accepted", r)
  /\ UNCHANGED << form, callVars, projectVars, observing, manual, managerVars, crashes >>

(* Mutant of Expire: the status is not looked at again. *)
ExpireAny(r) ==
  /\ LoopFree /\ Stored(r) /\ row[r].status # "timed_out"
  /\ Move(r, "timed_out", 0, 0)
  /\ UNCHANGED << requestVars, callVars, projectVars, observeVars, managerVars, crashes >>

(* Mutant of Expire: an executing command is taken for one that ends. *)
ExpireAccepted(r) ==
  /\ LoopFree /\ row[r].status = "accepted"
  /\ Move(r, "timed_out", 0, 0)
  /\ UNCHANGED << requestVars, callVars, projectVars, observeVars, managerVars, crashes >>

(* expire_due: any time after acceptance. *)
Expire(r) ==
  /\ LoopFree /\ row[r].status \in Open
  /\ Move(r, "timed_out", 0, 0)
  /\ UNCHANGED << requestVars, callVars, projectVars, observeVars, managerVars, crashes >>

(***************************************************************************)
(* The ROS thread.                                                         *)
(***************************************************************************)
(* on_run_context. *)
OnContext ==
  /\ observing = {}
  /\ context' = [run |-> manager.run, life |-> manager.life] /\ context' # context
  /\ missionReady' = (missionReady /\ context.run = manager.run)
  /\ UNCHANGED << requestVars, storeVars, callVars, mission, observeVars, managerVars, crashes >>

(* The first half of an observer: complete the row, or go on to get. *)
Observe(o) ==
  \/ /\ Completes(o) /\ Complete(o)
     /\ remembered' = IF StatusAfter(o) \in Terminal THEN remembered \ ObservedOf(o.of)
                                                     ELSE remembered
     /\ UNCHANGED observing
  \/ ~Completes(o) /\ observing' = {o} /\ UNCHANGED << storeVars, remembered >>

(* Mutant of Remember: a row that is there does not matter. *)
RememberAlways ==
  \E o \in observing :
    /\ remembered' = (remembered \ ObservedOf(o.of)) \cup {o}
    /\ observing' = {}
    /\ UNCHANGED << requestVars, storeVars, callVars, projectVars, manual, managerVars, crashes >>

(* Its second half: what has no row yet is remembered. *)
Remember ==
  \E o \in observing :
    /\ remembered' = IF Stored(o.of) THEN remembered ELSE (remembered \ ObservedOf(o.of)) \cup {o}
    /\ observing' = {}
    /\ UNCHANGED << requestVars, storeVars, callVars, projectVars, manual, managerVars, crashes >>

(* on_mission; a snapshot that is already projected is not observed again. *)
OnMission ==
  /\ observing = {}
  /\ manager.run = context.run
  /\ manager.rev # mission.rev \/ ~missionReady
  /\ mission' = manager /\ missionReady' = TRUE
  /\ IF manager.by = Nobody
     THEN UNCHANGED << storeVars, remembered, observing >>
     ELSE Observe([of |-> manager.by, source |-> "mission", seen |-> manager])
  /\ UNCHANGED << requestVars, callVars, context, manual, managerVars, crashes >>

(* _on_manual_velocity_status; applied_at is there when the time mapping   *)
(* of the projected run is.                                                *)
OnVelocityStatus(r) ==
  /\ observing = {} /\ velocityStatus[r] # << >>
  /\ velocityStatus' = [velocityStatus EXCEPT ![r] = Tail(@)]
  /\ LET status == Head(velocityStatus[r])
         mine   == {m \in manual : m.of = r}
     IN  /\ manual' = IF status = "ACCEPTED" THEN manual ELSE manual \ mine
         /\ \/ mine = {} /\ UNCHANGED << storeVars, remembered, observing >>
            \/ \E m \in mine, stamped \in BOOLEAN :
                 /\ stamped => status = "APPLIED"
                 /\ Observe([of |-> r, source |-> "velocity", status |-> status,
                             run |-> m.run, stamped |-> stamped])
  /\ UNCHANGED << requestVars, callVars, projectVars, manager, velocity, moved, author, crashes >>

(***************************************************************************)
(* The task manager.                                                       *)
(***************************************************************************)
Transition(s) ==
  /\ s.rev <= MaxRevision
  /\ manager' = s /\ author' = Append(author, s.by)

Reply(r, accepted, s) ==
  replies' = IF stage[r] = "sent"
             THEN replies \cup {[of |-> r, accepted |-> accepted, rev |-> s.rev,
                                 latchRev |-> s.latchRev]}
             ELSE replies

(* manage, _set_robot_mode, _emergency_stop, _reset_stop: the state after, *)
(* as a set that is empty when the request is refused.                     *)
Outcomes(r) ==
  LET m == [manager EXCEPT !.rev = @ + 1, !.by = r]
      when(guard, s) == IF guard THEN {s} ELSE {}
  IN  CASE Kind(r) = "start" ->
             when(m.state \in {"STOPPED", "SUCCEEDED"} /\ ~m.latched,
                  [m EXCEPT !.run = @ + 1, !.state = "READY", !.life = "STARTING", !.latchRev = 0])
        [] Kind(r) = "pause"  -> when(m.state = "RUNNING", [m EXCEPT !.state = "PAUSED"])
        [] Kind(r) = "resume" -> when(m.state = "PAUSED" /\ ~m.latched, [m EXCEPT !.state = "RUNNING"])
        [] Kind(r) = "stop"   -> when(m.state \in {"RUNNING", "PAUSED"},
                                      [m EXCEPT !.state = "STOPPED", !.life = "ENDED"])
        [] Kind(r) = "mode"   ->
             when(/\ ~m.latched /\ m.mode # form[r].body
                  /\ form[r].body = "AUTONOMOUS" => m.state \in {"RUNNING", "PAUSED"},
                  [m EXCEPT !.mode = form[r].body])
        [] Kind(r) = "estop"  -> {[m EXCEPT !.latched = TRUE, !.mode = "ESTOP",
                                            !.latchRev = IF m.latched THEN @ ELSE @ + 1]}
        [] Kind(r) = "reset"  -> when(m.latched, [m EXCEPT !.latched = FALSE, !.mode = "MANUAL"])

(* A mode change and a reset are also refused for the revision observed by *)
(* the client, or for the motion barrier.                                  *)
Serve(r) ==
  /\ r \in calls /\ manager.life # "STARTING"
  /\ calls' = calls \ {r}
  /\ \/ \E s \in Outcomes(r) :
          /\ Transition(s)
          /\ IF Kind(r) = "start" THEN UNCHANGED replies ELSE Reply(r, TRUE, s)
     \/ /\ Outcomes(r) = {} \/ Kind(r) \in {"mode", "reset"}
        /\ Reply(r, FALSE, manager) /\ UNCHANGED << manager, author >>
  /\ UNCHANGED << requestVars, storeVars, projectVars, observeVars, velocity, velocityStatus,
                  moved, crashes >>

(* The rest of a start: activate clears the transition id (mission_node). *)
Activate ==
  /\ manager.life = "STARTING"
  /\ LET s == [manager EXCEPT !.life = "ACTIVE", !.state = "RUNNING", !.rev = @ + 1, !.by = Nobody]
     IN  Transition(s) /\ Reply(manager.by, TRUE, s)
  /\ UNCHANGED << requestVars, storeVars, calls, projectVars, observeVars, velocity,
                  velocityStatus, moved, crashes >>

(* The mission goes on: risk keeps the transition id, feedback and the end *)
(* of the mission clear it.                                                *)
MissionMoves ==
  /\ manager.life = "ACTIVE"
  /\ LET next == [manager EXCEPT !.rev = @ + 1]
     IN  \/ manager.state \in {"RUNNING", "PAUSED"} /\ Transition(next)
         \/ manager.state = "RUNNING" /\ Transition([next EXCEPT !.by = Nobody])
         \/ /\ manager.state = "RUNNING"
            /\ Transition([next EXCEPT !.by = Nobody, !.state = "SUCCEEDED", !.life = "ENDED"])
  /\ UNCHANGED << requestVars, storeVars, callVars, projectVars, observeVars, velocity,
                  velocityStatus, moved, crashes >>

(* _on_manual_velocity *)
OnManualVelocity ==
  /\ \E v \in velocity :
       LET accepted == manager.life = "ACTIVE" /\ v.run = manager.run
                       /\ manager.mode = "MANUAL" /\ ~manager.latched
       IN  /\ velocityStatus' = [velocityStatus EXCEPT
                ![v.of] = IF accepted THEN << "ACCEPTED", "APPLIED" >> ELSE << "REJECTED" >>]
           /\ moved' = IF accepted THEN moved \cup {v.of} ELSE moved
  /\ velocity' = {}
  /\ UNCHANGED << requestVars, storeVars, callVars, projectVars, observeVars, manager, author,
                  crashes >>

(***************************************************************************)
(* The gateway dies and comes back: the store is there, the rest is not,   *)
(* and what the task manager was asked goes on.                            *)
(***************************************************************************)
Crash ==
  /\ crashes < MaxCrashes /\ crashes' = crashes + 1
  /\ stage' = [r \in Requests |-> IF stage[r] \in {"new", "answered"} THEN stage[r] ELSE "lost"]
  /\ announced' = [r \in Requests |-> << >>]
  /\ replies' = {}
  /\ context' = [run |-> 0, life |-> "NONE"]
  /\ mission' = [FirstSnapshot EXCEPT !.run = 0, !.rev = 0]
  /\ missionReady' = FALSE
  /\ observing' = {} /\ remembered' = {} /\ manual' = {}
  /\ UNCHANGED << form, answer, row, calls, managerVars >>

LoopNext ==
  \E r \in Requests :
    \/ \E f \in Forms : Submit(r, f)
    \/ PublishVelocity(r) \/ TimesOut(r) \/ Returned(r)
    \/ Insert(r) \/ Announce(r) \/ Replay(r) \/ Expire(r)

RosNext == OnContext \/ OnMission \/ Remember \/ \E r \in Requests : OnVelocityStatus(r)

ManagerNext ==
  \/ \E r \in Requests : Serve(r)
  \/ Activate \/ MissionMoves \/ OnManualVelocity

Next == LoopNext \/ RosNext \/ ManagerNext \/ Crash

Spec == Init /\ [][Next]_vars

(* The loop runs its tasks, one of which expires commands every 0.25 s;    *)
(* a worker publishes or waits at most its 2 s; the executor spins.        *)
Fairness ==
  /\ \A r \in Requests :
       /\ WF_vars(PublishVelocity(r)) /\ WF_vars(TimesOut(r) \/ Returned(r))
       /\ WF_vars(Insert(r)) /\ WF_vars(Announce(r)) /\ WF_vars(Replay(r))
       /\ WF_vars(Expire(r))
  /\ WF_vars(Remember)

FairSpec == Spec /\ Fairness

Stages  == {"new", "sent", "returned", "inserted", "announced", "answered", "lost"}
Codes   == {"none", "accepted", "replayed", "reused", "refused", "unavailable", "error"}
Rows    == [ status : {"none"} \cup Open \cup Terminal, run : Nat, rev : Nat, latchRev : Nat,
             resultRun : Nat, resultRev : Nat ]
Replies == [of : Requests, accepted : BOOLEAN, rev : Nat, latchRev : Nat]
Manuals == [of : Requests, run : Nat]

TypeOK ==
  /\ form \in [Requests -> Forms \cup {[kind |-> "none"]}]
  /\ stage \in [Requests -> Stages]
  /\ answer \in [Requests -> [code : Codes, of : Requests \cup {Nobody}]]
  /\ row \in [Requests -> Rows]
  /\ announced \in [Requests -> Seq(Open \cup Terminal)]
  /\ calls \subseteq Requests /\ replies \subseteq Replies
  /\ context \in [run : Nat, life : {"NONE", "STARTING", "ACTIVE", "ENDED"}]
  /\ mission \in Snapshots /\ missionReady \in BOOLEAN
  /\ observing \subseteq Observations /\ remembered \subseteq Observations
  /\ manual \subseteq Manuals /\ velocity \subseteq Manuals
  /\ crashes \in 0 .. MaxCrashes
  /\ manager \in Snapshots
  /\ velocityStatus \in [Requests -> Seq({"ACCEPTED", "APPLIED", "REJECTED"})]
  /\ moved \subseteq Requests
  /\ author \in Seq(Requests \cup {Nobody})

(***************************************************************************)
(* Safety.                                                                 *)
(***************************************************************************)

(* Two clients that were told of a command under one route and key were    *)
(* told of the same one, and sent the same body: concurrent requests, a    *)
(* retry after a timeout and one after a crash included (find_idempotency, *)
(* the UNIQUE constraint, insert_accepted).                                *)
SameKeySameCommand ==
  \A p, q \in Requests :
    /\ answer[p].code \in {"accepted", "replayed"} /\ answer[q].code \in {"accepted", "replayed"}
    /\ Kind(p) = Kind(q) /\ form[p].key = form[q].key
    => answer[p].of = answer[q].of /\ form[p].body = form[q].body

(* A succeeded command reports the state it brought about itself: a        *)
(* snapshot of its own transition, not before the call was served, or a    *)
(* velocity the robot took (complete_from_..., the service response kept   *)
(* as expectation).                                                        *)
ResultIsOwn ==
  \A c \in Requests : row[c].status = "succeeded" =>
    IF Kind(c) = "velocity" THEN c \in moved
    ELSE row[c].resultRev >= row[c].rev /\ author[row[c].resultRev] = c

(* An observation that would end an accepted command is not left in memory *)
(* once its request was answered (_observe_..., replay_terminal).          *)
NothingForgotten ==
  \A o \in remembered :
    stage[o.of] = "answered" /\ Completes(o) => StatusAfter(o) \notin Terminal

(***************************************************************************)
(* The gateway implements the life cycle.                                  *)
(***************************************************************************)
Slots == {f.kind : f \in Forms} \X Keys

HolderOf(s) ==
  LET held == {c \in Requests : Stored(c) /\ << Kind(c), form[c].key >> = s}
  IN  IF held = {} THEN Nobody ELSE CHOOSE c \in held : TRUE

Lifecycle ==
  INSTANCE CommandLifecycle WITH
    Commands <- Requests,
    status <- [c \in Requests |-> row[c].status],
    holder <- [s \in Slots |-> HolderOf(s)],
    told <- announced

(* Whatever the threads interleave, a row moves forward only, a slot keeps *)
(* its command, and every status is announced once, all but the first with *)
(* their commit.                                                           *)
KeepsLifecycle == Lifecycle!LifecycleSpec

(***************************************************************************)
(* Liveness.                                                               *)
(***************************************************************************)

(* An accepted command ends, even when its observation is lost or the      *)
(* gateway restarts (expire_due).                                          *)
CommandsEnd == \A c \in Requests : row[c].status \in Open ~> row[c].status \in Terminal

(* A request whose call was sent is answered, unless the gateway dies: the *)
(* loop, the worker and the observers do not wait on each other for ever.  *)
RequestsEnd == \A r \in Requests : stage[r] = "sent" ~> stage[r] \in {"answered", "lost"}
=============================================================================
