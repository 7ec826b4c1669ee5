# Formal model of the substation inspection digital twin

TLA+ modules, TLC configurations and TLAPS proofs about the ROS 2 system under
`src/`: a simulated inspection robot that drives a route of assets, reorders
the route by risk, obeys operators who may pause, stop, drive by hand or press
an emergency stop, and reports what happened.

Line references are `file:line` under `src/`; `mission/` abbreviates
`ros2_ws/src/substation_mission/substation_mission/`.

## 1. Inventory

| Component | State it keeps | Operations | Talks to |
|---|---|---|---|
| Task manager (`mission/mission_node.py`) | run context, mission state, mode, latch and its revision, active task, progress; the goal handle, the futures and the flags of a replacement or barrier | `ManageMission` (start, pause, resume, stop), `SetRobotMode`, `EmergencyStop`, `ResetEmergencyStop`, `/risk/assets`, velocities from Nav2 and operators, action callbacks, a 0.5 s publication timer, a velocity timer | executor (action), risk node, gateway, evidence and report nodes (topics) |
| Task queue (`mission/mission_engine.py`) | tasks, their states and priorities, cooldown | apply risk samples, insert an emergency, latch, reset | called by the task manager |
| Velocity arbiter (`mission/velocity_arbiter.py`) | context, mode, latch, manual deadline, what it puts out, since when it is zero | update, accept, tick, barrier | called by the task manager; the only gate to `/cmd_vel` |
| Snapshot store (`mission/mission_store.py`) | one SQLite row per state revision | save (refuses another content for a revision), load the latest | called by the task manager |
| Inspection executor (`mission/inspection_executor.py`) | reserved goal, Nav2 goal handle, its view of the latch | accept, execute, cancel, follow the latch | task manager, Nav2 |
| Risk engine and node (`substation_risk`) | window of scores, counters, level and open alert per asset; the last task list and twin message | observe completed assets, publish risks and alerts | twin, task manager |
| Digital twin (`substation_digital_twin`) | latest telemetry and meter reading per asset | apply, snapshot | perception, scenario, risk |
| Gateway command store (`substation_web_gateway/app.py`) | commands with their idempotency keys (SQLite), events | insert, expire, complete from observed terminals, REST and WebSocket endpoints | ROS adapter |
| Gateway ROS adapter (`ros_adapter.py`) | last message per topic, calls in flight, the run's time mapping, terminals without a row | dispatch with timeouts, project, replay, record and query mappings | every ROS node |
| Evidence store, report generator (`substation_reporting`) | files by digest, catalogue, time mappings, run contexts seen; what a report is made of | store, freeze, record and query mappings, read, generate reports, automatic report | task manager, risk |
| Scenario manager (`substation_gazebo`) | catalogue, pending command, running worker, applied scenario and its revision | take, apply, undo, tell, repeat the state | simulator, gateway |
| Perception (`substation_perception`) | latest frame per camera, aggregated detections | infer, aggregate, normalise | cameras, twin |
| Asset description, deployment scripts, web front end | constants; files; none of its own | load; install and activate releases; display | all |

The task manager, the executor, the risk node, the twin and the evidence node
spin on one thread: a handler runs without interruption, but what it learns is
old when the next one runs. The executor is a coroutine, so a callback can come
in at each of its awaits. The report generator has four threads but one exclusive
callback group. The scenario manager has a timer with two threads and a worker, the
gateway an event loop, worker threads and a ROS thread, which meet at the lock of
its command store.

Hard behaviours, each at its line, are the `hazards` of `PROJECT.json`. What
makes the components correct:

- *task manager, arbiter, executor*: nobody moves a stopped robot; one authority
  at a time, passed on at rest; at most one goal; a result belongs to the task
  it is a result of; a latch outlives the process; a mission that may run does run;
- *queue*: emergencies first, a finished task stays finished;
- *store*: what was announced is what is restored;
- *risk, twin*: an alert opens after so many confirmations and closes after so many
  recoveries, under one id; an inspection counts once, and does count;
- *command store*: one command per idempotency key, one terminal state per
  command, and the terminal that was observed for it; every command and request ends;
- *time mapping*: the gateway converts with the mapping on disk, of the run it shows;
- *evidence, reports*: catalogue and bytes agree, evidence never changes, a report is
  of one run and a successful run keeps its report;
- *scenario*: Gazebo shows the scenario that is named, a command that failed half way
  is undone, a client is told what became of its own command.

## 2. Plan

Order of work, the behaviour that moves the robot first.

1. **Core (done).** `VelocityArbiter`, `MissionQueue`, `ActionLink`,
   `InspectionExecutor`, `TaskManager`, composed in `InspectionSystem`, with the
   abstract specification `MotionAuthority`; proved about.
2. **Commands (done).** `GatewayCommands`, shown to implement the abstract life
   cycle `CommandLifecycle`.
3. **Time mapping, evidence and reports (done).** `RunContexts`, `EvidenceStore`,
   `TimeMapping` composed in `MappingSystem`, `ReportGenerator` composed in
   `ReportingSystem`.
4. **Twin and risk (done).** `DigitalTwin`, `RiskEngine`, composed in
   `AwarenessSystem`.
5. **Scenarios (done).** `ScenarioManager`, composed with the gateway in
   `ScenarioSystem`.
6. **Perception**, if it turns out to hold more than numbers: the frame buffer of
   the inference worker and the aggregation of camera batches.

Every safety property and action property of the runs, and both refinements, are
proved (section 5), those about results with the history of `InspectionHistory`
instead of hypotheses about operators or the order of messages.

## 3. Modules

### VelocityArbiter
`SafeVelocityArbiter` as operators on a record; each method returns the arbiter
after the call. Velocities are `zero` or `moving`. Time is kept as ages in ticks:
`zeroAge` since zero was first published (capped at `ZeroHold`, the 0.5 s of the
barrier) and `manualLeft` until the deadline of a manual command. The context
revision of the code changes exactly when the mission or its lifecycle does, so
the two stand for it.

### MissionQueue
The queue is the sequence of tasks in execution order, a task a pair of asset
and kind. A sort of the code is stated as "a permutation that is sorted", which
is unique because ties are broken by task id (`TieRank`, arbitrary as uuid4 is).
The policy file's numbers are constants; the detour is priced into `Detour`.

### ActionLink
What is in flight between the two nodes. Requests, responses, cancels, feedback
and results travel on endpoints of their own and are not ordered between each
other. `client` counts incarnations of the task manager, since a message for a
dead one is lost while its goal goes on. What a dead task manager had sent, the last
snapshot included, may still arrive. `MaxLate` bounds the feedback
that may still be on its way when a result is handled; with 0, feedback of a goal is
handled before its result. The
acknowledgements of cancel requests are one Boolean: two of them do the same. Feedback
is a set, so that feedback of one goal may be handled in any order as well, which is
more than the one topic allows.

### InspectionExecutor
The coroutine `_execute_action` cut at its awaits: `accepted` (reserved, not
begun), `requesting` (waiting for Nav2's answer), `navigating`. Nav2 is external:
it accepts or refuses, drives, succeeds or fails at any time, and is cancelled
only when asked.

### TaskManager
`MissionRuntime` and its node: one action per service branch, subscription,
timer and callback, each with the publication, the save and the dispatch it ends
with. `state_revision` is not a number: every handler that changes the runtime
adds one before it publishes, so the dispatch signature is "the current one"
(`dispatched`) until the next change, and the store's row is the content at the
current revision (`saved`). Where the code compares contents for one revision,
`PublishTimer` and `RevisionConflict` do. A crash falls between two handlers or
inside a start (`Crash`, `CrashInStart`); a restart finds its own identity
(`RestartSame`, only with `Recovery`) or begins another mission (`RestartOther`)
and is one action, because the process does not listen before it is done. Such a start
stores an idle row and a STARTING row first (`mission/mission_node.py:542-556`). A death
between them is not a step of its own: the idle row has the mode and the latch it was
made of, which the next start inherits from it, and the STARTING row is restored and
activated to what `RestartOther` leaves.

### InspectionSystem
Both nodes interleaved, fairness, and every property. `Authority` maps it to
`MotionAuthority`: the mode, whether the last velocity is not zero, and whether a
goal exists in either node or between them.

### InspectionHistory
`InspectionSystem` with one history variable that no action reads. `disturbed` is
set by the two things that can make the task manager mistake a result: the mission is
resumed while the goal cancelled by its pause is in flight (`ResumedEarly`), or a result
is handled ahead of a feedback (`ResultOvertakes`). It is cleared when the process ends,
or a mission starts with nothing in flight. `ResultOfActive` and `CancelIsNoFailure`
say that nothing else does.

### MotionAuthority
The abstract promise: a stop is immediate, and the authority to move the robot
passes on only at rest with no goal left.

`MCInspection` has the constants of the runs, `MCHistory` the same for
`InspectionHistory`.

### CommandLifecycle
The abstract promise about commands: a slot (method, route, idempotency key)
keeps the command it was given to, a command moves forward only, to one terminal
status, and each status is announced once: the first after its commit, the others
with theirs. `ToldIsTrue` is what a client of the event stream has from it.

### GatewayCommands
A request is also its command. `stage` cuts an endpoint at its awaits: `sent`
(on a worker thread, which waits at most 2 s), `returned` (back on the event
loop), `inserted` and `announced` (between commits of one uninterrupted stretch of
the loop, in which only the ROS thread runs), `answered`. Nine endpoints are one
action sequence, their differences are in `Outcomes` (what the task manager does)
and `MissionCompletes` (what ends the command). `row` is the durable table,
`remembered` the memory of terminals observed too early, and `observing` an
observer of the ROS thread between its attempt to complete a row and its look
whether there is one. The task manager is the state it announces; `author` and
`moved` are history, to say whose transition a revision was. Crashes keep `row`
and what was called, and lose the rest. `Lifecycle` maps `row` and `announced` to
`CommandLifecycle`.

### RunContexts
The context as its consumers see it: a topic of depth one that is published again
and again, so that contexts are skipped but never out of order.

### EvidenceStore
Files by digest (`absent`, `partial`, `whole`), the catalogue, the mappings, and
the contexts seen. A service is one action because the node has one thread; a
crash in a service leaves part of its file or the file without its row
(`StoreDiesWriting`).

### TimeMapping, MappingSystem
The gateway's three calls to the evidence node (`query`, `record`, `readiness`)
with their in-flight flags, its projection of the run and `creating`, the runs it
saw STARTING. An anchor is the gateway process that proposed it. A call of a dead
gateway is still served (`stray`); a call to a dead store never returns (`dead`).

### ReportGenerator, ReportingSystem
Of every message the report node keeps, the run it is of. A report has three
artifacts which are sent one after the other and not waited for (`submitted`), or
those of the formats a client asks for (`FormatLists`);
`automatic` says which run was marked as reported. In `ReportingSystem` a client
freezes evidence besides, repeating itself.

### DigitalTwin, RiskEngine, AwarenessSystem
Normaliser, twin and risk node with one `_run_id` each, telemetry kept from run to
run, and the engine's window, counters, level and alerts as in `risk_engine.py`.
Scores are 0 or 100 (the components of a score are one number). `observed` and
`events` are history.

### ScenarioManager, ScenarioSystem
The worker thread sets and undoes one prop per step; `completed` passes a result
to the timer, whose two threads may be in `_finish_application` at once
(`finishing`) or overtaken by the periodic state. That one reads the scenario, the last
command and the revision one after the other without a lock, while the others write
them (`RepeatReads`), and publishes what it read (`Repeat`). Results are kept by id: a
command repeated gets its result again, another command under the id is refused
(`Conflicting`). A call that raises ends the worker without rollback
and without a result kept (`WorkerRaises`). `doubtful` is history:
the props a failed or lost call may have left anywhere. `ScenarioSystem` adds the
gateway's side, from the baseline revision it reads to the state it completes from.

`MCGateway`, `MCReporting` and `MCScenario` have the constants of the runs.

## 4. Runs

| Run | Instance | Shows |
|---|---|---|
| `core` | one asset, all commands but start, `ZeroHold` 2, feedback and results in any order, both kinds of velocity | who may move the robot; one goal; nothing left in MANUAL; the refinement of `MotionAuthority`; a cancellation is no failure, but after a resume over the cancelled goal or a result ahead of a feedback |
| `queue` | two assets, samples below and above the emergency threshold, a failure ends the mission, results that may overtake a feedback, no operator | queue and active task agree; emergencies first; a finished task stays finished, but for late feedback of its own; results go to their task |
| `restart` | one crash, up to three missions, restart under a new identity | the store holds what was announced; a latch survives |
| `halt` | two crashes, both kinds of restart, a death on a revision conflict | what is restored is consistent; the executor comes to rest after a stop, whoever sent its goal; a reset becomes possible |
| `finish` | two assets, pause, resume, emergency stop and stop, Nav2 ends every goal | a mission that stays runnable ends, or its last task is stranded by a resume |
| `commands` | two requests with one key, every kind, no crash | a result is that of its own command; what would end an answered command is not left in memory; the refinement of `CommandLifecycle` |
| `retries` | two requests with one key, three kinds, a crash of the gateway | a key names one command over timeouts, races and the crash; accepted commands end; requests are answered |
| `mapping` | two runs, a crash of the gateway or of the evidence node | the mapping in use is the one on disk and of the run at hand; a run seen STARTING gets one |
| `reporting` | two runs, one report in any formats or a bundle, a client with two images and one id, a crash of the evidence node | no row without bytes; evidence never changes; a report is of one run |
| `awareness` | five runs, one asset, confirmation after 2, recovery after 2, window of 1 | alerts in order; the counters are the hysteresis they stand for; one observation per run; every finished asset is evaluated |
| `scenario` | three commands over two props, two of them under one id, failing and raising calls, one restart | Gazebo shows what the manager says; clients are told the truth; a command is decided |
| `report_lost` | as `reporting`, no crash | *violation*: the automatic report is refused and marked done (section 7) |

Bounds of the core. *Assets*: two are the least with an order to change and a task
to preempt; the motion properties do not look at the queue, one asset suffices.
*MaxLatches* 1: within a mission a second latch differs from the first only in
its number. *MaxMissions* 3 gives a start before and after a crash. *MaxCrashes*
2 leaves a goal of a process that died twice over. *ZeroHold* 2 gives a tick in
which zero is published but not long enough; where the barrier's length does not
matter it is 1. The runs without velocities (`NavVelocities = {}`) are those
whose properties do not look at them.

Bounds of the others. *Requests* 2: the races are between two users of one slot,
or between a command and a transition of somebody else; requests with different
keys meet only in the task manager, which has transitions of its own
(`MissionMoves`). *MaxRevision* 3 (revisions 1 to 4) leaves room for both commands
and a transition in between. *MaxCrashes* 1 in `retries`, `mapping` and `reporting`: a
second crash finds the same durable states. *Runs* 2 are a run and its successor;
`awareness` needs three for a low inspection between two high ones to stop a
confirmation, and five for a high one to stop a recovery. Its assets do not meet in the
engine, so one stands for all; with the list of one asset every result ends its run. The
policy file confirms after 3: the theorems of section 5 hold for every count. *Anchors* 2 is one per gateway process. *MaxReports* 1: reports share nothing
but the disk, and the client's images stand for others on it. *Scores*
0 and 100 are NORMAL and EMERGENCY; with a window of 1 the averages come in every order,
which a longer one would need more runs for, and the levels between are left to the
theorems. *Props* 2 gives a scenario with one pose set and one to fail.
*MaxCalls* 2 lets the other client's command be followed by the gateway's, by another
under its id, or by itself.

`halt` has `CHECK_DEADLOCK FALSE`: after a revision conflict the process ends,
and with the crashes used up nobody restarts it. The runs of the other components
have it because a history stops there: all requests are answered, all runs
over. *MaxLate* is 0 in `finish`, `halt` and `restart`: late feedback makes a finished
task ACTIVE again, as section 7 says, and such a mission does not end. It is 1 in `core`,
which has one feedback at most, and in `queue`, where two would need a result that
overtakes the feedback of two goals. The theorems hold for every value. `reporting` uses symmetry over the client's images, which nothing
tells apart.

Fairness. Core: both nodes spin and nothing blocks their only thread, so every
message in flight is handled and every due timer fires: weak fairness of each
delivery and timer. Nav2 answers every goal request and ends a goal it was asked to
cancel; only `finish` (`NavSpec`) also assumes that it ends one it was not.
Gateway: the event loop runs its tasks and its 0.25 s expiry, a worker returns after
at most 2 s, and an observer that has begun ends; nothing is assumed of the task
manager. `MappingSystem`: a live node answers, contexts are repeated twice a second,
the gateway polls once a second, and a new run is activated by the constructor
that made it. `AwarenessSystem`: the risk node reads contexts and lists, which are
repeated. `ScenarioSystem`: the timer fires, the worker goes on, and a call to
Gazebo returns within its timeout. Operators, clients, sensors, risk samples and
crashes are never forced.

## 5. Proofs

All with TLAPS, for every value of the constants that satisfies the named
assumptions. Each module below ends in theorems `Spec => []Property`; the lemmas
before them are, for each inductive invariant, its initial case, what an action
that leaves its variables alone keeps (a "frame"), and one step per action.

**Mission, executor, arbiter** (three modules over `InspectionSystem`)

- `InspectionTypes_proofs`, `TypeCorrect`, with what each method of the arbiter keeps
  or sets. The one part that is not routine is the queue: a permutation of tasks
  remains a sequence of tasks, and an emergency adds one.
- `InspectionSafety_proofs`, crashes and restarts included:
  - `ModeLatchAlways` and `LatchSurvivesAlways` from `LatchInv`. `ModeLatch` alone is not
    inductive, because a restart reads mode and latch from the store: `LatchInv` adds
    that the store's mode and latch are those of the runtime.
  - `ActiveConsistentAlways`, inductive with `TypeOK`.
  - `EndedMeansDoneAlways` from `EndInv`, which says the same of the row a restart
    would restore, and that a task that FAILED ended its mission.
  - `SavedIsCurrentAlways`, if a process never restarts under its own identity
    (`~Recovery`): a restored runtime differs from its row (section 7).
  - `TerminalStaysAlways`, from `StoreKeeps` and what each handler does to the status of
    a task: only feedback makes a finished one ACTIVE, and it is feedback of that task.
  - `ResultOfActiveAlways` and `CancelIsNoFailureAlways`, of `HistorySpec`, from
    `HistoryInv`: as long as the mission is not disturbed there is one message or goal
    under way at a time, it is of the active task or marked as stale in the bookkeeping
    of replacement and barrier, and whatever was cancelled is so marked. Nothing is
    assumed of operators or of the order of feedback and results: a resume over a
    cancelled goal and a result ahead of feedback are steps like others, which set
    `disturbed`, and the proof shows that `disturbed` is forgotten rightly. That the
    exception is needed, TLC shows (section 7). `HistoryIsSpec`: the history variable
    adds no behaviour.
  - `EmergencyFirstAlways`, if scores are from 0 to 100 (`risk_engine.py:107`), from
    `QueueInv`: all tasks of a mission are once in the queue, emergencies have the
    higher priorities and stand in front, whatever their state. Of the queued tasks
    alone it would not be inductive: an active task keeps its slot in a replan, which
    sorts the queued ones within the slots they hold, and may be queued there again.
    That a slot which loses an emergency implies another which gains one is by
    counting.
- `InspectionMotion_proofs`, all under `MaxCrashes = 0`:
  `StoppedMeansZeroAlways` from `MotionInv`, which adds that the arbiter agrees
  with the runtime about lifecycle, mode and latch, and that a robot in motion
  has `output` set and no zero clock running, so that every stop is due and no
  barrier passes; `OneGoalAlways` and `ManualHasNoGoalAlways` from `TokenInv`,
  which says where the single goal is at every stage from request to result, so
  that "nothing in the bookkeeping" means "nothing anywhere"; and
  `KeepsAuthorityAlways`, the refinement, from both. The assumption is needed: with a
  crash the executor drives on to the goal of the dead process (`ManualHasNoGoal` in
  section 7), and the last velocity of a dead process stays on the topic.
  `AuthorityPromises`: the abstract specification keeps its two promises.

**Gateway** (`GatewayCommands_proofs`), over any number of requests, keys, revisions
and crashes

- `GatewayTypeCorrect` from `TypeInv`, which adds to `TypeOK` that a call
  under way is of a request that was made and of a kind the task manager serves.
- `SameKeySameCommandAlways` from `KeyInv`: a row is there exactly from the stage in
  which it was inserted, no two rows share a slot, and whoever was told of a command
  was told of a row in its own slot with its own body; so that a lookup that missed
  the row is caught by the insert.
- `ResultIsOwnAlways` from `OwnInv`, which follows
  a terminal to its source: whatever snapshot the gateway holds, in its projection,
  between the two looks of an observer or in its memory, is a revision that was, by
  the author it names, and whatever velocity status is on its way is of a command
  that moved the robot.
- `NothingForgottenAlways` from `MemoryInv`: one observation per command is remembered
  at most, so that the one the endpoint replays is the one that counts, and what
  decides whether it completes the row (`RowKept`) does not come back later.
- `KeepsLifecycleAlways`, the refinement of `CommandLifecycle`, from `KeyInv`,
  `NewsInv` (the insertion is announced by nobody but the stage that does it) and
  `UptakeInv`. The last follows the acknowledgement that a velocity is taken up, as
  `velocity`, as a status, with an observer or in memory: it is in one place, and the
  row is not "executing" before it is used, so that "executing" is announced once.
- `LifecyclePromises`: `CommandLifecycle` keeps its own promise, `ToldIsTrue`.

**The others**

- `MappingSystem_proofs`: `MappingTypeCorrect`; `RecordedMappingStays`, no call, late call or
  crash changes a mapping on disk; on it rests `MappingAgreesAlways`, whose invariant says
  of the mapping in use and of every answer on its way to the gateway that it is on disk; and
  `ReadyMeansMappedAlways`.
- `ReportingSystem_proofs`: `ReportingTypeCorrect`, `CatalogueHasBytesAlways`,
  `EvidenceStaysAlways` and `ReportOfOneRunAlways`, all from `ReportingInv`. Its parts
  are `StoreInv` (rows have whole files; `Numbered`, the revisions of a run are as
  many as its rows, with the finiteness that needs) and `ReporterInv` (all that was
  collected is of the context at hand, and each artifact sent is `OfOneRun`).
- `AwarenessSystem_proofs`: `AwarenessTypeCorrect`; `ObservedOncePerRunAlways`, because the
  run of an asset's last observation is not after the one the node is in, and equal to
  it only for assets it knows as observed; `EngineIsHysteresisAlways`, by what
  the two counters count in the history; `AlertsPairedAlways`, by how the last
  event of an asset fits the alert that is open.
- `ScenarioSystem_proofs`: `ScenarioTypeCorrect`; `ToldTruthAlways` from `TruthInv`,
  which states the truth of a result at every station on its way to the client; and
  `WorldShownAlways` from `WorldInv`, which says what Gazebo shows of every prop while
  the worker is half way through, forwards or back.

The named assumptions are about the constants only: `GatewayAssumption` (requests
and forms are what they are called), `RunsAssumption` and `StoreAssumption` (runs and
anchors are numbered from 1), `ReportAssumption` and `ClientAssumption` (ids and
digests of reports and clients are among those of the store), `CrashAssumption` (an
anchor for each gateway process), `TwinAssumption` and `PolicyAssumption` (scores from 0
to 100, counts of at least 1), `ScenarioAssumption` and `SentAssumption` (commands name
scenarios of the catalogue); in the core `LinkAssumption`, `NoResultAssumption`,
`ExecutorAssumption`, `QueueAssumption`, `ManagerAssumption` and `HoldAssumption` give
each constant its type and keep the null values out of the sets they stand beside.

Only model-checked: the liveness properties, which are beyond the prover
(fairness and ENABLED). No module declares a recursive operator.

## 6. Not modelled

- Requests refused for a malformed field, an outdated observed revision or a
  wrong identity: they answer and change nothing. The same of a report that names
  another mission, or whose inputs cannot be read (`REPORTING_UNAVAILABLE`,
  `REPORT_INPUT_INVALID`). `ReturnHome` is always refused.
- The terminal status map that answers a repeated manual command id.
- Goals of several tasks in the executor, and the checks of a goal's fields: the
  task manager sends one task per goal, taken from its own queue.
- The velocity states EXPIRED and CANCELLED (`app.py:591`): no node of the repository
  sends them, the arbiter knows REJECTED, ACCEPTED and APPLIED
  (`mission/velocity_arbiter.py:112`, `:125-126`).
- SQLite, canonical JSON and the schema of the store; a failing disk.
- Of the gateway: the read-only and WebSocket endpoints, the relays of evidence and
  report files, camera frames, and the projections that only replace a value.
  Scenario commands are in `ScenarioSystem`, from their call on, and not in
  `GatewayCommands`.
- Of the evidence node: its queries. Of the report node: what a page looks like.
- Of the risk engine: the five components of a score and their weights
  (arithmetic on floats), so the numbers 0 and 100 are all that is checked. Of the
  twin: `twin_state.py`, which groups readings without keeping any.
- Of the scenario manager: loading and validating its catalogue, the values it
  simulates, and the change of the run while a command is under way: the state names the
  run it is published in, and the gateway passes over those of another. That a
  publication reads the id of one command and the action of another is not
  modelled: such a pair says what the command of that id says, or completes nothing.
- Perception: inference is numerical code; the frame buffer keeps one frame per
  camera and the aggregation of a batch is a function of it. Only the run filter of
  the environment normaliser is modelled.
- The asset description is a constant of the model, the deployment scripts and the
  dataset generators (`meter_dataset_*.py`) run outside the system, and the front end
  holds no authoritative state.

## 7. What the model found

With a run of its own, `report_lost`: the last result of a mission makes it
SUCCEEDED and its run ENDED in one change (`mission_node.py:407`); the report node
makes the automatic report when it has seen SUCCEEDED, sends it to the evidence
node, which accepts evidence in ACTIVE and ENDING only, and marks the mission as
reported (`report_generator_node.py:296`). No code publishes ENDING, the state
`docs/INTERFACES.md:177` has for exactly this. Whether the report is kept depends on
whether the evidence node has read the end of the run yet.

Traces TLC finds in the core, without a run of their own. Each is `queue.cfg` with
the constants named here, one asset (`OneAsset`), no other property,
`CHECK_DEADLOCK FALSE`, and, where the last column says nothing else, the module
`MCInspection` with `SPECIFICATION Spec`, `ContinueOnUnreachable = TRUE`,
`RiskMessages <- NoRisk`:

| Property | The code does | Constants |
|---|---|---|
| `NoDispatchUnderBarrier` | the 0.5 s timer dispatches a goal between the refusal of a mode change and its repetition | `Commands = {"mode"}`, `ZeroHold = 2` |
| `RunnableGetsGoal` | a risk sample between dispatch and first feedback leaves the last task ACTIVE for ever | `NavSpec`, `Commands = {}`, `RiskMessages <- CalmRisk`, `Assets = {a2}`, `Registry <- Second` |
| `CancelIsNoFailure` without its `disturbed'` | resume before the cancelled result of the pause arrives: the task and the mission fail (`docs/INTERFACES.md:1595`) | `MCHistory`, `HistorySpec`, `Commands = {"pause", "resume"}` |
| `ResultOfActive` without its `disturbed'` | the same, or late feedback: a result finishes a task it is not of | `MCHistory`, `HistorySpec`, `Commands = {"pause", "resume"}`, `Assets = {a1, a2}`, `Registry <- TwoAssets` |
| `PreemptionRunsEmergency` | every further emergency sample preempts again although the emergency task is finished (`docs/INTERFACES.md:430`) | `Commands = {}`, `RiskMessages <- HotRisk` |
| `LatchRevisionFresh` | a new mission numbers its latches from 1 again, so an old page's reset matches (`docs/INTERFACES.md:1585`) | `MaxMissions = 2`, `Commands = {"start", "stop", "mode", "estop", "reset"}` |
| `SavedIsCurrent` | a restored runtime differs from the row of its own revision; the next save raises (`docs/INTERFACES.md:469`) | `MaxCrashes = 1`, `Recovery = TRUE`, `Commands = {}` |
| `ManualHasNoGoal` | after a restart the barrier passes while the executor drives to the goal of the dead process (`docs/INTERFACES.md:590`) | `MaxMissions = 2`, `MaxCrashes = 1`, `Commands = {"mode"}` |

Seen while modelling the core, without a run:

- Pause during the last task, its result CANCELLED handled while paused, then
  resume: the task is ACTIVE, not QUEUED, and nothing is dispatched
  (`mission_node.py:962`), although `docs/INTERFACES.md:1595` has a resumed
  mission with an active goal. `MissionEnds` of `finish` admits this state,
  `Stranded`, and no other way of not ending.
- Feedback counts succeeded tasks, the end of a task succeeded and skipped ones
  (`mission_node.py:346`): the progress of a mission can fall.
- With feedback handled after the result of its goal, a finished task becomes
  ACTIVE again (`mission_node.py:328`).
- A mode change that is refused and never repeated leaves its barrier requested:
  a goal cancelled before its first feedback is not replaced.
- A goal rejected while a replacement is wanted leaves `_replacement_requested`
  set for the next goal (`mission_node.py:981`).

Seen while modelling the gateway:

- `mission.start` can never succeed: the RUNNING snapshot carries an empty transition
  id (`mission_node.py:112`), while `docs/INTERFACES.md:1593` completes the command on
  RUNNING with its own id; it ends `timed_out`.
- Two requests with one key can both reach ROS, as can a retry after a 2 s timeout,
  which left no row (`app.py:919`; `docs/INTERFACES.md:1007` excludes a second call).
  The UNIQUE constraint then lets one of them be accepted, the other is an error.
- A terminal observed after the failed completion and before the insert, but
  remembered only after the insert looked, is dropped; the command ends by expiry.
- The insert pairs the mission snapshot with the run id of the moment, which can
  already be that of the next run (`docs/INTERFACES.md:1596`).
- Observations of commands that were refused or never get a row stay in
  `_terminal_observations` for as long as the gateway runs: nothing is evicted
  (`ros_adapter.py:1613-1679`).
- "accepted" is announced after the commit, without the lock: "succeeded" can precede
  it on the stream (`docs/INTERFACES.md:1564`).
- `/ws/events` sends what is stored and then only heartbeats.
- A velocity command applied without a time mapping, or after the run changed,
  ends `timed_out` although the robot moved.

Seen while modelling reporting:

- A mission with an emergency task never gets its automatic report: two tasks share
  an asset and the count does not match (`report_generator_node.py:277`).
- A gateway that misses STARTING, or is restarted, never records the mapping of that
  run (`ros_adapter.py:1451`).
- When the evidence node dies with a call in flight, the gateway's in-flight flags
  stay set for ever: no mapping and no readiness until it is restarted itself.
- A file truncated by a crash makes every repetition of its request fail with
  CONTENT_HASH_CONFLICT (`evidence_store.py:163`).
- The evidence node keeps an old run ACTIVE if its ENDED was replaced on the topic by
  the next run's context before it was read.
- A submission that fails half way leaves its first artifacts in the catalogue; the
  retry is another group.
- A trajectory sample carries no run: one of the last run is counted as this one's.

Seen while modelling twin and risk:

- An asset inspected again by an emergency task is not evaluated again
  (`risk_node.py:64`).
- Confirmations are counted over runs: a high score in one run and one in the next
  open an alert.
- Telemetry of an earlier run is published under the new run's id (`twin_node.py:55`).
- An asset completed before any message of the twin scores 0.
- A restart of the risk node forgets open alerts; they are never cleared.

Seen while modelling scenarios:

- The rollback gives up at the first pose that fails: the ones before it stay.
- A pose call that fails after it took effect leaves its prop where it is.
- After a restart the engine believes every prop hidden, whatever Gazebo shows.
- A periodic state between the application and its result, or one that read half of
  it, carries the new revision with the old command, and may replace a failure on the topic of depth one: the
  gateway's command then ends by expiry.
- A reset that names another scenario than "normal" completes only from the result
  itself, since the periodic state names "normal".
