------------------------------ MODULE RiskEngine ------------------------------
(***************************************************************************)
(* The risk node and its engine (risk_node.py, risk_engine.py): an asset   *)
(* is observed when its task becomes terminal, with what the twin last     *)
(* said of it; the engine averages, confirms, recovers and opens and       *)
(* clears alerts, across runs.  One thread.                                *)
(***************************************************************************)
EXTENDS DigitalTwin, Sequences, Functions

CONSTANTS Confirmation, Recovery, Window

ASSUME PolicyAssumption == {Confirmation, Recovery, Window} \subseteq Nat \ {0}

VARIABLES
  riskRun,       (* RiskNode._run_id                                       *)
  available,     (* _available_components; -1 for none                     *)
  known,         (* _tasks: the assets terminal in the last list           *)
  latest,        (* _latest: the level published for an asset              *)
  engine,        (* RiskEngine._states                                     *)
  alerts,        (* _alerts: the id of the open alert of an asset, or 0    *)
  events,        (* the RiskAlert messages of an asset                     *)
  observed       (* per asset what the engine was given: run and average   *)

riskVars == << riskRun, available, known, latest, engine, alerts, events, observed >>

Unknown == -1
Levels  == 0 .. 3       (* NORMAL, ATTENTION, ALERT, EMERGENCY             *)

FreshState == [scores |-> << >>, confirmations |-> 0, recoveries |-> 0, level |-> 0,
               open |-> FALSE]

RiskInit ==
  /\ riskRun = 0
  /\ available = [a \in Assets |-> Unknown]
  /\ known = {}
  /\ latest = [a \in Assets |-> Unknown]
  /\ engine = [a \in Assets |-> FreshState]
  /\ alerts = [a \in Assets |-> 0]
  /\ events = [a \in Assets |-> << >>]
  /\ observed = [a \in Assets |-> << >>]

(* Mutant of RunOf: an ended run is none. *)
RunOfActive(c) == ActiveRun(c)

(* Mutant of RiskObserves: a new lifecycle clears, too. *)
RiskObservesLife(c) ==
  /\ riskRun' = IF c.life \in {"ACTIVE", "ENDED"} THEN c.run ELSE 0
  /\ available' = [a \in Assets |-> Unknown] /\ known' = {}
  /\ latest' = [a \in Assets |-> Unknown]
  /\ UNCHANGED << engine, alerts, events, observed >>

(* _on_context *)
RunOf(c) == IF c.life \in {"ACTIVE", "ENDED"} THEN c.run ELSE 0

RiskObserves(c) ==
  /\ riskRun' = RunOf(c)
  /\ IF riskRun' = riskRun THEN UNCHANGED << available, known, latest >>
     ELSE /\ available' = [a \in Assets |-> Unknown] /\ known' = {}
          /\ latest' = [a \in Assets |-> Unknown]
  /\ UNCHANGED << engine, alerts, events, observed >>

(* components_from_twin_status: there are some of the run at hand only. *)
HasComponents(m) == riskRun # 0 /\ m.run = riskRun

(* _on_twin *)
RiskReadsTwin(m) ==
  /\ HasComponents(m)
  /\ available' = m.values
  /\ UNCHANGED << riskRun, known, latest, engine, alerts, events, observed >>

(* _level of the average of the scores. *)
Level(scores) ==
  LET sum == FoldFunction(+, 0, scores)
      n   == Len(scores)
  IN  IF sum < 30 * n THEN 0 ELSE IF sum < 60 * n THEN 1 ELSE IF sum < 80 * n THEN 2 ELSE 3

(* Mutant of Pushed: the window is not bounded. *)
PushedAll(scores, score) == Append(scores, score)

(* deque(maxlen=moving_average_window) *)
Pushed(scores, score) ==
  LET all == Append(scores, score)
  IN  IF Len(all) > Window THEN Tail(all) ELSE all

(* Mutant of Confirmed: the recovery goes on over a high frame. *)
ConfirmedStill(s, level) ==
  LET t == [s EXCEPT !.confirmations = @ + 1]
  IN  IF t.confirmations >= Confirmation THEN [t EXCEPT !.level = level, !.open = TRUE] ELSE t

(* observe, for an average that is high. *)
Confirmed(s, level) ==
  LET t == [s EXCEPT !.confirmations = @ + 1, !.recoveries = 0]
  IN  IF t.confirmations >= Confirmation THEN [t EXCEPT !.level = level, !.open = TRUE] ELSE t

(* observe, for one that is not. *)
Recovered(s, level) ==
  LET t == [s EXCEPT !.confirmations = 0, !.recoveries = IF s.open THEN @ + 1 ELSE @]
  IN  IF ~s.open \/ t.recoveries >= Recovery THEN [t EXCEPT !.level = level, !.open = FALSE] ELSE t

Observe(s, score) ==
  LET t     == [s EXCEPT !.scores = Pushed(@, score)]
      level == Level(t.scores)
  IN  IF level >= 2 THEN Confirmed(t, level) ELSE Recovered(t, level)

(* The alert event between two states of an asset. *)
Event(s, t) ==
  IF ~s.open /\ t.open THEN "OPENED"
  ELSE IF s.open /\ ~t.open THEN "CLEARED"
  ELSE IF s.open /\ t.open /\ s.level # t.level THEN "LEVEL_CHANGED" ELSE "none"

(* completed_assets: the newly terminal ones.  An asset that gets an       *)
(* emergency task besides has been terminal before.                        *)
NewlyCompleted(list) == list.done \ known

(* Mutant of AlertsAfter: the id of a cleared alert stays. *)
AlertsKept(event, ids) ==
  [a \in Assets |-> IF event[a] = "none" THEN alerts[a] ELSE ids[a]]

(* _alerts after the events of a list. *)
AlertsAfter(event, ids) ==
  [a \in Assets |-> IF event[a] = "none" THEN alerts[a]
                    ELSE IF event[a] = "CLEARED" THEN 0 ELSE ids[a]]

(* _on_tasks and _publish_alert, for every newly completed asset: an asset *)
(* the twin has not spoken of scores 0.                                    *)
RiskReadsTasks(list) ==
  /\ riskRun # 0 /\ list.run = riskRun
  /\ known' = list.done
  /\ LET new   == NewlyCompleted(list)
         event == [a \in Assets |-> IF a \in new THEN Event(engine[a], engine'[a]) ELSE "none"]
         (* an id no alert of the asset had, unless one is open *)
         ids   == [a \in Assets |-> IF alerts[a] # 0 THEN alerts[a] ELSE Len(events[a]) + 1]
     IN  /\ engine' = [a \in Assets |->
              IF a \in new THEN Observe(engine[a], IF available[a] = Unknown THEN 0 ELSE available[a])
                           ELSE engine[a]]
         /\ latest' = [a \in Assets |-> IF a \in new THEN engine'[a].level ELSE latest[a]]
         /\ observed' = [a \in Assets |->
              IF a \in new THEN Append(observed[a], [run |-> riskRun, level |-> Level(engine'[a].scores)])
                           ELSE observed[a]]
         /\ events' = [a \in Assets |->
              IF event[a] = "none" THEN events[a]
              ELSE Append(events[a], [event |-> event[a], id |-> ids[a], run |-> riskRun])]
         /\ alerts' = AlertsAfter(event, ids)
  /\ UNCHANGED << riskRun, available >>
=============================================================================
