---------------------------- MODULE AwarenessSystem ----------------------------
(***************************************************************************)
(* From a measurement to an alert: sensors, normaliser, twin and risk node *)
(* with the run contexts and task lists of the task manager, each read     *)
(* when it is read.                                                        *)
(***************************************************************************)
EXTENDS RiskEngine

VARIABLE list    (* the task list published: run and terminal assets       *)

vars == << context, twinVars, riskVars, list >>

Init == ContextInit /\ TwinInit /\ RiskInit /\ list = [run |-> 0, done |-> {}]

ManagerStarts ==
  /\ StartRun /\ list' = [run |-> context'.run, done |-> {}]
  /\ UNCHANGED << twinVars, riskVars >>

ManagerActivates == ActivateRun /\ UNCHANGED << twinVars, riskVars, list >>

(* A result of the executor: the last one ends the run. *)
ManagerCompletes ==
  /\ context.life = "ACTIVE"
  /\ \E a \in Assets \ list.done : list' = [list EXCEPT !.done = @ \cup {a}]
  /\ IF list'.done = Assets THEN EndRun ELSE UNCHANGED context
  /\ UNCHANGED << twinVars, riskVars >>

Sensors ==
  /\ \E a \in Sensed, v \in Scores : Measure(a, v)
  /\ UNCHANGED << context, riskVars, list >>

TwinSteps ==
  /\ \/ context.run # 0 /\ (NormalizerObserves(context) \/ TwinObserves(context))
     \/ TwinPublishes
  /\ UNCHANGED << context, riskVars, list >>

RiskReadsContext ==
  /\ context.run # 0 /\ RiskObserves(context) /\ UNCHANGED << context, twinVars, list >>

RiskReadsTopic == RiskReadsTwin(twinTopic) /\ UNCHANGED << context, twinVars, list >>

RiskReadsList == RiskReadsTasks(list) /\ UNCHANGED << context, twinVars, list >>

Next ==
  \/ ManagerStarts \/ ManagerActivates \/ ManagerCompletes
  \/ Sensors \/ TwinSteps \/ RiskReadsContext \/ RiskReadsTopic \/ RiskReadsList

(* Contexts and lists are published twice a second, and reliable. *)
Spec == Init /\ [][Next]_vars /\ WF_vars(RiskReadsContext) /\ WF_vars(RiskReadsList)

(* Values: states of the engine, messages and observations are of their    *)
(* sets.                                                                   *)
TypeOK ==
  /\ ContextTypeOK
  /\ {normalizerRun, twinRun, riskRun} \subseteq Runs \cup {0}
  /\ telemetry \in [Assets -> Scores] /\ available \in [Assets -> Scores \cup {Unknown}]
  /\ known \subseteq Assets
  /\ latest \in [Assets -> Levels \cup {Unknown}]
  /\ \A a \in Assets : engine[a].level \in Levels /\ Len(engine[a].scores) <= Window

(* One alert after the other: it is opened, may change its level, and is   *)
(* cleared, under one id that no other alert of the asset has; the ids the *)
(* node keeps are those of the alerts the engine has open.                 *)
AlertsPaired ==
  \A a \in Assets :
    /\ (alerts[a] # 0) = engine[a].open
    /\ \A i \in DOMAIN events[a] :
         IF i = 1 \/ events[a][i - 1].event = "CLEARED"
         THEN /\ events[a][i].event = "OPENED"
              /\ \A j \in 1 .. i - 1 : events[a][j].id # events[a][i].id
         ELSE /\ events[a][i].event # "OPENED"
              /\ events[a][i].id = events[a][i - 1].id

(* The engine remembers three counters; said of all it was ever given: an  *)
(* alert is open when Confirmation high averages in a row were never       *)
(* followed by Recovery low ones in a row.                                 *)
High(a, i) == observed[a][i].level >= 2

EngineIsHysteresis ==
  \A a \in Assets :
    engine[a].open <=>
      \E i \in Confirmation .. Len(observed[a]) :
        /\ \A j \in i - Confirmation + 1 .. i : High(a, j)
        /\ \A k \in i + Recovery .. Len(observed[a]) :
             \E j \in k - Recovery + 1 .. k : High(a, j)

(* An inspection counts once: an asset is observed at most once in a run,  *)
(* whatever is published again and again.                                  *)
ObservedOncePerRun ==
  \A a \in Assets : \A i, j \in DOMAIN observed[a] :
    i < j => observed[a][i].run < observed[a][j].run

(* Every asset whose task is terminal is evaluated if its run stays the    *)
(* one at hand, also the last one, whose result ends the run: the manager  *)
(* may stop at any list, and what is on it gets evaluated.                 *)
CompletedIsEvaluated ==
  []<>(\A a \in list.done : riskRun = list.run /\ latest[a] # Unknown)
=============================================================================
