------------------------------ MODULE DigitalTwin ------------------------------
(***************************************************************************)
(* From a sensor to the twin: the normaliser (environment_normalizer.py)   *)
(* and the digital twin (twin_node.py), each with its own idea of the run. *)
(* The measurements of an asset are one number here, the risk score they   *)
(* are worth; an asset never measured is worth 0.  A measurement is at the *)
(* twin at once: one that lingers is taken or ignored as if the sensor had *)
(* measured then.                                                          *)
(***************************************************************************)
EXTENDS RunContexts

CONSTANTS
  Assets,
  Sensed,        (* those some sensor measures                             *)
  Scores         (* 0 .. 100: what measurements are worth                  *)

ASSUME TwinAssumption == Sensed \subseteq Assets /\ 0 \in Scores /\ Scores \subseteq 0 .. 100

VARIABLES
  normalizerRun, (* EnvironmentNormalizer._run_id; 0 is none               *)
  twinRun,       (* DigitalTwinNode._run_id                                *)
  telemetry,     (* _telemetry, kept from run to run                       *)
  twinTopic      (* what /digital_twin/assets holds, of depth one          *)

twinVars == << normalizerRun, twinRun, telemetry, twinTopic >>

NoSnapshot == [run |-> 0, values |-> [a \in Assets |-> 0]]

TwinInit ==
  /\ normalizerRun = 0
  /\ twinRun = 0 /\ telemetry = [a \in Assets |-> 0] /\ twinTopic = NoSnapshot

ActiveRun(c) == IF c.life = "ACTIVE" THEN c.run ELSE 0

NormalizerObserves(c) ==
  /\ normalizerRun' = ActiveRun(c)
  /\ UNCHANGED << twinRun, telemetry, twinTopic >>

(* _on_context of the twin; nothing is published and nothing cleared. *)
TwinObserves(c) ==
  /\ twinRun' = ActiveRun(c)
  /\ UNCHANGED << normalizerRun, telemetry, twinTopic >>

(* snapshot: without a run it is empty. *)
Publishes(values) ==
  twinTopic' = IF twinRun = 0 THEN NoSnapshot ELSE [run |-> twinRun, values |-> values]

(* normalize_measurement, _forward, apply and apply_meter: both nodes drop *)
(* what is not of their run, but the twin is published.                    *)
Measure(a, v) ==
  /\ normalizerRun # 0
  /\ telemetry' = IF normalizerRun = twinRun THEN [telemetry EXCEPT ![a] = v] ELSE telemetry
  /\ Publishes(telemetry')
  /\ UNCHANGED << normalizerRun, twinRun >>

(* The timer. *)
TwinPublishes ==
  Publishes(telemetry) /\ UNCHANGED << normalizerRun, twinRun, telemetry >>
=============================================================================
