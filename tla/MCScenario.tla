------------------------------ MODULE MCScenario ------------------------------
(***************************************************************************)
(* Instances of ScenarioSystem: three scenarios over two props, a command  *)
(* of the gateway, a reset that names a scenario, and two of another       *)
(* client, under one id.                                                   *)
(***************************************************************************)
EXTENDS ScenarioSystem

TwoProps == {"smoke", "person"}
Names    == {"normal", "fire", "intruder"}
ShowsOf  == [normal |-> {}, fire |-> TwoProps, intruder |-> {"person"}]

Reset    == [id |-> 1, scenario |-> "fire", reset |-> TRUE]
Intruder == [id |-> 2, scenario |-> "intruder", reset |-> FALSE]
SameId   == [id |-> 2, scenario |-> "fire", reset |-> FALSE]

ThreeCommands == {Reset, Intruder, SameId}
OfTheGateway  == {Reset}
=============================================================================
