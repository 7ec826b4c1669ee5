------------------------------- MODULE MCGateway -------------------------------
(***************************************************************************)
(* GatewayCommands on a small instance: two requests that may share a key. *)
(***************************************************************************)
EXTENDS GatewayCommands

CONSTANTS r1, r2, k1

(* Every kind; a mode change with two bodies. *)
EveryForm ==
       [kind : AllKinds, key : {k1}, body : {"MANUAL"}]
  \cup [kind : {"mode"}, key : {k1}, body : {"MANUAL", "AUTONOMOUS"}]

(* One of each sort: what the endpoint looks at itself, what only the      *)
(* observers complete, and what is published and acknowledged.             *)
EachSort == [kind : {"pause", "mode", "velocity"}, key : {k1}, body : {"MANUAL"}]
=============================================================================
