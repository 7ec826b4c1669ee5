----------------------------- MODULE MCInspection -----------------------------
(***************************************************************************)
(* InspectionSystem on small instances: one or two assets, scores on both  *)
(* sides of the emergency threshold, a zero barrier of two ticks.          *)
(***************************************************************************)
EXTENDS InspectionSystem

CONSTANTS a1, a2

OneAsset   == << a1 >>
Second     == << a2 >>
TwoAssets  == << a1, a2 >>

(* a2's goal is the farther one; the identifiers sort against the registry. *)
ADetour    == [a \in Assets |-> IF a = a1 THEN 0 ELSE 4]
ATieRank   == [t \in Tasks |-> (IF t[1] = a1 THEN 2 ELSE 1) + (IF t[2] = "route" THEN 2 ELSE 0)]

(* Samples of /risk/assets. *)
Calm       == [a \in Assets |-> 0]
SecondFirst== [a \in Assets |-> IF a = a1 THEN 0 ELSE 50]
FirstHot   == [a \in Assets |-> IF a = a1 THEN 80 ELSE 0]

NoRisk       == {}
CalmRisk     == {Calm, SecondFirst}
HotRisk      == {SecondFirst, FirstHot}
=============================================================================
