------------------------------- MODULE MCHistory -------------------------------
(* InspectionHistory on the instances of MCInspection. *)
EXTENDS MCInspection, InspectionHistory
=============================================================================
