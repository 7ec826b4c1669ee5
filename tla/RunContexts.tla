------------------------------ MODULE RunContexts ------------------------------
(***************************************************************************)
(* The run context the task manager publishes (mission_node.py), for the   *)
(* components that only consume it.  It is published again every half      *)
(* second on a topic of depth one: a subscriber reads the context of the   *)
(* moment, any number of times, and may miss one that was replaced.        *)
(***************************************************************************)
EXTENDS Integers

CONSTANT Runs    (* bound: the runs, numbered from 1                       *)

ASSUME RunsAssumption == Runs \subseteq Nat \ {0}

VARIABLE context (* revision and lifecycle of the run at hand; 0 no run    *)

NoContext == [run |-> 0, rev |-> 0, life |-> "ENDED"]

ContextInit == context = NoContext

(* load_or_create_runtime: a task manager starts with a new run, whatever  *)
(* became of the one before.  Its revision is higher than all before; only *)
(* those of one run are compared, so they start from 1 here.               *)
StartRun ==
  /\ context.run + 1 \in Runs
  /\ context' = [run |-> context.run + 1, rev |-> 1, life |-> "STARTING"]

(* The constructor of the node activates the run it has published. *)
ActivateRun ==
  /\ context.life = "STARTING"
  /\ context' = [context EXCEPT !.rev = @ + 1, !.life = "ACTIVE"]

(* apply_execution_result: the last result ends run and mission at once. *)
EndRun ==
  /\ context.life = "ACTIVE"
  /\ context' = [context EXCEPT !.rev = @ + 1, !.life = "ENDED"]

PublishedContexts == [run : Runs \cup {0}, rev : 0 .. 3, life : {"STARTING", "ACTIVE", "ENDED"}]

ContextTypeOK == context \in PublishedContexts
=============================================================================
