----------------------------- MODULE MappingSystem -----------------------------
(***************************************************************************)
(* The time mapping of a run between the task manager, the gateway and the *)
(* evidence node: who may record it, what survives a crash of either side, *)
(* and what the gateway believes.                                          *)
(***************************************************************************)
EXTENDS TimeMapping

CONSTANT MaxCrashes

(* A gateway process has an anchor of its own. *)
ASSUME CrashAssumption == MaxCrashes \in Nat /\ 1 .. MaxCrashes + 1 \subseteq Anchors

VARIABLES
  stray,         (* record requests of gateways that died                  *)
  crashes        (* of the evidence node and of the gateway                *)

vars == << context, storeVars, gatewayVars, stray, crashes >>

Init == ContextInit /\ StoreInit /\ GatewayInit /\ stray = {} /\ crashes = 0

Others == << storeVars, gatewayVars, stray, crashes >>

ManagerSteps == (StartRun \/ EndRun) /\ UNCHANGED Others

ManagerActivates == ActivateRun /\ UNCHANGED Others

StoreReads ==
  /\ context.run # 0 /\ StoreObserves(context)
  /\ UNCHANGED << context, gatewayVars, stray, crashes >>

GatewayReads ==
  /\ context.run # 0 /\ GatewayObserves(context)
  /\ UNCHANGED << context, storeVars, stray, crashes >>

GatewaySteps ==
  /\ QueryDone \/ RecordDone \/ Poll \/ PollUnready \/ ReadinessDone
  /\ UNCHANGED << context, storeVars, stray, crashes >>

(* query_run_time_mapping, for the call in flight. *)
AnswerQuery ==
  /\ query.state = "asked"
  /\ LET row == mappings[query.run]
     IN  query' = IF row = NoMapping THEN [query EXCEPT !.state = "missing"]
                  ELSE [query EXCEPT !.state = "found", !.rev = row.rev, !.anchor = row.anchor]
  /\ UNCHANGED << context, storeVars, process, projected, record, readiness, stray, crashes >>

AnswerRecord ==
  /\ record.state = "asked"
  /\ \E accepted \in BOOLEAN :
       /\ RecordMapping(record, accepted)
       /\ record' = [record EXCEPT !.state = IF accepted THEN "accepted" ELSE "refused"]
  /\ UNCHANGED << context, process, projected, query, readiness, stray, crashes >>

AnswerReadiness ==
  /\ readiness = "asked"
  /\ readiness' = IF TimeMappingReady THEN "ready" ELSE "unready"
  /\ UNCHANGED << context, storeVars, process, projected, query, record, stray, crashes >>

(* A request is served after the gateway that sent it has died. *)
ServeStray ==
  /\ \E q \in stray : stray' = stray \ {q} /\ \E accepted \in BOOLEAN : RecordMapping(q, accepted)
  /\ UNCHANGED << context, gatewayVars, crashes >>

StoreCrashes ==
  /\ crashes < MaxCrashes /\ crashes' = crashes + 1
  /\ StoreDies /\ LoseCalls /\ stray' = {}
  /\ UNCHANGED context

GatewayCrashes ==
  /\ crashes < MaxCrashes /\ crashes' = crashes + 1
  /\ GatewayDies
  /\ stray' = IF record.state = "asked" THEN stray \cup {record} ELSE stray
  /\ UNCHANGED << context, storeVars >>

Next ==
  \/ ManagerSteps \/ ManagerActivates \/ StoreReads \/ GatewayReads \/ GatewaySteps
  \/ AnswerQuery \/ AnswerRecord \/ AnswerReadiness \/ ServeStray
  \/ StoreCrashes \/ GatewayCrashes

(* A run that was published is activated in the same constructor, the      *)
(* context is published twice a second, the gateway polls once a second,   *)
(* and a live node answers; runs need not end.                             *)
Fairness ==
  /\ WF_vars(ManagerActivates) /\ WF_vars(StoreReads) /\ WF_vars(GatewayReads)
  /\ WF_vars(AnswerQuery) /\ WF_vars(AnswerRecord) /\ WF_vars(AnswerReadiness)
  /\ WF_vars(QueryDone /\ UNCHANGED << context, storeVars, stray, crashes >>)
  /\ WF_vars(RecordDone /\ UNCHANGED << context, storeVars, stray, crashes >>)
  /\ WF_vars(Poll /\ UNCHANGED << context, storeVars, stray, crashes >>)
  /\ WF_vars(ReadinessDone /\ UNCHANGED << context, storeVars, stray, crashes >>)

Spec == Init /\ [][Next]_vars /\ Fairness

(* Values: contexts, rows, calls and requests are of their sets. *)
TypeOK ==
  /\ ContextTypeOK /\ StoreTypeOK /\ GatewayTypeOK
  /\ stray \subseteq Calls({"asked"})
  /\ crashes \in 0 .. MaxCrashes

(* The gateway converts the times of a run with the mapping that is on     *)
(* disk, also when two gateways have proposed an anchor for it.            *)
MappingAgrees ==
  gmapping.run # 0 => mappings[gmapping.run] = MappingRow(gmapping)

(* The dependency "time_mapping" is up only with a mapping of the run the  *)
(* gateway shows.                                                          *)
ReadyMeansMapped ==
  timeReady => gcontext.run = 0 \/ gmapping.run = gcontext.run

(* While nothing crashes, a run the gateway has seen STARTING gets its     *)
(* mapping, unless it ends first or another begins.                        *)
RunGetsMapping ==
  \A r \in Runs :
    (r \in creating) ~> \/ gmapping.run = r \/ crashes > 0
                        \/ context.run # r \/ context.life = "ENDED"
=============================================================================
