----------------------------- MODULE TimeMapping -----------------------------
(***************************************************************************)
(* How the gateway gets the time mapping of a run (ros_adapter.py): it     *)
(* asks the evidence node, and for a run it saw STARTING it records one    *)
(* itself.  Three calls may be in flight, one of each service; nothing     *)
(* times out, so the call to a node that died stays in flight.  All        *)
(* callbacks are in one exclusive group.                                   *)
(***************************************************************************)
EXTENDS EvidenceStore

VARIABLES
  process,       (* of the gateway, from 1                                 *)
  gcontext,      (* RosStateProjector._context; run 0 before the first     *)
  gmapping,      (* RosStateProjector._time_mapping; run 0 is none         *)
  creating,      (* _mapping_creation_runs                                 *)
  timeReady,     (* ready_dependencies["time_mapping"]                     *)
  query,         (* the call of query_run_time_mapping                     *)
  record,        (* the call of record_run_time_mapping                    *)
  readiness      (* the call of /reporting/readiness                       *)

projected   == << gcontext, gmapping, creating, timeReady >>
gatewayVars == << process, projected, query, record, readiness >>

Unmapped   == [run |-> 0, rev |-> 0, anchor |-> 0]
Idle       == [state |-> "idle", run |-> 0, rev |-> 0, anchor |-> 0]

GatewayInit ==
  /\ process = 1
  /\ gcontext = NoContext
  /\ gmapping = Unmapped
  /\ creating = {}
  /\ timeReady = FALSE
  /\ query = Idle /\ record = Idle /\ readiness = "idle"

(* _ensure_time_mapping: one query at a time, if the service is there. *)
Ensure(c, there) ==
  query' = IF query = Idle /\ there THEN [state |-> "asked", run |-> c.run, rev |-> c.rev, anchor |-> 0]
                           ELSE query

(* Mutant of Projects: the readiness of the previous run stays. *)
ProjectsKeepingReady(c) ==
  /\ gcontext' = c
  /\ IF c.run = gcontext.run THEN UNCHANGED << gmapping, timeReady >>
     ELSE gmapping' = Unmapped /\ UNCHANGED timeReady

(* on_run_context *)
Projects(c) ==
  /\ gcontext' = c
  /\ IF c.run = gcontext.run THEN UNCHANGED << gmapping, timeReady >>
     ELSE gmapping' = Unmapped /\ timeReady' = FALSE

(* _on_context; an older revision of the same run is dropped. *)
GatewayObserves(c) ==
  /\ c.run = gcontext.run => c.rev >= gcontext.rev
  /\ Projects(c)
  /\ IF c.life = "STARTING" THEN creating' = creating \cup {c.run} /\ UNCHANGED query
     ELSE /\ \E there \in BOOLEAN : Ensure(c, there)
          /\ creating' = IF c.life = "ENDED" THEN creating \ {c.run} ELSE creating
  /\ UNCHANGED << process, record, readiness >>

(* set_time_mapping: only that of the projected run is taken. *)
SetTimeMapping(q) ==
  gmapping' = IF q.run = gcontext.run THEN [run |-> q.run, rev |-> q.rev, anchor |-> q.anchor]
                                      ELSE gmapping

(* Mutant of QueryDone: the record is sent without its anchor. *)
QueryDoneUnanchored ==
  /\ query.state \in {"found", "missing"} /\ query' = Idle
  /\ IF query.state = "found"
     THEN creating' = creating \ {query.run} /\ SetTimeMapping(query) /\ UNCHANGED record
     ELSE /\ query.run \in creating /\ record = Idle
          /\ record' = [query EXCEPT !.state = "asked"]
          /\ UNCHANGED << creating, gmapping >>
  /\ UNCHANGED << process, gcontext, timeReady, readiness >>

(* Mutant of QueryDone: the anchor is recorded whoever started the run,    *)
(* and taken without waiting for the answer.                               *)
QueryDoneTaking ==
  /\ query.state \in {"found", "missing"} /\ query' = Idle
  /\ \/ /\ query.state = "found"
        /\ creating' = creating \ {query.run} /\ SetTimeMapping(query)
        /\ UNCHANGED record
     \/ /\ query.state = "missing" /\ record = Idle
        /\ record' = [query EXCEPT !.state = "asked", !.anchor = process]
        /\ SetTimeMapping([query EXCEPT !.anchor = process])
        /\ UNCHANGED creating
     \/ query.state = "missing" /\ record # Idle /\ UNCHANGED << creating, gmapping, record >>
  /\ UNCHANGED << process, gcontext, timeReady, readiness >>

(* _mapping_query_done, with the context the query was made for. *)
QueryDone ==
  /\ query.state \in {"found", "missing"} /\ query' = Idle
  /\ \/ /\ query.state = "found"
        /\ creating' = creating \ {query.run} /\ SetTimeMapping(query)
        /\ UNCHANGED record
     \/ /\ query.state = "missing" /\ query.run \in creating /\ record = Idle
        /\ record' = [query EXCEPT !.state = "asked", !.anchor = process]
        /\ UNCHANGED << creating, gmapping >>
     \/ /\ query.state = "missing" /\ (query.run \notin creating \/ record # Idle)
        /\ UNCHANGED << creating, gmapping, record >>
  /\ UNCHANGED << process, gcontext, timeReady, readiness >>

(* Mutant of RecordDone: a refused record stays pending. *)
RecordDoneOnce ==
  /\ record.state = "accepted" /\ record' = Idle
  /\ creating' = creating \ {record.run} /\ SetTimeMapping(record)
  /\ UNCHANGED << process, gcontext, timeReady, query, readiness >>

(* _mapping_record_done *)
RecordDone ==
  /\ record.state \in {"accepted", "refused"} /\ record' = Idle
  /\ IF record.state = "accepted"
     THEN creating' = creating \ {record.run} /\ SetTimeMapping(record)
     ELSE UNCHANGED << creating, gmapping >>
  /\ UNCHANGED << process, gcontext, timeReady, query, readiness >>

(* _poll, every second: it asks for the mapping and for the readiness; a   *)
(* readiness call in flight counts as not ready.                           *)
Poll ==
  /\ IF gcontext.run # 0 THEN Ensure(gcontext, TRUE) ELSE UNCHANGED query
  /\ IF readiness = "idle" THEN readiness' = "asked" /\ UNCHANGED timeReady
                           ELSE timeReady' = FALSE /\ UNCHANGED readiness
  /\ UNCHANGED << process, gcontext, gmapping, creating, record >>

(* The same, with the services of the evidence node not ready. *)
PollUnready ==
  /\ timeReady' = FALSE
  /\ UNCHANGED << process, gcontext, gmapping, creating, query, record, readiness >>

(* _readiness_done and set_reporting_readiness. *)
ReadinessDone ==
  /\ readiness \in {"ready", "unready"} /\ readiness' = "idle"
  /\ timeReady' = (readiness = "ready" /\ (gcontext.run = 0 \/ gmapping.run = gcontext.run))
  /\ UNCHANGED << process, gcontext, gmapping, creating, query, record >>

(* A call whose server died stays in flight for ever. *)
LoseCalls ==
  /\ query'  = IF query.state = "asked" THEN [query EXCEPT !.state = "dead"] ELSE query
  /\ record' = IF record.state = "asked" THEN [record EXCEPT !.state = "dead"] ELSE record
  /\ readiness' = IF readiness = "asked" THEN "dead" ELSE readiness
  /\ UNCHANGED << process, gcontext, gmapping, creating, timeReady >>

GatewayDies ==
  /\ process' = process + 1
  /\ gcontext' = NoContext /\ gmapping' = Unmapped /\ creating' = {} /\ timeReady' = FALSE
  /\ query' = Idle /\ record' = Idle /\ readiness' = "idle"

Calls(states) ==
  [state : {"idle", "dead"} \cup states, run : Runs \cup {0}, rev : Nat,
   anchor : Anchors \cup {0}]

GatewayTypeOK ==
  /\ process \in Anchors
  /\ gcontext \in PublishedContexts
  /\ gmapping \in [run : Runs \cup {0}, rev : Nat, anchor : Anchors \cup {0}]
  /\ creating \subseteq Runs
  /\ timeReady \in BOOLEAN
  /\ query \in Calls({"asked", "found", "missing"})
  /\ record \in Calls({"asked", "accepted", "refused"})
  /\ readiness \in {"idle", "asked", "ready", "unready", "dead"}
=============================================================================
