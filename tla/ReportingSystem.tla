---------------------------- MODULE ReportingSystem ----------------------------
(***************************************************************************)
(* A report between the task manager, the report node and the evidence     *)
(* node: what a report is made of, and what becomes of its artifacts when  *)
(* runs end, the disk is full and the evidence node crashes.  Besides the  *)
(* report node there is a client of the evidence services that repeats its *)
(* requests and may use an id twice.  Time mappings are in MappingSystem.  *)
(***************************************************************************)
EXTENDS ReportGenerator

CONSTANTS
  ClientIds, ClientContents,
  MaxCrashes

ASSUME ClientAssumption ==
  ClientIds \subseteq Ids /\ ClientContents \subseteq Contents /\ MaxCrashes \in Nat

VARIABLES
  snapshot,      (* the task list the task manager publishes               *)
  crashes        (* of the evidence node                                   *)

vars == << context, storeVars, reporterVars, snapshot, crashes >>

NoTasks == [run |-> 0, succeeded |-> FALSE]

Init == ContextInit /\ StoreInit /\ ReporterInit /\ snapshot = NoTasks /\ crashes = 0

ManagerStarts ==
  /\ StartRun
  /\ snapshot' = [run |-> context'.run, succeeded |-> FALSE]
  /\ UNCHANGED << storeVars, reporterVars, crashes >>

ManagerActivates ==
  /\ ActivateRun
  /\ UNCHANGED << storeVars, reporterVars, snapshot, crashes >>

ManagerEnds ==
  /\ EndRun
  /\ \E succeeded \in BOOLEAN : snapshot' = [snapshot EXCEPT !.succeeded = succeeded]
  /\ UNCHANGED << storeVars, reporterVars, crashes >>

StoreReads ==
  /\ context.run # 0 /\ StoreObserves(context)
  /\ UNCHANGED << context, reporterVars, snapshot, crashes >>

(* The topics of the report node; risks and alerts are of a run that has   *)
(* been active.  Bound: nothing is read after the last of MaxReports.      *)
Evaluated == {r \in Runs : r < context.run \/ (r = context.run /\ context.life # "STARTING")}

ReporterReads ==
  /\ reports < MaxReports
  /\ \/ context.run # 0 /\ ReporterObserves(context)
     \/ context.run # 0 /\ ObserveTasks(snapshot)
     \/ \E r \in Evaluated, complete \in BOOLEAN :
          r >= risks.run /\ ObserveRisks([run |-> r, complete |-> complete])
     \/ \E r \in Evaluated : ObserveAlert(r)
     \/ ObserveOdometry
  /\ UNCHANGED << context, storeVars, snapshot, crashes >>

ReporterWorks ==
  /\ \/ AutomaticReport
     \/ \E r \in Runs : ClientReport(r) \/ DiagnosticBundle(r)
  /\ UNCHANGED << context, storeVars, snapshot, crashes >>

(* The lifecycles of store_evidence and of freeze_evidence. *)
Stored == {"ACTIVE", "ENDING"}
Frozen == {"ACTIVE"}

(* The next artifact arrives at the evidence node, and is answered. *)
StoreArtifact ==
  /\ submitted # << >>
  /\ \E accepted \in BOOLEAN : StoreEvidence(Head(submitted), Stored, accepted)
  /\ StoreAnswers
  /\ UNCHANGED << context, snapshot, crashes >>

(* A client freezes an image, for the revision the evidence node has. *)
ClientRequests ==
  { [id |-> i, run |-> r, rev |-> contexts[r].rev, content |-> c] :
      i \in ClientIds, r \in Runs, c \in ClientContents }

StoreForClient ==
  /\ \E q \in ClientRequests, accepted \in BOOLEAN : StoreEvidence(q, Frozen, accepted)
  /\ UNCHANGED << context, reporterVars, snapshot, crashes >>

(* The evidence node dies, perhaps in a request; those on their way are    *)
(* lost.                                                                   *)
StoreCrashes ==
  /\ crashes < MaxCrashes /\ crashes' = crashes + 1
  /\ \/ StoreDies
     \/ submitted # << >> /\ StoreDiesWriting(Head(submitted), Stored)
     \/ \E q \in ClientRequests : StoreDiesWriting(q, Frozen)
  /\ submitted' = << >>
  /\ UNCHANGED << context, observedVars, automatic, reports, snapshot >>

Next ==
  \/ ManagerStarts \/ ManagerActivates \/ ManagerEnds
  \/ StoreReads \/ ReporterReads \/ ReporterWorks
  \/ StoreArtifact \/ StoreForClient \/ StoreCrashes

Spec == Init /\ [][Next]_vars

(* Values: contexts, observations, rows and files are of their sets. *)
TypeOK ==
  /\ ContextTypeOK /\ StoreTypeOK /\ ReporterTypeOK
  /\ crashes \in 0 .. MaxCrashes

(* A row of the catalogue is never without its bytes, whatever crashed,    *)
(* and the evidence revisions of a run are 1 up to the number of its rows. *)
CatalogueHasBytes ==
  /\ \A i \in Ids : evidence[i] # NoRow => object[evidence[i].content] = "whole"
  /\ \A r \in Runs :
       LET rows == {i \in Ids : evidence[i].run = r}
       IN  {evidence[i].n : i \in rows} = 1 .. Cardinality(rows)

(* Evidence is immutable: a row stays what it was, and so do its bytes,    *)
(* when a request is repeated or its id is used again.                     *)
EvidenceStays ==
  [][\A i \in Ids : evidence[i] # NoRow =>
       evidence'[i] = evidence[i] /\ object'[evidence[i].content] = object[evidence[i].content]]_vars

(* A report names one run, and everything in it is of that run: although   *)
(* its context, tasks, risks and alerts come on four topics.               *)
ReportOfOneRun ==
  \A i \in DOMAIN submitted : submitted[i].of \subseteq {submitted[i].run}

(* "A successful run must have an HTML, a PDF and an evidence archive"     *)
(* (docs/TEST_ACCEPTANCE.md): a mission is marked as reported only with    *)
(* its three artifacts stored or on their way, at least when the evidence  *)
(* node has read what there is to read about the run.                      *)
AutomaticKept ==
  \A r \in Runs :
    automatic[r] # 0 /\ context = [run |-> r, rev |-> contexts[r].rev, life |-> contexts[r].life] =>
    \A i \in DOMAIN Formats :
      \/ evidence[<< automatic[r], Formats[i] >>] # NoRow
      \/ \E k \in DOMAIN submitted : submitted[k].id = << automatic[r], Formats[i] >>
=============================================================================
