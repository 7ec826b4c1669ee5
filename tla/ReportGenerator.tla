---------------------------- MODULE ReportGenerator ----------------------------
(***************************************************************************)
(* The report node (report_generator_node.py, report_generator.py): what   *)
(* it has observed of a run, the reports and diagnostic bundles it makes   *)
(* of it, and the store requests it sends without waiting for the answers. *)
(* Its callbacks share one exclusive group, whatever the four threads of   *)
(* its executor.                                                           *)
(*                                                                         *)
(* A run has one mission.  Of a message the model keeps the run it is of,  *)
(* of the task list also whether the mission succeeded with an asset of    *)
(* its own for every task, of the risks whether every asset is evaluated.  *)
(* The pages and the archive are functions of that.                        *)
(***************************************************************************)
EXTENDS EvidenceStore, Sequences

CONSTANT
  MaxReports     (* bound: reports and bundles, each with a fresh id       *)

(* An artifact is named and known by its report and its format. *)
ASSUME ReportAssumption ==
  /\ MaxReports \in Nat
  /\ (1 .. MaxReports) \X {"evidence", "html", "pdf", "diagnostic"} \subseteq Ids \cap Contents

VARIABLES
  rcontext,      (* _context; run 0 before the first                       *)
  risks,         (* _risks                                                 *)
  tasks,         (* _tasks                                                 *)
  collected,     (* _alerts and _trajectory: the runs they are of          *)
  automatic,     (* _automatic_reports: per run the id of its report, or 0 *)
  reports,       (* how many ids were used                                 *)
  submitted      (* StoreEvidence requests on their way, served in order   *)

observedVars == << rcontext, risks, tasks, collected >>
reporterVars == << observedVars, automatic, reports, submitted >>

Formats == << "evidence", "html", "pdf" >>

(* What a client may ask for: sorted, without repetition, not empty. *)
FormatLists ==
  { Formats, << "evidence", "html" >>, << "evidence", "pdf" >>, << "html", "pdf" >>,
    << "evidence" >>, << "html" >>, << "pdf" >> }

Bundle  == << "diagnostic" >>

ReporterInit ==
  /\ rcontext = NoContext
  /\ risks = [run |-> 0, complete |-> FALSE]
  /\ tasks = [run |-> 0, succeeded |-> FALSE]
  /\ collected = {}
  /\ automatic = [r \in Runs |-> 0] /\ reports = 0 /\ submitted = << >>

(* Mutant of ReporterObserves: what was collected stays for the next run. *)
ReporterKeeps(c) ==
  /\ c.run = rcontext.run => c.rev >= rcontext.rev
  /\ rcontext' = c
  /\ UNCHANGED << collected, risks, tasks, automatic, reports, submitted >>

(* observe_run_context *)
ReporterObserves(c) ==
  /\ c.run = rcontext.run => c.rev >= rcontext.rev
  /\ rcontext' = c
  /\ IF c.run = rcontext.run THEN UNCHANGED collected ELSE collected' = {}
  /\ UNCHANGED << risks, tasks, automatic, reports, submitted >>

(* observe_risks, observe_tasks: any run. *)
ObserveRisks(m) ==
  risks' = m /\ UNCHANGED << rcontext, tasks, collected, automatic, reports, submitted >>

ObserveTasks(m) ==
  tasks' = m /\ UNCHANGED << rcontext, risks, collected, automatic, reports, submitted >>

(* observe_alert: an alert of another run is dropped. *)
ObserveAlert(run) ==
  /\ run = rcontext.run
  /\ collected' = collected \cup {run}
  /\ UNCHANGED << rcontext, risks, tasks, automatic, reports, submitted >>

(* observe_odometry: a sample has no run, it goes to the one at hand. *)
ObserveOdometry ==
  /\ rcontext.life = "ACTIVE"
  /\ collected' = collected \cup {rcontext.run}
  /\ UNCHANGED << rcontext, risks, tasks, automatic, reports, submitted >>

(* What a report is made of. *)
Sources == {risks.run, tasks.run} \cup collected

(* _submit_artifact for the formats one after the other: it ends at the    *)
(* first that finds no service or no room on disk; the ones before are on  *)
(* their way.                                                              *)
Submit(formats, run, of, accepted) ==
  \E done \in 0 .. Len(formats) :
    /\ accepted = (done = Len(formats))
    /\ reports' = reports + 1
    /\ submitted' = submitted \o
         [i \in 1 .. done |-> [id |-> << reports + 1, formats[i] >>, run |-> run,
                               rev |-> rcontext.rev, content |-> << reports + 1, formats[i] >>,
                               of |-> of]]

(* generate_report, of which a refused request, and a page that cannot be  *)
(* made of what was observed, change nothing and are left out.             *)
Reportable(run) ==
  /\ rcontext.run = run /\ rcontext.life \in {"ACTIVE", "ENDING", "ENDED"}
  /\ risks.run = run /\ tasks.run = run

GenerateReport(formats, run, accepted) ==
  /\ reports < MaxReports
  /\ Reportable(run) /\ Submit(formats, run, Sources, accepted)

(* The request of a client. *)
ClientReport(run) ==
  /\ \E formats \in FormatLists, accepted \in BOOLEAN : GenerateReport(formats, run, accepted)
  /\ UNCHANGED << observedVars, automatic >>

(* generate_automatic_report, every 0.5 s: once per mission, when it       *)
(* succeeded, each of its tasks has an asset of its own and every asset is *)
(* evaluated.                                                              *)
AutomaticReport ==
  /\ rcontext.run # 0 /\ tasks.run # 0 /\ risks.run # 0
  /\ automatic[tasks.run] = 0
  /\ tasks.succeeded /\ risks.complete
  /\ \E accepted \in BOOLEAN :
       /\ GenerateReport(Formats, tasks.run, accepted)
       /\ automatic' = IF accepted THEN [automatic EXCEPT ![tasks.run] = reports + 1] ELSE automatic
  /\ UNCHANGED observedVars

(* generate_diagnostic_bundle: only the context must match. *)
DiagnosticBundle(run) ==
  /\ reports < MaxReports
  /\ rcontext.run = run /\ rcontext.life \in {"ACTIVE", "ENDING", "ENDED"}
  /\ \E accepted \in BOOLEAN : Submit(Bundle, run, {}, accepted)
  /\ UNCHANGED << observedVars, automatic >>

(* _on_store_complete: the answer is logged. *)
StoreAnswers ==
  submitted' = Tail(submitted) /\ UNCHANGED << observedVars, automatic, reports >>

ReporterTypeOK ==
  /\ rcontext \in PublishedContexts
  /\ risks \in [run : Runs \cup {0}, complete : BOOLEAN]
  /\ tasks \in [run : Runs \cup {0}, succeeded : BOOLEAN]
  /\ collected \subseteq Runs
  /\ automatic \in [Runs -> 0 .. MaxReports]
  /\ reports \in 0 .. MaxReports
=============================================================================
