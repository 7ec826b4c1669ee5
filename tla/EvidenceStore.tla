----------------------------- MODULE EvidenceStore -----------------------------
(***************************************************************************)
(* The evidence node and its store (evidence_store_node.py,                *)
(* evidence_store.py): objects on disk under the digest of their content,  *)
(* an SQLite catalogue of evidence and of run time mappings, and, in       *)
(* memory, the run contexts the node has seen.  The node has one thread: a *)
(* service is one action, unless the process dies in it.                   *)
(*                                                                         *)
(* A content stands for its digest, and metadata, media type and size for  *)
(* a part of it.  Requests are well formed; the others are answered and    *)
(* change nothing.                                                         *)
(***************************************************************************)
EXTENDS RunContexts, FiniteSets

CONSTANTS
  Ids,           (* evidence ids                                           *)
  Contents, NoContent,
  Anchors        (* pairs of ROS time and UTC, one per gateway process:    *)
                 (* it records no second one unless the first was refused  *)

ASSUME StoreAssumption == NoContent \notin Contents /\ Anchors \subseteq Nat \ {0}

VARIABLES
  object,        (* the file of each content                               *)
  evidence,      (* the catalogue; n is the evidence revision, 0 no row    *)
  mappings,      (* run_time_mappings; rev 0 is no row                     *)
  contexts,      (* _contexts: per run, the last revision and lifecycle    *)
  currentRun     (* _current_run_id, 0 for none                            *)

diskVars  == << object, evidence, mappings >>
memoryVars == << contexts, currentRun >>
storeVars == << diskVars, memoryVars >>

Lives     == {"STARTING", "ACTIVE", "ENDING", "ENDED"}
NoRow     == [run |-> 0, rev |-> 0, content |-> NoContent, n |-> 0]
NoMapping == [rev |-> 0, anchor |-> 0]
Unseen    == [rev |-> 0, life |-> "ENDED"]

StoreInit ==
  /\ object = [c \in Contents |-> "absent"]
  /\ evidence = [i \in Ids |-> NoRow]
  /\ mappings = [r \in Runs |-> NoMapping]
  /\ contexts = [r \in Runs |-> Unseen] /\ currentRun = 0

(* observe_run_context; c has a run, a revision and a lifecycle. *)
StoreObserves(c) ==
  /\ c.rev >= contexts[c.run].rev
  /\ contexts' = [contexts EXCEPT ![c.run] = [rev |-> c.rev, life |-> c.life]]
  /\ currentRun' = IF c.life \in {"ACTIVE", "ENDING"} THEN c.run
                   ELSE IF currentRun = c.run THEN 0 ELSE currentRun
  /\ UNCHANGED diskVars

(* _run_context_matches *)
Matches(run, rev, lives) ==
  contexts[run].rev = rev /\ contexts[run].life \in lives

(* get_readiness *)
TimeMappingReady == currentRun # 0 /\ mappings[currentRun] # NoMapping

(* The row of record_run_time_mapping: the first one stays, an equal one   *)
(* is accepted, another one refused.                                       *)
MappingRow(q) == [rev |-> q.rev, anchor |-> q.anchor]

MappingAccepted(q) ==
  /\ Matches(q.run, q.rev, {"ACTIVE"})
  /\ mappings[q.run] \in {NoMapping, MappingRow(q)}

RecordMapping(q, accepted) ==
  /\ accepted = MappingAccepted(q)
  /\ mappings' = IF accepted THEN [mappings EXCEPT ![q.run] = MappingRow(q)] ELSE mappings
  /\ UNCHANGED << object, evidence, memoryVars >>

(* Mutant of NextRevision: without the increment. *)
LastRevision(run) == Cardinality({i \in Ids : evidence[i].run = run})

(* SELECT MAX(evidence_revision) + 1 of the run. *)
NextRevision(run) ==
  LET used == {0} \cup {evidence[i].n : i \in {j \in Ids : evidence[j].run = run}}
  IN  (CHOOSE n \in used : \A m \in used : m <= n) + 1

(* The file of store_bytes: a file that is there must have the content. *)
ObjectUsable(q) == object[q.content] # "partial"

RowMatches(q) ==
  /\ evidence[q.id].run = q.run /\ evidence[q.id].rev = q.rev
  /\ evidence[q.id].content = q.content

(* Mutant of Catalogued: an id that is there is overwritten. *)
Overwritten(q) ==
  [evidence EXCEPT ![q.id] = [run |-> q.run, rev |-> q.rev, content |-> q.content,
                              n |-> NextRevision(q.run)]]

(* The catalogue after a request; an id keeps its first row. *)
Catalogued(q) ==
  IF evidence[q.id] # NoRow THEN evidence
  ELSE [evidence EXCEPT ![q.id] = [run |-> q.run, rev |-> q.rev, content |-> q.content,
                                   n |-> NextRevision(q.run)]]

(* Mutant of StoreEvidence: the row first, the file for the accepted.      *)
RowBeforeObject(q, lives, accepted) ==
  /\ Matches(q.run, q.rev, lives)
  /\ evidence' = Catalogued(q)
  /\ accepted = (ObjectUsable(q) /\ (evidence[q.id] = NoRow \/ RowMatches(q)))
  /\ object' = IF accepted THEN [object EXCEPT ![q.content] = "whole"] ELSE object
  /\ UNCHANGED << mappings, memoryVars >>

(* store_evidence (lives ACTIVE and ENDING), freeze_evidence (ACTIVE) and  *)
(* store_bytes: refused for the run context or for a file that is not the  *)
(* content; else the file is there from now on, also when the id turns out *)
(* to be taken.                                                            *)
StoreEvidence(q, lives, accepted) ==
  \/ /\ ~Matches(q.run, q.rev, lives) \/ ~ObjectUsable(q)
     /\ accepted = FALSE
     /\ UNCHANGED storeVars
  \/ /\ Matches(q.run, q.rev, lives) /\ ObjectUsable(q)
     /\ object' = [object EXCEPT ![q.content] = "whole"]
     /\ evidence' = Catalogued(q)
     /\ accepted = (evidence[q.id] = NoRow \/ RowMatches(q))
     /\ UNCHANGED << mappings, memoryVars >>

(* The process dies.  What it had begun to write for q stays: a part of    *)
(* the file, or the file without its row.                                  *)
StoreDies ==
  /\ contexts' = [r \in Runs |-> Unseen] /\ currentRun' = 0
  /\ UNCHANGED diskVars

StoreDiesWriting(q, lives) ==
  /\ Matches(q.run, q.rev, lives) /\ object[q.content] = "absent"
  /\ \E left \in {"partial", "whole"} : object' = [object EXCEPT ![q.content] = left]
  /\ contexts' = [r \in Runs |-> Unseen] /\ currentRun' = 0
  /\ UNCHANGED << evidence, mappings >>

Rows        == [run : Runs, rev : Nat, content : Contents, n : Nat \ {0}]
MappingRows == [rev : Nat, anchor : Anchors]

StoreTypeOK ==
  /\ object \in [Contents -> {"absent", "partial", "whole"}]
  /\ evidence \in [Ids -> Rows \cup {NoRow}]
  /\ mappings \in [Runs -> MappingRows \cup {NoMapping}]
  /\ contexts \in [Runs -> [rev : Nat, life : Lives]]
  /\ currentRun \in Runs \cup {0}
=============================================================================
