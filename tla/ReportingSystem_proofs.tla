------------------------ MODULE ReportingSystem_proofs ------------------------
(***************************************************************************)
(* What holds of ReportingSystem for any number of runs, reports, clients  *)
(* and crashes: the catalogue has the bytes of its rows and numbers them   *)
(* without a gap, evidence never changes, and a report is of one run.      *)
(***************************************************************************)
EXTENDS ReportingSystem, FiniteSetTheorems, SequenceTheorems, TLAPS

(***************************************************************************)
(* The evidence revisions of a run.                                        *)
(***************************************************************************)
RowsOf(r) == {i \in Ids : evidence[i].run = r}

Numbered ==
  \A r \in Runs :
    /\ IsFiniteSet(RowsOf(r))
    /\ {evidence[i].n : i \in RowsOf(r)} = 1 .. Cardinality(RowsOf(r))

EvidenceTypeOK == evidence \in [Ids -> Rows \cup {NoRow}]

StoreRequests == [id : Ids, run : Runs, rev : Nat, content : Contents]

LEMMA NoRowFacts == /\ \A row \in Rows : row.run \in Runs /\ row # NoRow
                    /\ NoRow.run \notin Runs
  BY RunsAssumption DEF Rows, NoRow

(* The number of the next row of a run follows the number of its rows.     *)
LEMMA NextRevisionIs ==
  ASSUME Numbered, NEW run \in Runs
  PROVE  /\ Cardinality(RowsOf(run)) \in Nat
         /\ NextRevision(run) = Cardinality(RowsOf(run)) + 1
<1> DEFINE card == Cardinality(RowsOf(run))
           used == {0} \cup {evidence[i].n : i \in {j \in Ids : evidence[j].run = run}}
<1>1. card \in Nat
  BY FS_CardinalityType DEF Numbered
<1>2. used = 0 .. card
  <2>1. used = {0} \cup 1 .. card
    BY DEF Numbered, RowsOf
  <2> HIDE DEF used, card
  <2> QED BY <1>1, <2>1
<1>3. (CHOOSE n \in used : \A m \in used : m <= n) = card
  <2>1. card \in used /\ \A m \in used : m <= card
    BY <1>1, <1>2
  <2>2. \A n \in used : (\A m \in used : m <= n) => n = card
    BY <1>1, <1>2
  <2> HIDE DEF used, card
  <2> QED BY <2>1, <2>2
<1> QED BY <1>1, <1>3 DEF NextRevision

(* Nothing is renumbered. *)
LEMMA NumberedStays == ASSUME Numbered, evidence' = evidence PROVE Numbered'
<1> SUFFICES ASSUME NEW r \in Runs
             PROVE  /\ IsFiniteSet(RowsOf(r)')
                    /\ {evidence'[i].n : i \in RowsOf(r)'} = 1 .. Cardinality(RowsOf(r)')
  BY DEF Numbered
<1>1. RowsOf(r)' = RowsOf(r)
  BY DEF RowsOf
<1> QED BY <1>1 DEF Numbered

(* A request that is catalogued keeps the numbering and every row.         *)
LEMMA CataloguedKeeps ==
  ASSUME EvidenceTypeOK, Numbered, NEW q, q.id \in Ids, q.run \in Runs, q.rev \in Nat,
         q.content \in Contents, evidence' = Catalogued(q)
  PROVE  /\ EvidenceTypeOK' /\ Numbered'
         /\ \A i \in Ids : evidence[i] # NoRow => evidence'[i] = evidence[i]
         /\ \A i \in Ids : evidence[i] = NoRow /\ evidence'[i] # NoRow
              => evidence'[i].content = q.content
<1>1. CASE evidence[q.id] # NoRow
  <2>1. evidence' = evidence
    BY <1>1 DEF Catalogued
  <2> QED BY <2>1, NumberedStays DEF EvidenceTypeOK
<1>2. CASE evidence[q.id] = NoRow
  <2> DEFINE card == Cardinality(RowsOf(q.run))
             new  == [run |-> q.run, rev |-> q.rev, content |-> q.content, n |-> card + 1]
  <2>1. card \in Nat /\ evidence' = [evidence EXCEPT ![q.id] = new]
    BY <1>2, NextRevisionIs DEF Catalogued
  <2>2. new \in Rows /\ new # NoRow
    BY <2>1, NoRowFacts DEF Rows
  <2>3. EvidenceTypeOK'
    BY <2>1, <2>2 DEF EvidenceTypeOK
  <2>4. /\ evidence'[q.id] = new
        /\ \A i \in Ids \ {q.id} : evidence'[i] = evidence[i]
    BY <2>1 DEF EvidenceTypeOK
  <2>5. ASSUME NEW r \in Runs, r # q.run
        PROVE  /\ RowsOf(r)' = RowsOf(r)
               /\ {evidence'[i].n : i \in RowsOf(r)'} = {evidence[i].n : i \in RowsOf(r)}
    <3>1. new.run # r /\ evidence[q.id].run # r
      BY <1>2, <2>5, NoRowFacts
    <3>2. \A i \in Ids : evidence'[i].run = r <=> evidence[i].run = r
      BY <2>4, <3>1
    <3>3. RowsOf(r)' = RowsOf(r) /\ q.id \notin RowsOf(r)
      BY <3>1, <3>2 DEF RowsOf
    <3>4. \A i \in RowsOf(r) : evidence'[i].n = evidence[i].n
      BY <2>4, <3>3 DEF RowsOf
    <3> QED BY <3>3, <3>4
  <2>6. /\ RowsOf(q.run)' = RowsOf(q.run) \cup {q.id} /\ q.id \notin RowsOf(q.run)
        /\ {evidence'[i].n : i \in RowsOf(q.run)'}
             = {evidence[i].n : i \in RowsOf(q.run)} \cup {card + 1}
    <3>1. new.run = q.run /\ new.n = card + 1 /\ evidence[q.id].run # q.run
      BY <1>2, NoRowFacts
    <3>2. \A i \in Ids : evidence'[i].run = q.run <=> i = q.id \/ evidence[i].run = q.run
      BY <2>4, <3>1
    <3>3. RowsOf(q.run)' = RowsOf(q.run) \cup {q.id} /\ q.id \notin RowsOf(q.run)
      BY <3>1, <3>2 DEF RowsOf
    <3>4. \A i \in RowsOf(q.run) : evidence'[i].n = evidence[i].n
      BY <2>4, <3>3 DEF RowsOf
    <3>5. evidence'[q.id].n = card + 1
      BY <2>4, <3>1
    <3> DEFINE old == RowsOf(q.run)
    <3> HIDE DEF new, card, old
    <3>6. \A i \in old : evidence'[i].n = evidence[i].n
      BY <3>4 DEF old
    <3>7. {evidence'[i].n : i \in old \cup {q.id}} = {evidence[i].n : i \in old} \cup {card + 1}
      BY <3>5, <3>6
    <3> QED BY <3>3, <3>7 DEF old
  <2>7. IsFiniteSet(RowsOf(q.run)') /\ Cardinality(RowsOf(q.run)') = card + 1
    <3> DEFINE old == RowsOf(q.run)
    <3>1. IsFiniteSet(old)
      BY DEF Numbered
    <3>2. IsFiniteSet(old \cup {q.id})
          /\ Cardinality(old \cup {q.id}) = IF q.id \in old THEN Cardinality(old) ELSE Cardinality(old) + 1
      <4> HIDE DEF old
      <4> QED BY <3>1, FS_AddElement
    <3> QED BY <2>6, <3>2
  <2>8. {evidence'[i].n : i \in RowsOf(q.run)'} = 1 .. card + 1
    <3>1. {evidence[i].n : i \in RowsOf(q.run)} = 1 .. card
      BY DEF Numbered
    <3>2. (1 .. card) \cup {card + 1} = 1 .. card + 1
      BY <2>1
    <3> QED BY <2>6, <3>1, <3>2
  <2>9. Numbered'
    <3> SUFFICES ASSUME NEW r \in Runs
                 PROVE  /\ IsFiniteSet(RowsOf(r)')
                        /\ {evidence'[i].n : i \in RowsOf(r)'} = 1 .. Cardinality(RowsOf(r)')
      BY DEF Numbered
    <3>1. CASE r = q.run
      BY <3>1, <2>7, <2>8
    <3>2. CASE r # q.run
      BY <3>2, <2>5 DEF Numbered
    <3> QED BY <3>1, <3>2
  <2> QED BY <1>2, <2>2, <2>3, <2>4, <2>9
<1> QED BY <1>1, <1>2

(***************************************************************************)
(* Types.  A context is STARTING in revision 1 and ACTIVE in revision 2.   *)
(***************************************************************************)
ContextInv ==
  /\ context.life = "STARTING" => context.rev = 1 /\ context.run # 0
  /\ context.life = "ACTIVE" => context.rev = 2 /\ context.run # 0

(* What the report node sends, of one run each. *)
Artifact == [id : Ids, run : Runs, rev : Nat, content : Contents, of : SUBSET (Runs \cup {0})]
OfOneRun == {q \in Artifact : q.of \subseteq {q.run}}

ReporterInv ==
  /\ ReporterTypeOK
  /\ submitted \in Seq(OfOneRun)
  /\ collected \subseteq {rcontext.run}
  /\ rcontext.life = "ACTIVE" => rcontext.run # 0

(* Every row has its file. *)
StoreInv ==
  /\ StoreTypeOK /\ Numbered
  /\ \A i \in Ids : evidence[i] # NoRow => object[evidence[i].content] = "whole"

ReportingInv ==
  /\ ContextTypeOK /\ ContextInv /\ StoreInv /\ ReporterInv
  /\ snapshot \in [run : Runs \cup {0}, succeeded : BOOLEAN]
  /\ crashes \in 0 .. MaxCrashes

LEMMA ReportingInit == Init => ReportingInv
<1> SUFFICES ASSUME Init PROVE ReportingInv
  OBVIOUS
<1> USE DEF Init
<1>1. ContextTypeOK /\ ContextInv
  BY DEF ContextInit, NoContext, ContextTypeOK, ContextInv, PublishedContexts
<1>2. StoreTypeOK
  BY DEF StoreInit, StoreTypeOK, Unseen, Lives
<1>3. Numbered
  <2> SUFFICES ASSUME NEW r \in Runs
               PROVE  /\ IsFiniteSet(RowsOf(r))
                      /\ {evidence[i].n : i \in RowsOf(r)} = 1 .. Cardinality(RowsOf(r))
    BY DEF Numbered
  <2>1. RowsOf(r) = {}
    BY NoRowFacts DEF StoreInit, RowsOf
  <2> QED BY <2>1, FS_EmptySet
<1>4. StoreInv
  BY <1>2, <1>3 DEF StoreInv, StoreInit
<1>5. ReporterInv
  <2>1. << >> \in Seq(OfOneRun)
    BY EmptySeq
  <2> QED BY <2>1, ReportAssumption
    DEF ReporterInit, ReporterInv, ReporterTypeOK, NoContext, PublishedContexts
<1> QED BY <1>1, <1>4, <1>5, ClientAssumption DEF ReportingInv, NoTasks

(***************************************************************************)
(* The steps of the evidence node.                                         *)
(***************************************************************************)

(* A request that is served, and one that the node dies in, keep the       *)
(* catalogue in order and change neither a row nor the bytes of one.       *)
Immutable ==
  \A i \in Ids : evidence[i] # NoRow =>
    evidence'[i] = evidence[i] /\ object'[evidence[i].content] = object[evidence[i].content]

LEMMA StoreServes ==
  ASSUME StoreInv, NEW q, q.id \in Ids, q.run \in Runs, q.rev \in Nat, q.content \in Contents,
         NEW lives, NEW accepted, StoreEvidence(q, lives, accepted)
  PROVE  StoreInv' /\ Immutable
<1>1. CASE UNCHANGED storeVars
  BY <1>1, NumberedStays DEF storeVars, diskVars, memoryVars, StoreInv, StoreTypeOK, Immutable
<1>2. CASE /\ object' = [object EXCEPT ![q.content] = "whole"]
           /\ evidence' = Catalogued(q)
           /\ UNCHANGED << mappings, memoryVars >>
  <2>1. /\ EvidenceTypeOK' /\ Numbered'
        /\ \A i \in Ids : evidence[i] # NoRow => evidence'[i] = evidence[i]
        /\ \A i \in Ids : evidence[i] = NoRow /\ evidence'[i] # NoRow
              => evidence'[i].content = q.content
    BY <1>2, CataloguedKeeps DEF StoreInv, StoreTypeOK, EvidenceTypeOK
  <2>2. /\ object' \in [Contents -> {"absent", "partial", "whole"}]
        /\ object'[q.content] = "whole"
        /\ \A c \in Contents : object[c] = "whole" => object'[c] = "whole"
    BY <1>2 DEF StoreInv, StoreTypeOK
  <2>3. StoreTypeOK'
    BY <1>2, <2>1, <2>2 DEF StoreInv, StoreTypeOK, EvidenceTypeOK, memoryVars
  <2>4. \A i \in Ids : evidence[i] # NoRow => evidence[i].content \in Contents
    BY DEF StoreInv, StoreTypeOK, Rows
  <2>5. Immutable
    BY <2>1, <2>2, <2>4 DEF Immutable, StoreInv
  <2> QED BY <2>1, <2>2, <2>3, <2>4, <2>5 DEF StoreInv
<1> QED BY <1>1, <1>2 DEF StoreEvidence

LEMMA StoreForgets ==
  ASSUME StoreInv, UNCHANGED << evidence, mappings >>,
         object' \in [Contents -> {"absent", "partial", "whole"}],
         \A c \in Contents : object[c] = "whole" => object'[c] = "whole",
         contexts' = [r \in Runs |-> Unseen], currentRun' = 0
  PROVE  StoreInv' /\ Immutable
<1>1. StoreTypeOK' /\ Numbered'
  BY NumberedStays DEF StoreInv, StoreTypeOK, Unseen, Lives
<1>2. \A i \in Ids : evidence[i] # NoRow => evidence[i].content \in Contents
  BY DEF StoreInv, StoreTypeOK, Rows
<1> QED BY <1>1, <1>2 DEF StoreInv, Immutable

LEMMA StoreDiesKeeps ==
  ASSUME StoreInv,
         \/ StoreDies
         \/ \E q, lives : q.content \in Contents /\ StoreDiesWriting(q, lives)
  PROVE  StoreInv' /\ Immutable
<1>1. CASE StoreDies
  BY <1>1, StoreForgets DEF StoreDies, diskVars, StoreInv, StoreTypeOK
<1>2. ASSUME NEW q, NEW lives, q.content \in Contents, StoreDiesWriting(q, lives)
      PROVE  StoreInv' /\ Immutable
  <2>1. PICK left \in {"partial", "whole"} : object' = [object EXCEPT ![q.content] = left]
    BY <1>2 DEF StoreDiesWriting
  <2>2. object[q.content] = "absent" /\ UNCHANGED << evidence, mappings >>
        /\ contexts' = [r \in Runs |-> Unseen] /\ currentRun' = 0
    BY <1>2 DEF StoreDiesWriting
  <2>3. /\ object' \in [Contents -> {"absent", "partial", "whole"}]
        /\ \A c \in Contents : object[c] = "whole" => object'[c] = "whole"
    BY <2>1, <2>2 DEF StoreInv, StoreTypeOK
  <2> QED BY <2>2, <2>3, StoreForgets
<1> QED BY <1>1, <1>2

(***************************************************************************)
(* The steps of the report node.                                           *)
(***************************************************************************)

(* What is submitted names the run of the context, and nothing in it is of *)
(* another run.                                                            *)
LEMMA SubmitKeeps ==
  ASSUME ReporterInv, NEW formats \in FormatLists \cup {Bundle}, NEW run \in Runs,
         NEW of \in SUBSET {run}, reports < MaxReports, NEW accepted,
         Submit(formats, run, of, accepted)
  PROVE  submitted' \in Seq(OfOneRun) /\ reports' = reports + 1 /\ reports' \in 1 .. MaxReports
<1> PICK done \in 0 .. Len(formats) :
      /\ reports' = reports + 1
      /\ submitted' = submitted \o
           [i \in 1 .. done |-> [id |-> << reports + 1, formats[i] >>, run |-> run,
                                 rev |-> rcontext.rev, content |-> << reports + 1, formats[i] >>,
                                 of |-> of]]
  BY DEF Submit
<1> DEFINE artifact(i) == [id |-> << reports + 1, formats[i] >>, run |-> run,
                           rev |-> rcontext.rev, content |-> << reports + 1, formats[i] >>,
                           of |-> of]
           artifacts == [i \in 1 .. done |-> artifact(i)]
<1>1. reports' \in 1 .. MaxReports /\ rcontext.rev \in Nat
  BY ReportAssumption DEF ReporterInv, ReporterTypeOK, PublishedContexts
<1>2. done \in Nat /\ \A i \in 1 .. done : formats[i] \in {"evidence", "html", "pdf", "diagnostic"}
  BY DEF FormatLists, Formats, Bundle
<1>3. ASSUME NEW i \in 1 .. done PROVE artifact(i) \in OfOneRun
  <2>1. << reports + 1, formats[i] >> \in Ids \cap Contents
    BY <1>1, <1>2, ReportAssumption
  <2> QED BY <1>1, <2>1 DEF OfOneRun, Artifact
<1>4. artifacts \in Seq(OfOneRun)
  <2>1. artifacts \in [1 .. done -> OfOneRun]
    BY <1>3
  <2> HIDE DEF artifacts
  <2> QED BY <1>2, <2>1, SeqDef
<1>5. submitted \o artifacts \in Seq(OfOneRun)
  <2> HIDE DEF artifacts
  <2> QED BY <1>4, ConcatProperties DEF ReporterInv
<1> QED BY <1>1, <1>5

LEMMA SourcesOfOneRun ==
  ASSUME ReporterInv, NEW run, Reportable(run)
  PROVE  Sources \subseteq {run}
  BY DEF ReporterInv, Reportable, Sources

LEMMA ReporterSends ==
  ASSUME ReporterInv,
         \/ AutomaticReport
         \/ \E r \in Runs : ClientReport(r) \/ DiagnosticBundle(r)
  PROVE  ReporterInv'
<1>1. ASSUME UNCHANGED observedVars, submitted' \in Seq(OfOneRun), reports' \in 0 .. MaxReports,
             automatic' \in [Runs -> 0 .. MaxReports]
      PROVE  ReporterInv'
  BY <1>1 DEF ReporterInv, ReporterTypeOK, observedVars
<1>2. ASSUME NEW r \in Runs, ClientReport(r) PROVE ReporterInv'
  <2> PICK formats \in FormatLists, accepted \in BOOLEAN : GenerateReport(formats, r, accepted)
    BY <1>2 DEF ClientReport
  <2>1. submitted' \in Seq(OfOneRun) /\ reports' \in 1 .. MaxReports
    BY SourcesOfOneRun, SubmitKeeps DEF GenerateReport
  <2> QED BY <1>1, <1>2, <2>1 DEF ClientReport, ReporterInv, ReporterTypeOK
<1>3. ASSUME NEW r \in Runs, DiagnosticBundle(r) PROVE ReporterInv'
  <2> PICK accepted \in BOOLEAN : Submit(Bundle, r, {}, accepted)
    BY <1>3 DEF DiagnosticBundle
  <2>1. submitted' \in Seq(OfOneRun) /\ reports' \in 1 .. MaxReports
    BY <1>3, SubmitKeeps DEF DiagnosticBundle
  <2> QED BY <1>1, <1>3, <2>1 DEF DiagnosticBundle, ReporterInv, ReporterTypeOK
<1>4. CASE AutomaticReport
  <2> PICK accepted \in BOOLEAN :
         /\ GenerateReport(Formats, tasks.run, accepted)
         /\ automatic' = IF accepted THEN [automatic EXCEPT ![tasks.run] = reports + 1] ELSE automatic
    BY <1>4 DEF AutomaticReport
  <2>1. tasks.run \in Runs
    BY <1>4 DEF AutomaticReport, ReporterInv, ReporterTypeOK
  <2>2. /\ submitted' \in Seq(OfOneRun)
        /\ reports' = reports + 1 /\ reports' \in 1 .. MaxReports
    <3>1. Formats \in FormatLists \cup {Bundle}
      BY DEF FormatLists
    <3> QED BY <2>1, <3>1, SourcesOfOneRun, SubmitKeeps DEF GenerateReport
  <2>3. automatic' \in [Runs -> 0 .. MaxReports]
    <3>1. automatic \in [Runs -> 0 .. MaxReports]
      BY DEF ReporterInv, ReporterTypeOK
    <3>2. reports + 1 \in 0 .. MaxReports
      BY <2>2, ReportAssumption
    <3>3. [automatic EXCEPT ![tasks.run] = reports + 1] \in [Runs -> 0 .. MaxReports]
      BY <2>1, <3>1, <3>2
    <3> QED BY <3>1, <3>3
  <2> QED BY <1>1, <1>4, <2>2, <2>3 DEF AutomaticReport
<1> QED BY <1>2, <1>3, <1>4

LEMMA ReporterObservesKeeps ==
  ASSUME ReportingInv, ReporterReads
  PROVE  ReporterInv'
<1> USE DEF ReportingInv, ReporterInv, ReporterTypeOK
<1>1. CASE context.run # 0 /\ ReporterObserves(context)
  BY <1>1 DEF ReporterObserves, ContextTypeOK
<1>2. CASE ObserveTasks(snapshot)
  BY <1>2 DEF ObserveTasks
<1>3. CASE \E r \in Evaluated, complete \in BOOLEAN :
             r >= risks.run /\ ObserveRisks([run |-> r, complete |-> complete])
  BY <1>3 DEF ObserveRisks, Evaluated
<1>4. CASE \E r \in Evaluated : ObserveAlert(r)
  BY <1>4 DEF ObserveAlert, Evaluated
<1>5. CASE ObserveOdometry
  BY <1>5 DEF ObserveOdometry, PublishedContexts
<1> QED BY <1>1, <1>2, <1>3, <1>4, <1>5 DEF ReporterReads

(***************************************************************************)
(* Every step.                                                             *)
(***************************************************************************)
LEMMA HeadIsArtifact ==
  ASSUME submitted \in Seq(OfOneRun), submitted # << >>
  PROVE  Head(submitted) \in OfOneRun /\ Tail(submitted) \in Seq(OfOneRun)
  BY HeadTailProperties

LEMMA StoreObservesKeeps ==
  ASSUME StoreInv, ContextTypeOK, context.run # 0, StoreObserves(context)
  PROVE  StoreInv'
<1>1. context.run \in Runs /\ context.rev \in Nat /\ context.life \in Lives
  BY DEF ContextTypeOK, PublishedContexts, Lives
<1>2. Numbered'
  BY NumberedStays DEF StoreInv, StoreObserves, diskVars
<1> QED BY <1>1, <1>2 DEF StoreInv, StoreTypeOK, StoreObserves, diskVars

LEMMA RevisedContext ==
  ASSUME NEW c \in PublishedContexts, c.rev + 1 \in 0 .. 3,
         NEW life \in {"STARTING", "ACTIVE", "ENDED"}
  PROVE  LET revised == [c EXCEPT !.rev = @ + 1, !.life = life]
         IN  /\ revised \in PublishedContexts
             /\ revised.run = c.run /\ revised.rev = c.rev + 1 /\ revised.life = life
<1> DEFINE mid == [c EXCEPT !.rev = @ + 1]
<1>1. mid \in PublishedContexts /\ mid.run = c.run /\ mid.rev = c.rev + 1
  BY DEF PublishedContexts
<1>2. [mid EXCEPT !.life = life] = [c EXCEPT !.rev = @ + 1, !.life = life]
  OBVIOUS
<1> HIDE DEF mid
<1>3. LET revised == [mid EXCEPT !.life = life]
      IN  /\ revised \in PublishedContexts
          /\ revised.run = c.run /\ revised.rev = c.rev + 1 /\ revised.life = life
  BY <1>1 DEF PublishedContexts
<1> QED BY <1>2, <1>3

LEMMA ManagerKeeps ==
  ASSUME ContextTypeOK, ContextInv, snapshot \in [run : Runs \cup {0}, succeeded : BOOLEAN],
         ManagerStarts \/ ManagerActivates \/ ManagerEnds
  PROVE  /\ ContextTypeOK' /\ ContextInv'
         /\ snapshot' \in [run : Runs \cup {0}, succeeded : BOOLEAN]
<1>1. CASE ManagerStarts
  <2> DEFINE new == [run |-> context.run + 1, rev |-> 1, life |-> "STARTING"]
  <2>1. context' = new /\ new.run \in Runs /\ new.run # 0
    BY <1>1, RunsAssumption DEF ManagerStarts, StartRun
  <2>2. snapshot' = [run |-> new.run, succeeded |-> FALSE]
    BY <1>1, <2>1 DEF ManagerStarts
  <2> QED BY <2>1, <2>2 DEF ContextTypeOK, ContextInv, PublishedContexts
<1>2. CASE ManagerActivates
  <2>1. /\ context' = [context EXCEPT !.rev = @ + 1, !.life = "ACTIVE"]
        /\ context.run # 0 /\ context.rev = 1 /\ snapshot' = snapshot
    BY <1>2 DEF ManagerActivates, ActivateRun, ContextInv
  <2>2. context.rev + 1 = 2
    BY <2>1
  <2>3. context.rev + 1 \in 0 .. 3
    BY <2>2
  <2>4. /\ context' \in PublishedContexts /\ context'.run = context.run
        /\ context'.rev = context.rev + 1 /\ context'.life = "ACTIVE"
    BY <2>1, <2>3, RevisedContext, Zenon DEF ContextTypeOK
  <2> QED BY <2>1, <2>2, <2>4 DEF ContextTypeOK, ContextInv
<1>3. CASE ManagerEnds
  <2>1. context' = [context EXCEPT !.rev = @ + 1, !.life = "ENDED"] /\ context.rev = 2
    BY <1>3 DEF ManagerEnds, EndRun, ContextInv
  <2>2. context.rev + 1 \in 0 .. 3
    BY <2>1
  <2>3. context' \in PublishedContexts /\ context'.life = "ENDED"
    BY <2>1, <2>2, RevisedContext, Zenon DEF ContextTypeOK
  <2>4. snapshot' \in [run : Runs \cup {0}, succeeded : BOOLEAN]
    BY <1>3 DEF ManagerEnds
  <2> QED BY <2>3, <2>4 DEF ContextTypeOK, ContextInv
<1> QED BY <1>1, <1>2, <1>3

LEMMA ReportingStep ==
  ASSUME ReportingInv, [Next]_vars
  PROVE  ReportingInv' /\ Immutable
<1> USE DEF ReportingInv
<1>1. ASSUME UNCHANGED storeVars PROVE StoreInv' /\ Immutable
  BY <1>1, NumberedStays
  DEF StoreInv, StoreTypeOK, Immutable, storeVars, diskVars, memoryVars
<1>2. ASSUME UNCHANGED reporterVars PROVE ReporterInv'
  BY <1>2 DEF ReporterInv, ReporterTypeOK, reporterVars, observedVars
<1>3. ASSUME UNCHANGED context PROVE ContextTypeOK' /\ ContextInv'
  BY <1>3 DEF ContextTypeOK, ContextInv
<1>4. CASE UNCHANGED vars
  BY <1>4, <1>1, <1>2, <1>3 DEF vars
<1>5. CASE ManagerStarts \/ ManagerActivates \/ ManagerEnds
  <2>1. ContextTypeOK' /\ ContextInv' /\ snapshot' \in [run : Runs \cup {0}, succeeded : BOOLEAN]
    BY <1>5, ManagerKeeps
  <2> QED BY <1>5, <1>1, <1>2, <2>1 DEF ManagerStarts, ManagerActivates, ManagerEnds
<1>6. CASE StoreReads
  <2>1. StoreInv'
    BY <1>6, StoreObservesKeeps DEF StoreReads
  <2>2. Immutable
    BY <1>6 DEF StoreReads, StoreObserves, diskVars, Immutable
  <2> QED BY <1>6, <1>2, <1>3, <2>1, <2>2 DEF StoreReads
<1>7. CASE ReporterReads
  BY <1>7, <1>1, <1>3, ReporterObservesKeeps DEF ReporterReads
<1>8. CASE ReporterWorks
  BY <1>8, <1>1, <1>3, ReporterSends DEF ReporterWorks
<1>9. CASE StoreArtifact
  <2>1. Head(submitted) \in OfOneRun /\ Tail(submitted) \in Seq(OfOneRun)
    BY <1>9, HeadIsArtifact DEF StoreArtifact, ReporterInv
  <2>2. StoreInv' /\ Immutable
    BY <1>9, <2>1, StoreServes DEF StoreArtifact, OfOneRun, Artifact
  <2>3. ReporterInv'
    BY <1>9, <2>1 DEF StoreArtifact, StoreAnswers, ReporterInv, ReporterTypeOK, observedVars
  <2> QED BY <1>9, <1>3, <2>2, <2>3 DEF StoreArtifact
<1>10. CASE StoreForClient
  <2>1. \A q \in ClientRequests : q.id \in Ids /\ q.run \in Runs /\ q.rev \in Nat /\ q.content \in Contents
    BY ClientAssumption DEF ClientRequests, StoreInv, StoreTypeOK
  <2>2. StoreInv' /\ Immutable
    BY <1>10, <2>1, StoreServes DEF StoreForClient
  <2> QED BY <1>10, <1>2, <1>3, <2>2 DEF StoreForClient
<1>11. CASE StoreCrashes
  <2>1. \A q \in ClientRequests : q.content \in Contents
    BY ClientAssumption DEF ClientRequests
  <2>2. submitted # << >> => Head(submitted).content \in Contents
    BY HeadIsArtifact DEF ReporterInv, OfOneRun, Artifact
  <2>3. StoreInv' /\ Immutable
    BY <1>11, <2>1, <2>2, StoreDiesKeeps DEF StoreCrashes
  <2>4. ReporterInv'
    <3>1. << >> \in Seq(OfOneRun)
      BY EmptySeq
    <3> QED BY <1>11, <3>1 DEF StoreCrashes, ReporterInv, ReporterTypeOK, observedVars
  <2>5. crashes' \in 0 .. MaxCrashes
    BY <1>11, ClientAssumption DEF StoreCrashes
  <2> QED BY <1>11, <1>3, <2>3, <2>4, <2>5 DEF StoreCrashes
<1> QED BY <1>4, <1>5, <1>6, <1>7, <1>8, <1>9, <1>10, <1>11 DEF Next

LEMMA ReportingInvariant == Spec => []ReportingInv
  BY ReportingInit, ReportingStep, PTL DEF Spec

(***************************************************************************)
(* The theorems.                                                           *)
(***************************************************************************)

(* Contexts, observations, rows and files keep their types, for any number *)
(* of runs, reports and crashes.                                           *)
THEOREM ReportingTypeCorrect == Spec => []TypeOK
<1>1. ReportingInv => TypeOK
  BY DEF ReportingInv, TypeOK, StoreInv, ReporterInv
<1> QED BY <1>1, ReportingInvariant, PTL

(* No row of the catalogue is without its bytes, and the evidence          *)
(* revisions of a run have no gap, whatever the evidence node died in.     *)
THEOREM CatalogueHasBytesAlways == Spec => []CatalogueHasBytes
<1>1. ReportingInv => CatalogueHasBytes
  BY DEF ReportingInv, CatalogueHasBytes, StoreInv, Numbered, RowsOf
<1> QED BY <1>1, ReportingInvariant, PTL

(* Evidence is immutable: no request, repetition or crash changes a row or *)
(* the bytes it names.                                                     *)
THEOREM EvidenceStaysAlways == Spec => EvidenceStays
<1>1. ReportingInv /\ [Next]_vars =>
        [\A i \in Ids : evidence[i] # NoRow =>
           evidence'[i] = evidence[i]
           /\ object'[evidence[i].content] = object[evidence[i].content]]_vars
  BY ReportingStep DEF Immutable
<1> QED BY <1>1, ReportingInvariant, PTL DEF Spec, EvidenceStays

(* Everything a report is made of is of the run it names, whatever order   *)
(* contexts, tasks, risks and alerts come in.                              *)
THEOREM ReportOfOneRunAlways == Spec => []ReportOfOneRun
<1>1. ReportingInv => ReportOfOneRun
  <2> SUFFICES ASSUME ReportingInv, NEW i \in DOMAIN submitted
               PROVE  submitted[i].of \subseteq {submitted[i].run}
    BY DEF ReportOfOneRun
  <2>1. submitted[i] \in OfOneRun
    BY LenProperties, ElementOfSeq DEF ReportingInv, ReporterInv
  <2> QED BY <2>1 DEF OfOneRun
<1> QED BY <1>1, ReportingInvariant, PTL
=============================================================================
