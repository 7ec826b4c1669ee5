------------------------- MODULE MappingSystem_proofs -------------------------
(***************************************************************************)
(* What holds of MappingSystem for any number of runs, crashes and stray   *)
(* requests: the mapping of a run never changes once it is on disk, and    *)
(* the gateway never converts with another one.                            *)
(***************************************************************************)
EXTENDS MappingSystem, TLAPS

(***************************************************************************)
(* The inductive invariant.                                                *)
(***************************************************************************)

(* Each step of a run has its revision. *)
ContextInv ==
  /\ ContextTypeOK
  /\ context.life = "STARTING" => context.rev = 1 /\ context.run # 0
  /\ context.life = "ACTIVE" => context.rev = 2 /\ context.run # 0

(* A call that was made is of a run; one that records has an anchor. *)
Recordable(q) == q.run \in Runs /\ q.anchor \in Anchors

CallsInv ==
  /\ process <= crashes + 1 /\ process \in Nat
  /\ query.state # "idle" => query.run \in Runs
  /\ record.state # "idle" => Recordable(record)
  /\ \A q \in stray : Recordable(q)

(* What the gateway has, or is about to be told, is on disk. *)
OnDisk(q) == mappings[q.run] = MappingRow(q) /\ MappingRow(q) # NoMapping

AgreeInv ==
  /\ gmapping.run # 0 => OnDisk(gmapping)
  /\ query.state = "found" => OnDisk(query)
  /\ record.state = "accepted" => OnDisk(record)

GatewayInv ==
  /\ GatewayTypeOK /\ CallsInv /\ AgreeInv /\ ReadyMeansMapped
  /\ stray \subseteq Calls({"asked"}) /\ crashes \in 0 .. MaxCrashes

MappingInv == ContextInv /\ StoreTypeOK /\ GatewayInv

LEMMA MappingInit == Init => MappingInv
<1> SUFFICES ASSUME Init PROVE MappingInv
  OBVIOUS
<1> USE CrashAssumption, RunsAssumption, StoreAssumption DEF Init
<1>1. ContextTypeOK /\ ContextInv
  BY DEF ContextInit, ContextInv, ContextTypeOK, PublishedContexts, NoContext
<1>2. StoreTypeOK
  BY DEF StoreInit, StoreTypeOK, Unseen, Lives
<1>3. GatewayTypeOK
  <2>1. 1 \in Anchors
    <3>1. 1 \in 1 .. MaxCrashes + 1
      BY CrashAssumption
    <3> QED BY <3>1
  <2>2. Idle \in Calls({"asked", "found", "missing"}) /\ Idle \in Calls({"asked", "accepted", "refused"})
    BY DEF Idle, Calls
  <2>3. Unmapped \in [run : Runs \cup {0}, rev : Nat, anchor : Anchors \cup {0}]
    BY DEF Unmapped
  <2>4. NoContext \in PublishedContexts
    BY DEF NoContext, PublishedContexts
  <2> QED BY <2>1, <2>2, <2>3, <2>4 DEF GatewayInit, GatewayTypeOK
<1>4. CallsInv /\ AgreeInv /\ ReadyMeansMapped
  BY DEF GatewayInit, CallsInv, AgreeInv, ReadyMeansMapped, Idle, Unmapped
<1>5. stray \subseteq Calls({"asked"}) /\ crashes \in 0 .. MaxCrashes
  OBVIOUS
<1> QED BY <1>1, <1>2, <1>3, <1>4, <1>5 DEF MappingInv, GatewayInv

(***************************************************************************)
(* The task manager: the context only.                                     *)
(***************************************************************************)
LEMMA RevisedContext ==
  ASSUME NEW c \in PublishedContexts, NEW n \in 0 .. 3, c.rev + 1 = n,
         NEW life \in {"STARTING", "ACTIVE", "ENDED"}
  PROVE  LET revised == [c EXCEPT !.rev = @ + 1, !.life = life]
         IN  /\ revised \in PublishedContexts
             /\ revised.run = c.run /\ revised.rev = n /\ revised.life = life
<1> DEFINE mid == [c EXCEPT !.rev = @ + 1]
<1>1. mid \in PublishedContexts /\ mid.run = c.run /\ mid.rev = n
  BY DEF PublishedContexts
<1>2. [mid EXCEPT !.life = life] = [c EXCEPT !.rev = @ + 1, !.life = life]
  OBVIOUS
<1> HIDE DEF mid
<1>3. LET revised == [mid EXCEPT !.life = life]
      IN  /\ revised \in PublishedContexts
          /\ revised.run = c.run /\ revised.rev = n /\ revised.life = life
  BY <1>1 DEF PublishedContexts
<1> QED BY <1>2, <1>3

LEMMA ContextStep ==
  ASSUME ContextInv, StartRun \/ ActivateRun \/ EndRun
  PROVE  ContextInv'
<1>1. CASE StartRun
  <2> DEFINE new == [run |-> context.run + 1, rev |-> 1, life |-> "STARTING"]
  <2>1. context' = new /\ new.run \in Runs /\ new.run # 0
    BY <1>1, RunsAssumption DEF StartRun
  <2> QED BY <2>1 DEF ContextTypeOK, ContextInv, PublishedContexts
<1>2. CASE ActivateRun
  <2>1. /\ context' = [context EXCEPT !.rev = @ + 1, !.life = "ACTIVE"]
        /\ context.run # 0 /\ context.rev + 1 = 2
    BY <1>2 DEF ActivateRun, ContextInv
  <2> DEFINE two == 2
  <2>0. two \in 0 .. 3 /\ context.rev + 1 = two
    BY <2>1
  <2> HIDE DEF two
  <2>2. /\ context' \in PublishedContexts /\ context'.run = context.run
        /\ context'.rev = two /\ context'.life = "ACTIVE"
    BY <2>0, <2>1, RevisedContext, Zenon DEF ContextTypeOK, ContextInv
  <2> QED BY <2>1, <2>2 DEF ContextTypeOK, ContextInv, two
<1>3. CASE EndRun
  <2>1. context' = [context EXCEPT !.rev = @ + 1, !.life = "ENDED"] /\ context.rev + 1 = 3
    BY <1>3 DEF EndRun, ContextInv
  <2> DEFINE three == 3
  <2>0. three \in 0 .. 3 /\ context.rev + 1 = three
    BY <2>1
  <2> HIDE DEF three
  <2>2. context' \in PublishedContexts /\ context'.life = "ENDED"
    BY <2>0, <2>1, RevisedContext, Zenon DEF ContextTypeOK, ContextInv
  <2> QED BY <2>2 DEF ContextTypeOK, ContextInv
<1> QED BY <1>1, <1>2, <1>3

(***************************************************************************)
(* The disk.                                                               *)
(***************************************************************************)
RowsStay == \A r \in Runs : mappings[r] # NoMapping => mappings'[r] = mappings[r]

LEMMA RowIsARow ==
  ASSUME NEW q, Recordable(q), q.rev \in Nat
  PROVE  MappingRow(q) \in MappingRows /\ MappingRow(q) # NoMapping
  BY StoreAssumption DEF Recordable, MappingRow, MappingRows, NoMapping

(* A record request writes the row of its run once; what is accepted is    *)
(* then on disk.                                                           *)
LEMMA RecordKeeps ==
  ASSUME StoreTypeOK, NEW q, Recordable(q), q.rev \in Nat, NEW accepted,
         RecordMapping(q, accepted)
  PROVE  /\ StoreTypeOK' /\ RowsStay
         /\ accepted => mappings'[q.run] = MappingRow(q) /\ MappingRow(q) # NoMapping
<1>1. MappingRow(q) \in MappingRows /\ MappingRow(q) # NoMapping /\ q.run \in Runs
  BY RowIsARow DEF Recordable
<1>2. CASE accepted
  <2>1. mappings' = [mappings EXCEPT ![q.run] = MappingRow(q)]
        /\ mappings[q.run] \in {NoMapping, MappingRow(q)}
    BY <1>2 DEF RecordMapping, MappingAccepted
  <2> QED BY <1>1, <2>1 DEF RecordMapping, StoreTypeOK, RowsStay, memoryVars
<1>3. CASE ~accepted
  BY <1>3 DEF RecordMapping, StoreTypeOK, RowsStay, memoryVars
<1> QED BY <1>2, <1>3

(***************************************************************************)
(* The gateway.                                                            *)
(***************************************************************************)
Elsewhere == << mappings, stray, crashes >>

MappingTypes == [run : Runs \cup {0}, rev : Nat, anchor : Anchors \cup {0}]

LEMMA CallParts ==
  ASSUME GatewayInv
  PROVE  /\ query.run \in Runs \cup {0} /\ query.rev \in Nat /\ query.anchor \in Anchors \cup {0}
         /\ record.run \in Runs \cup {0} /\ record.rev \in Nat /\ record.anchor \in Anchors \cup {0}
         /\ query.state \in {"idle", "dead", "asked", "found", "missing"}
         /\ record.state \in {"idle", "dead", "asked", "accepted", "refused"}
         /\ gmapping \in MappingTypes
  BY DEF GatewayInv, GatewayTypeOK, Calls, MappingTypes

(* What is taken for the mapping of the run shown is on disk. *)
LEMMA TakesWhatIsOnDisk ==
  ASSUME GatewayInv, UNCHANGED << mappings, gcontext >>, NEW q, q.run \in Runs, q.rev \in Nat,
         q.anchor \in Anchors \cup {0}, OnDisk(q), SetTimeMapping(q)
  PROVE  /\ gmapping' \in MappingTypes
         /\ gmapping'.run # 0 => OnDisk(gmapping)'
         /\ gmapping.run = gcontext.run => gmapping'.run = gcontext'.run
<1>1. CASE q.run = gcontext.run
  <2> DEFINE taken == [run |-> q.run, rev |-> q.rev, anchor |-> q.anchor]
  <2>1. gmapping' = taken
    BY <1>1 DEF SetTimeMapping
  <2>2. taken \in MappingTypes /\ MappingRow(taken) = MappingRow(q) /\ taken.run = q.run
    BY DEF MappingTypes, MappingRow
  <2> QED BY <1>1, <2>1, <2>2 DEF OnDisk
<1>2. CASE q.run # gcontext.run
  <2>1. gmapping' = gmapping
    BY <1>2 DEF SetTimeMapping
  <2> QED BY <2>1, CallParts DEF GatewayInv, AgreeInv, OnDisk, MappingRow
<1> QED BY <1>1, <1>2

(* A query is made for a run; else the call there was stays. *)
LEMMA EnsureAsks ==
  ASSUME GatewayInv, NEW c \in PublishedContexts, c.run # 0, NEW there, Ensure(c, there)
  PROVE  /\ query' \in Calls({"asked", "found", "missing"})
         /\ query'.state # "idle" => query'.run \in Runs
         /\ query'.state = "found" => query' = query
<1> DEFINE new == [state |-> "asked", run |-> c.run, rev |-> c.rev, anchor |-> 0]
<1>1. new \in Calls({"asked", "found", "missing"}) /\ new.state = "asked" /\ new.run \in Runs
  BY DEF PublishedContexts, Calls
<1>2. query' = new \/ query' = query
  BY DEF Ensure
<1> QED BY <1>1, <1>2 DEF GatewayInv, GatewayTypeOK, CallsInv

LEMMA IdleIsACall ==
  /\ Idle \in Calls({"asked", "found", "missing"})
  /\ Idle \in Calls({"asked", "accepted", "refused"})
  /\ Idle.state = "idle"
  /\ Unmapped \in MappingTypes /\ Unmapped.run = 0
  BY DEF Idle, Calls, Unmapped, MappingTypes

LEMMA GatewayReadsKeeps ==
  ASSUME GatewayInv, NEW c \in PublishedContexts, c.run # 0, GatewayObserves(c),
         UNCHANGED Elsewhere
  PROVE  GatewayInv'
<1> USE DEF GatewayObserves, Elsewhere
<1>1. /\ query' \in Calls({"asked", "found", "missing"})
      /\ query'.state # "idle" => query'.run \in Runs
      /\ query'.state = "found" => query' = query
  <2>1. UNCHANGED query \/ \E there \in BOOLEAN : Ensure(c, there)
    OBVIOUS
  <2>2. CASE UNCHANGED query
    BY <2>2 DEF GatewayInv, GatewayTypeOK, CallsInv
  <2> QED BY <2>1, <2>2, EnsureAsks
<1>2. creating' \subseteq Runs
  BY DEF GatewayInv, GatewayTypeOK, PublishedContexts
<1>3. /\ gcontext' = c
      /\ \/ gmapping' = Unmapped /\ timeReady' = FALSE
         \/ gmapping' = gmapping /\ timeReady' = timeReady /\ gcontext.run = c.run
  BY DEF Projects
<1>4. GatewayTypeOK'
  BY <1>1, <1>2, <1>3, IdleIsACall DEF GatewayInv, GatewayTypeOK, MappingTypes
<1>5. CallsInv' /\ AgreeInv' /\ ReadyMeansMapped'
  BY <1>1, <1>3, IdleIsACall
  DEF GatewayInv, CallsInv, AgreeInv, ReadyMeansMapped, OnDisk, MappingRow, Recordable
<1> QED BY <1>4, <1>5 DEF GatewayInv, Calls

LEMMA QueryDoneKeeps ==
  ASSUME GatewayInv, QueryDone, UNCHANGED Elsewhere
  PROVE  GatewayInv'
<1>1. query.run \in Runs /\ query' = Idle
  BY DEF QueryDone, GatewayInv, CallsInv
<1>2. CASE query.state = "found"
  <2>1. creating' = creating \ {query.run} /\ SetTimeMapping(query) /\ UNCHANGED record
    BY <1>2 DEF QueryDone
  <2>2. OnDisk(query)
    BY <1>2 DEF GatewayInv, AgreeInv
  <2>3. /\ gmapping' \in MappingTypes
        /\ gmapping'.run # 0 => OnDisk(gmapping)'
        /\ gmapping.run = gcontext.run => gmapping'.run = gcontext'.run
    BY <1>1, <2>1, <2>2, CallParts, TakesWhatIsOnDisk DEF Elsewhere, QueryDone
  <2>4. GatewayTypeOK'
    BY <1>1, <2>1, <2>3, IdleIsACall DEF QueryDone, GatewayInv, GatewayTypeOK, MappingTypes
  <2>5. CallsInv' /\ AgreeInv' /\ ReadyMeansMapped'
    BY <1>1, <2>1, <2>3, IdleIsACall
    DEF QueryDone, Elsewhere, GatewayInv, CallsInv, AgreeInv, ReadyMeansMapped, OnDisk, MappingRow,
        Recordable
  <2> QED BY <2>4, <2>5 DEF GatewayInv, Elsewhere, Calls
<1>3. CASE query.state # "found"
  <2> DEFINE new == [query EXCEPT !.state = "asked", !.anchor = process]
  <2>1. new \in Calls({"asked", "accepted", "refused"}) /\ new.state = "asked" /\ Recordable(new)
    BY <1>1 DEF GatewayInv, GatewayTypeOK, Calls, Recordable
  <2>2. record' = new \/ record' = record
    BY <1>3 DEF QueryDone
  <2>3. UNCHANGED << creating, gmapping, process, gcontext, timeReady, readiness >>
    BY <1>3 DEF QueryDone
  <2> HIDE DEF new
  <2>4. GatewayTypeOK'
    BY <1>1, <2>1, <2>2, <2>3, IdleIsACall DEF GatewayInv, GatewayTypeOK, MappingTypes
  <2>5. CallsInv' /\ AgreeInv' /\ ReadyMeansMapped'
    BY <1>1, <2>1, <2>2, <2>3, IdleIsACall
    DEF Elsewhere, GatewayInv, CallsInv, AgreeInv, ReadyMeansMapped, OnDisk, MappingRow, Recordable
  <2> QED BY <2>4, <2>5 DEF GatewayInv, Elsewhere, Calls
<1> QED BY <1>2, <1>3

LEMMA RecordDoneKeeps ==
  ASSUME GatewayInv, RecordDone, UNCHANGED Elsewhere
  PROVE  GatewayInv'
<1>1. record.run \in Runs /\ record' = Idle /\ UNCHANGED << process, gcontext, timeReady, query, readiness >>
  BY DEF RecordDone, GatewayInv, CallsInv, Recordable
<1>2. /\ gmapping' \in MappingTypes
      /\ gmapping'.run # 0 => OnDisk(gmapping)'
      /\ gmapping.run = gcontext.run => gmapping'.run = gcontext'.run
      /\ creating' \subseteq creating
  <2>1. CASE record.state = "accepted"
    <3>1. creating' = creating \ {record.run} /\ SetTimeMapping(record)
      BY <2>1 DEF RecordDone
    <3>2. OnDisk(record)
      BY <2>1 DEF GatewayInv, AgreeInv
    <3> QED BY <1>1, <3>1, <3>2, CallParts, TakesWhatIsOnDisk DEF Elsewhere
  <2>2. CASE record.state # "accepted"
    BY <1>1, <2>2, CallParts DEF RecordDone, GatewayInv, AgreeInv, OnDisk, MappingRow, Elsewhere
  <2> QED BY <2>1, <2>2
<1>3. GatewayTypeOK'
  BY <1>1, <1>2, IdleIsACall DEF GatewayInv, GatewayTypeOK, MappingTypes
<1>4. CallsInv' /\ AgreeInv' /\ ReadyMeansMapped'
  BY <1>1, <1>2, IdleIsACall
  DEF Elsewhere, GatewayInv, CallsInv, AgreeInv, ReadyMeansMapped, OnDisk, MappingRow, Recordable
<1> QED BY <1>3, <1>4 DEF GatewayInv, Elsewhere, Calls

LEMMA PollKeeps ==
  ASSUME GatewayInv, Poll \/ PollUnready \/ ReadinessDone, UNCHANGED Elsewhere
  PROVE  GatewayInv'
<1>1. /\ UNCHANGED << process, gcontext, gmapping, creating, record >>
      /\ timeReady' \in BOOLEAN /\ readiness' \in {"idle", "asked", "ready", "unready", "dead"}
      /\ timeReady' => timeReady \/ (gcontext.run = 0 \/ gmapping.run = gcontext.run)
  BY DEF Poll, PollUnready, ReadinessDone, GatewayInv, GatewayTypeOK
<1>2. /\ query' \in Calls({"asked", "found", "missing"})
      /\ query'.state # "idle" => query'.run \in Runs
      /\ query'.state = "found" => query' = query
  <2>1. query' = query \/ (gcontext.run # 0 /\ Ensure(gcontext, TRUE))
    BY DEF Poll, PollUnready, ReadinessDone
  <2>2. CASE query' = query
    BY <2>2 DEF GatewayInv, GatewayTypeOK, CallsInv
  <2> QED BY <2>1, <2>2, EnsureAsks DEF GatewayInv, GatewayTypeOK
<1>3. GatewayTypeOK'
  BY <1>1, <1>2 DEF GatewayInv, GatewayTypeOK
<1>4. CallsInv' /\ AgreeInv' /\ ReadyMeansMapped'
  BY <1>1, <1>2
  DEF Elsewhere, GatewayInv, CallsInv, AgreeInv, ReadyMeansMapped, OnDisk, MappingRow, Recordable
<1> QED BY <1>3, <1>4 DEF GatewayInv, Elsewhere, Calls


(***************************************************************************)
(* The evidence node answers.                                              *)
(***************************************************************************)

(* Rows are only added: what is on disk stays there. *)
LEMMA AgreeStays ==
  ASSUME GatewayInv, RowsStay, UNCHANGED gmapping,
         query'.state = "found" => query' = query,
         record'.state = "accepted" => record' = record
  PROVE  AgreeInv'
<1>1. ASSUME NEW q, q.run \in Runs, OnDisk(q)
      PROVE  mappings'[q.run] = MappingRow(q) /\ MappingRow(q) # NoMapping
  BY <1>1 DEF RowsStay, OnDisk
<1>2. /\ gmapping.run # 0 => gmapping.run \in Runs
      /\ query.state = "found" => query.run \in Runs
      /\ record.state = "accepted" => record.run \in Runs
  BY CallParts DEF GatewayInv, CallsInv, Recordable, MappingTypes
<1>3. gmapping'.run # 0 => OnDisk(gmapping)'
  BY <1>1, <1>2 DEF GatewayInv, AgreeInv, OnDisk, MappingRow
<1>4. query'.state = "found" => OnDisk(query)'
  BY <1>1, <1>2 DEF GatewayInv, AgreeInv, OnDisk, MappingRow
<1>5. record'.state = "accepted" => OnDisk(record)'
  BY <1>1, <1>2 DEF GatewayInv, AgreeInv, OnDisk, MappingRow
<1> QED BY <1>3, <1>4, <1>5 DEF AgreeInv

LEMMA AnswerQueryKeeps ==
  ASSUME GatewayInv, StoreTypeOK, AnswerQuery
  PROVE  GatewayInv' /\ RowsStay
<1> DEFINE row == mappings[query.run]
<1>1. /\ query.state = "asked" /\ query.run \in Runs
      /\ UNCHANGED << mappings, process, projected, record, readiness, stray, crashes >>
  BY DEF AnswerQuery, GatewayInv, CallsInv, storeVars, diskVars
<1>2. RowsStay
  BY <1>1 DEF RowsStay
<1>3. /\ query' \in Calls({"asked", "found", "missing"}) /\ query'.run = query.run
      /\ query'.state = "found" => OnDisk(query)'
  <2>1. CASE row = NoMapping
    <3>1. query' = [query EXCEPT !.state = "missing"]
      BY <2>1 DEF AnswerQuery
    <3> QED BY <3>1 DEF GatewayInv, GatewayTypeOK, Calls
  <2>2. CASE row # NoMapping
    <3>1. query' = [query EXCEPT !.state = "found", !.rev = row.rev, !.anchor = row.anchor]
      BY <2>2 DEF AnswerQuery
    <3>2. row \in MappingRows
      BY <1>1, <2>2 DEF StoreTypeOK
    <3>3. PICK n \in Nat, a \in Anchors : row = [rev |-> n, anchor |-> a]
      BY <3>2 DEF MappingRows
    <3>4. query' = [query EXCEPT !.state = "found", !.rev = n, !.anchor = a]
      BY <3>1, <3>3
    <3>5. /\ query' \in Calls({"asked", "found", "missing"}) /\ query'.run = query.run
          /\ query'.rev = n /\ query'.anchor = a
      BY <3>4 DEF GatewayInv, GatewayTypeOK, Calls
    <3>6. mappings' = mappings
      BY <1>1
    <3> QED BY <2>2, <3>3, <3>5, <3>6 DEF OnDisk, MappingRow
  <2> QED BY <2>1, <2>2
<1>4. GatewayTypeOK'
  BY <1>1, <1>3 DEF GatewayInv, GatewayTypeOK, projected
<1>5. CallsInv' /\ AgreeInv' /\ ReadyMeansMapped'
  BY <1>1, <1>3
  DEF GatewayInv, CallsInv, AgreeInv, ReadyMeansMapped, OnDisk, MappingRow, Recordable, projected
<1> QED BY <1>1, <1>2, <1>4, <1>5 DEF GatewayInv, Calls

LEMMA AnswerRecordKeeps ==
  ASSUME GatewayInv, StoreTypeOK, AnswerRecord
  PROVE  GatewayInv' /\ RowsStay /\ StoreTypeOK'
<1> PICK accepted \in BOOLEAN :
      /\ RecordMapping(record, accepted)
      /\ record' = [record EXCEPT !.state = IF accepted THEN "accepted" ELSE "refused"]
  BY DEF AnswerRecord
<1>1. /\ record.state = "asked" /\ Recordable(record)
      /\ UNCHANGED << process, projected, query, readiness, stray, crashes >>
  BY DEF AnswerRecord, GatewayInv, CallsInv
<1>2. /\ StoreTypeOK' /\ RowsStay
      /\ accepted => mappings'[record.run] = MappingRow(record) /\ MappingRow(record) # NoMapping
  BY <1>1, RecordKeeps, CallParts
<1>3. PICK s \in {"accepted", "refused"} :
        record' = [record EXCEPT !.state = s] /\ (s = "accepted" <=> accepted)
  OBVIOUS
<1>4. /\ record' \in Calls({"asked", "accepted", "refused"}) /\ record'.state = s
      /\ record'.run = record.run /\ record'.rev = record.rev /\ record'.anchor = record.anchor
  BY <1>3 DEF GatewayInv, GatewayTypeOK, Calls
<1>5. GatewayTypeOK'
  BY <1>1, <1>4 DEF GatewayInv, GatewayTypeOK, projected
<1>6. CallsInv' /\ ReadyMeansMapped'
  BY <1>1, <1>4 DEF GatewayInv, CallsInv, ReadyMeansMapped, Recordable, projected
<1>7. AgreeInv'
  <2>1. record'.state = "accepted" => OnDisk(record)'
    BY <1>2, <1>3, <1>4 DEF OnDisk, MappingRow
  <2>2. ASSUME NEW q, q.run \in Runs, OnDisk(q)
        PROVE  mappings'[q.run] = MappingRow(q) /\ MappingRow(q) # NoMapping
    BY <1>2, <2>2 DEF RowsStay, OnDisk
  <2>3. /\ gmapping.run # 0 => gmapping.run \in Runs
        /\ query.state = "found" => query.run \in Runs
    BY CallParts DEF GatewayInv, CallsInv, MappingTypes
  <2>4. /\ gmapping'.run # 0 => OnDisk(gmapping)'
        /\ query'.state = "found" => OnDisk(query)'
    BY <1>1, <2>2, <2>3 DEF GatewayInv, AgreeInv, OnDisk, MappingRow, projected
  <2> QED BY <2>1, <2>4 DEF AgreeInv
<1> QED BY <1>1, <1>2, <1>5, <1>6, <1>7 DEF GatewayInv, Calls

LEMMA AnswerReadinessKeeps ==
  ASSUME GatewayInv, AnswerReadiness
  PROVE  GatewayInv' /\ RowsStay
<1>1. /\ UNCHANGED << mappings, process, projected, query, record, stray, crashes >>
      /\ readiness' \in {"ready", "unready"}
  BY DEF AnswerReadiness, storeVars, diskVars
<1> QED BY <1>1
    DEF GatewayInv, GatewayTypeOK, CallsInv, AgreeInv, ReadyMeansMapped, OnDisk, MappingRow,
        Recordable, projected, Calls, RowsStay

LEMMA ServeStrayKeeps ==
  ASSUME GatewayInv, StoreTypeOK, ServeStray
  PROVE  GatewayInv' /\ RowsStay /\ StoreTypeOK'
<1> PICK q \in stray : /\ stray' = stray \ {q}
                       /\ \E accepted \in BOOLEAN : RecordMapping(q, accepted)
  BY DEF ServeStray
<1>1. Recordable(q) /\ q.rev \in Nat
  BY DEF GatewayInv, CallsInv, Calls
<1>2. StoreTypeOK' /\ RowsStay
  BY <1>1, RecordKeeps
<1>3. UNCHANGED << gatewayVars, crashes >>
  BY DEF ServeStray
<1>4. AgreeInv'
  BY <1>2, <1>3, AgreeStays DEF gatewayVars, projected
<1> QED BY <1>2, <1>3, <1>4
    DEF GatewayInv, GatewayTypeOK, CallsInv, ReadyMeansMapped, Recordable, gatewayVars, projected, Calls

(***************************************************************************)
(* Crashes.                                                                *)
(***************************************************************************)
LEMMA StoreCrashesKeeps ==
  ASSUME GatewayInv, StoreTypeOK, StoreCrashes
  PROVE  GatewayInv' /\ RowsStay /\ StoreTypeOK'
<1>1. /\ crashes' = crashes + 1 /\ crashes' \in 0 .. MaxCrashes /\ stray' = {}
      /\ UNCHANGED << process, gcontext, gmapping, creating, timeReady >>
  BY CrashAssumption DEF StoreCrashes, LoseCalls, GatewayInv
<1>2. StoreTypeOK' /\ mappings' = mappings
  BY DEF StoreCrashes, StoreDies, StoreTypeOK, diskVars, Unseen, Lives
<1>3. /\ query' \in Calls({"asked", "found", "missing"}) /\ query'.run = query.run
      /\ query'.state # "idle" => query.state # "idle"
      /\ query'.state = "found" => query' = query
  BY DEF StoreCrashes, LoseCalls, GatewayInv, GatewayTypeOK, Calls
<1>4. /\ record' \in Calls({"asked", "accepted", "refused"})
      /\ record'.run = record.run /\ record'.anchor = record.anchor
      /\ record'.state # "idle" => record.state # "idle"
      /\ record'.state = "accepted" => record' = record
  BY DEF StoreCrashes, LoseCalls, GatewayInv, GatewayTypeOK, Calls
<1>5. readiness' \in {"idle", "asked", "ready", "unready", "dead"}
  BY DEF StoreCrashes, LoseCalls, GatewayInv, GatewayTypeOK
<1>6. RowsStay
  BY <1>2 DEF RowsStay
<1>7. GatewayTypeOK'
  BY <1>1, <1>3, <1>4, <1>5 DEF GatewayInv, GatewayTypeOK
<1>8. CallsInv' /\ ReadyMeansMapped'
  BY <1>1, <1>3, <1>4 DEF GatewayInv, CallsInv, ReadyMeansMapped, Recordable
<1>9. AgreeInv'
  BY <1>1, <1>3, <1>4, <1>6, AgreeStays
<1> QED BY <1>1, <1>2, <1>6, <1>7, <1>8, <1>9 DEF GatewayInv

LEMMA GatewayCrashesKeeps ==
  ASSUME GatewayInv, GatewayCrashes
  PROVE  GatewayInv' /\ RowsStay
<1>1. crashes' = crashes + 1 /\ crashes' \in 0 .. MaxCrashes /\ mappings' = mappings
  BY CrashAssumption DEF GatewayCrashes, GatewayInv, storeVars, diskVars
<1>2. /\ process' = process + 1 /\ gcontext' = NoContext /\ gmapping' = Unmapped
      /\ creating' = {} /\ timeReady' = FALSE
      /\ query' = Idle /\ record' = Idle /\ readiness' = "idle"
  BY DEF GatewayCrashes, GatewayDies
<1>3. process' \in Anchors /\ process' <= crashes' + 1 /\ process' \in Nat
  <2>1. process' \in 1 .. MaxCrashes + 1 /\ process' <= crashes' + 1 /\ process' \in Nat
    BY <1>1, <1>2, CrashAssumption DEF GatewayInv, CallsInv
  <2> QED BY <2>1, CrashAssumption
<1>4. stray' \subseteq Calls({"asked"}) /\ \A q \in stray' : Recordable(q)
  <2>1. record.state = "asked" => record \in Calls({"asked"}) /\ Recordable(record)
    BY DEF GatewayInv, GatewayTypeOK, CallsInv, Calls
  <2>2. stray' = stray \/ (record.state = "asked" /\ stray' = stray \cup {record})
    BY DEF GatewayCrashes
  <2> QED BY <2>1, <2>2 DEF GatewayInv, CallsInv
<1>5. NoContext \in PublishedContexts
  BY DEF NoContext, PublishedContexts
<1>6. GatewayTypeOK'
  BY <1>2, <1>3, <1>5, IdleIsACall DEF GatewayTypeOK, MappingTypes
<1>7. CallsInv' /\ AgreeInv' /\ ReadyMeansMapped'
  BY <1>2, <1>3, <1>4, IdleIsACall DEF CallsInv, AgreeInv, ReadyMeansMapped, Recordable
<1> QED BY <1>1, <1>4, <1>6, <1>7 DEF GatewayInv, RowsStay, Calls

(***************************************************************************)
(* Every step.                                                             *)
(***************************************************************************)
LEMMA StoreReadsKeeps ==
  ASSUME ContextTypeOK, StoreTypeOK, context.run # 0, StoreObserves(context)
  PROVE  StoreTypeOK' /\ UNCHANGED mappings
<1>1. context.run \in Runs /\ context.rev \in Nat /\ context.life \in Lives
  BY DEF ContextTypeOK, PublishedContexts, Lives
<1> QED BY <1>1 DEF StoreTypeOK, StoreObserves, diskVars

LEMMA MappingStep ==
  ASSUME MappingInv, [Next]_vars
  PROVE  MappingInv' /\ RowsStay
<1> USE DEF MappingInv
<1>1. ASSUME UNCHANGED context PROVE ContextInv'
  BY <1>1 DEF ContextInv, ContextTypeOK
<1>2. ASSUME UNCHANGED storeVars PROVE StoreTypeOK' /\ RowsStay /\ UNCHANGED mappings
  BY <1>2 DEF StoreTypeOK, storeVars, diskVars, memoryVars, RowsStay
<1>3. ASSUME UNCHANGED << mappings, gatewayVars, stray, crashes >> PROVE GatewayInv'
  BY <1>3 DEF GatewayInv, GatewayTypeOK, CallsInv, AgreeInv, ReadyMeansMapped, OnDisk, MappingRow,
              Recordable, gatewayVars, projected, Calls
<1>4. CASE UNCHANGED vars
  BY <1>1, <1>2, <1>3, <1>4 DEF vars
<1>5. CASE ManagerSteps \/ ManagerActivates
  BY <1>2, <1>3, <1>5, ContextStep DEF ManagerSteps, ManagerActivates, Others
<1>6. CASE StoreReads
  <2>1. StoreTypeOK' /\ UNCHANGED mappings
    BY <1>6, StoreReadsKeeps DEF StoreReads, ContextInv
  <2> QED BY <1>1, <1>3, <1>6, <2>1 DEF StoreReads, RowsStay
<1>7. CASE GatewayReads
  BY <1>1, <1>2, <1>7, GatewayReadsKeeps
  DEF GatewayReads, Elsewhere, ContextInv, ContextTypeOK
<1>8. CASE GatewaySteps
  BY <1>1, <1>2, <1>8, QueryDoneKeeps, RecordDoneKeeps, PollKeeps DEF GatewaySteps, Elsewhere
<1>9. CASE AnswerQuery
  BY <1>1, <1>2, <1>9, AnswerQueryKeeps DEF AnswerQuery
<1>10. CASE AnswerRecord
  BY <1>1, <1>10, AnswerRecordKeeps DEF AnswerRecord
<1>11. CASE AnswerReadiness
  BY <1>1, <1>2, <1>11, AnswerReadinessKeeps DEF AnswerReadiness
<1>12. CASE ServeStray
  BY <1>1, <1>12, ServeStrayKeeps DEF ServeStray
<1>13. CASE StoreCrashes
  BY <1>1, <1>13, StoreCrashesKeeps DEF StoreCrashes
<1>14. CASE GatewayCrashes
  BY <1>1, <1>2, <1>14, GatewayCrashesKeeps DEF GatewayCrashes
<1> QED BY <1>4, <1>5, <1>6, <1>7, <1>8, <1>9, <1>10, <1>11, <1>12, <1>13, <1>14 DEF Next

LEMMA MappingInvariant == Spec => []MappingInv
  BY MappingInit, MappingStep, PTL DEF Spec

(***************************************************************************)
(* The theorems.                                                           *)
(***************************************************************************)

(* Contexts, rows, calls and stray requests keep their types; a gateway    *)
(* that starts again has an anchor of its own.                             *)
THEOREM MappingTypeCorrect == Spec => []TypeOK
<1>1. MappingInv => TypeOK
  BY DEF MappingInv, TypeOK, GatewayInv, ContextInv
<1> QED BY <1>1, MappingInvariant, PTL

(* Whatever the gateway converts times with is the row of the run on disk: *)
(* no crash, no late answer and no request of a gateway that died brings   *)
(* it another mapping.                                                     *)
THEOREM MappingAgreesAlways == Spec => []MappingAgrees
<1>1. MappingInv => MappingAgrees
  BY DEF MappingInv, GatewayInv, AgreeInv, OnDisk, MappingAgrees
<1> QED BY <1>1, MappingInvariant, PTL

(* The time mapping is reported ready only for the run the gateway shows.  *)
THEOREM ReadyMeansMappedAlways == Spec => []ReadyMeansMapped
<1>1. MappingInv => ReadyMeansMapped
  BY DEF MappingInv, GatewayInv
<1> QED BY <1>1, MappingInvariant, PTL

(* The mapping of a run, once recorded, is never replaced or lost: two     *)
(* gateways that propose different anchors get the first one.              *)
THEOREM RecordedMappingStays == Spec => [][RowsStay]_vars
<1>1. MappingInv /\ [Next]_vars => [RowsStay]_vars
  BY MappingStep
<1> QED BY <1>1, MappingInvariant, PTL DEF Spec
=============================================================================
