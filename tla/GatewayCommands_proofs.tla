-------------------------- MODULE GatewayCommands_proofs --------------------------
(***************************************************************************)
(* What holds of GatewayCommands for any number of requests, keys, state   *)
(* revisions and crashes: its types, one command per route and key, that a *)
(* succeeded command reports its own transition, and that no observation   *)
(* which could end a command is left in memory.                            *)
(***************************************************************************)
EXTENDS GatewayCommands, SequenceTheorems, TLAPS

(***************************************************************************)
(* Types, by the groups of variables that an action changes together.      *)
(***************************************************************************)
VelocityStatuses == {"ACCEPTED", "APPLIED", "REJECTED"}

RequestTypes ==
  /\ form \in [Requests -> Forms \cup {[kind |-> "none"]}]
  /\ stage \in [Requests -> Stages]
  /\ answer \in [Requests -> [code : Codes, of : Requests \cup {Nobody}]]

StoreTypes ==
  /\ row \in [Requests -> Rows]
  /\ announced \in [Requests -> Seq(Open \cup Terminal)]

CallTypes == calls \subseteq Requests /\ replies \subseteq Replies

ProjectTypes ==
  /\ context \in [run : Nat, life : {"NONE", "STARTING", "ACTIVE", "ENDED"}]
  /\ mission \in Snapshots /\ missionReady \in BOOLEAN

ObserveTypes ==
  /\ observing \subseteq Observations /\ remembered \subseteq Observations
  /\ manual \subseteq Manuals

(* A start in progress is somebody's. *)
ManagerTypes ==
  /\ manager \in Snapshots
  /\ manager.life = "STARTING" => manager.by # Nobody
  /\ velocity \subseteq Manuals
  /\ velocityStatus \in [Requests -> Seq(VelocityStatuses)]
  /\ moved \subseteq Requests
  /\ author \in Seq(Requests \cup {Nobody})

(* A call is of a kind the task manager serves, and of a request made.     *)
CallsServable == \A r \in calls : stage[r] # "new" /\ Kind(r) \in MissionKinds \cup RobotKinds

TypeInv ==
  /\ CallsServable
  /\ RequestTypes /\ StoreTypes /\ CallTypes /\ ProjectTypes /\ ObserveTypes /\ ManagerTypes
  /\ crashes \in 0 .. MaxCrashes

(* What an action leaves alone keeps its type.                             *)
LEMMA GroupsStay ==
  ASSUME TypeInv
  PROVE  /\ UNCHANGED requestVars => RequestTypes'
         /\ UNCHANGED storeVars => StoreTypes'
         /\ UNCHANGED callVars => CallTypes'
         /\ UNCHANGED projectVars => ProjectTypes'
         /\ UNCHANGED observeVars => ObserveTypes'
         /\ UNCHANGED managerVars => ManagerTypes'
         /\ UNCHANGED << form, stage, calls >> => CallsServable'
<1> USE DEF TypeInv
<1>1. UNCHANGED requestVars => RequestTypes'
  BY DEF requestVars, RequestTypes
<1>2. UNCHANGED storeVars => StoreTypes'
  BY DEF storeVars, StoreTypes
<1>3. UNCHANGED callVars => CallTypes'
  BY DEF callVars, CallTypes
<1>4. UNCHANGED projectVars => ProjectTypes'
  BY DEF projectVars, ProjectTypes
<1>5. UNCHANGED observeVars => ObserveTypes'
  BY DEF observeVars, ObserveTypes
<1>6. UNCHANGED managerVars => ManagerTypes'
  BY DEF managerVars, ManagerTypes
<1>7. UNCHANGED << form, stage, calls >> => CallsServable'
  BY DEF CallsServable, Kind
<1> QED BY <1>1, <1>2, <1>3, <1>4, <1>5, <1>6, <1>7

(* A stage that is passed is not entered again. *)
LEMMA ServableStays ==
  ASSUME TypeInv, UNCHANGED << form, calls >>, NEW r, NEW to \in Stages \ {"new"},
         stage' = [stage EXCEPT ![r] = to]
  PROVE  CallsServable'
  BY DEF TypeInv, CallsServable, RequestTypes, CallTypes, Kind

LEMMA FirstSnapshotTypes ==
  /\ FirstSnapshots \subseteq Snapshots
  /\ \A s \in FirstSnapshots : s.life # "STARTING" /\ s.rev = 1 /\ s.by = Nobody
  /\ [FirstSnapshot EXCEPT !.run = 0, !.rev = 0] \in Snapshots
  /\ [FirstSnapshot EXCEPT !.run = 0, !.rev = 0].by = Nobody
<1>1. FirstSnapshot \in Snapshots /\ FirstSnapshot.life = "ACTIVE" /\ FirstSnapshot.rev = 1
      /\ FirstSnapshot.by = Nobody
  BY DEF FirstSnapshot, Snapshots
<1>2. ASSUME NEW s \in FirstSnapshots
      PROVE  s \in Snapshots /\ s.life # "STARTING" /\ s.rev = 1 /\ s.by = Nobody
  <2> DEFINE Fits(x) == x \in Snapshots /\ x.life # "STARTING" /\ x.rev = 1 /\ x.by = Nobody
  <2>1. Fits(FirstSnapshot)
    BY <1>1
  <2>2. Fits([FirstSnapshot EXCEPT !.state = "PAUSED", !.mode = "MANUAL"])
    BY <1>1 DEF Snapshots
  <2>3. Fits([FirstSnapshot EXCEPT !.state = "STOPPED", !.life = "ENDED"])
    BY <1>1 DEF Snapshots
  <2>4. Fits([FirstSnapshot EXCEPT !.mode = "ESTOP", !.latched = TRUE, !.latchRev = 1])
    BY <1>1 DEF Snapshots
  <2>5. Fits(s)
    <3> HIDE DEF Fits
    <3> QED BY <1>2, <2>1, <2>2, <2>3, <2>4 DEF FirstSnapshots
  <2> QED BY <2>5
<1>3. /\ [FirstSnapshot EXCEPT !.run = 0, !.rev = 0] \in Snapshots
      /\ [FirstSnapshot EXCEPT !.run = 0, !.rev = 0].by = Nobody
  BY <1>1 DEF Snapshots
<1> QED BY <1>2, <1>3

LEMMA TypeInit == Init => TypeInv
<1> SUFFICES ASSUME Init PROVE TypeInv
  OBVIOUS
<1> USE DEF Init
<1>1. RequestTypes
  BY DEF RequestTypes, Stages, Codes
<1>2. StoreTypes
  BY EmptySeq DEF StoreTypes, NewRow, Rows
<1>3. CallTypes /\ ProjectTypes /\ ObserveTypes
  BY FirstSnapshotTypes DEF CallTypes, ProjectTypes, ObserveTypes
<1>4. ManagerTypes
  BY FirstSnapshotTypes, EmptySeq DEF ManagerTypes
<1> QED BY <1>1, <1>2, <1>3, <1>4, GatewayAssumption DEF TypeInv, CallsServable

(***************************************************************************)
(* The store.                                                              *)
(***************************************************************************)
LEMMA CompletedRow ==
  ASSUME NEW old \in Rows, NEW status \in Open \cup Terminal, NEW run \in Nat, NEW rev \in Nat
  PROVE  [old EXCEPT !.status = status, !.resultRun = run, !.resultRev = rev] \in Rows
  BY DEF Rows

LEMMA MoveTypes ==
  ASSUME StoreTypes, NEW c, NEW status \in Open \cup Terminal, NEW run \in Nat, NEW rev \in Nat,
         Move(c, status, run, rev)
  PROVE  /\ StoreTypes'
         /\ \A r \in Requests : r # c => row'[r] = row[r]
         /\ c \in Requests => row'[c] = [row[c] EXCEPT !.status = status, !.resultRun = run,
                                                       !.resultRev = rev]
<1> DEFINE new == [row[c] EXCEPT !.status = status, !.resultRun = run, !.resultRev = rev]
<1>1. row' = [row EXCEPT ![c] = new]
  BY DEF Move
<1>2. c \in Requests => new \in Rows
  BY DEF StoreTypes, Rows
<1> HIDE DEF new
<1>3. row' \in [Requests -> Rows]
  BY <1>1, <1>2 DEF StoreTypes
<1>4. announced' \in [Requests -> Seq(Open \cup Terminal)]
  <2>1. c \in Requests => Append(announced[c], status) \in Seq(Open \cup Terminal)
    BY AppendProperties DEF StoreTypes
  <2> QED BY <2>1 DEF StoreTypes, Move
<1> QED BY <1>1, <1>3, <1>4 DEF StoreTypes, new

LEMMA StatusAfterTypes ==
  ASSUME NEW o \in Observations
  PROVE  StatusAfter(o) \in Open \cup Terminal
<1>1. CASE o.source = "mission"
  BY <1>1 DEF StatusAfter, Terminal
<1>2. CASE o.source # "mission"
  <2>1. o.status \in VelocityStatuses
    BY <1>2 DEF Observations, VelocityStatuses
  <2> QED BY <1>2, <2>1 DEF StatusAfter, Open, Terminal, VelocityStatuses
<1> QED BY <1>1, <1>2

LEMMA CompleteTypes ==
  ASSUME StoreTypes, NEW o \in Observations, Complete(o)
  PROVE  StoreTypes'
<1> DEFINE run == IF o.source = "mission" THEN o.seen.run ELSE o.run
           rev == IF o.source = "mission" THEN o.seen.rev ELSE 0
<1>1. run \in Nat /\ rev \in Nat
  BY DEF Observations, Snapshots
<1>2. Move(o.of, StatusAfter(o), run, rev)
  BY DEF Complete
<1> HIDE DEF run, rev
<1> QED BY <1>1, <1>2, StatusAfterTypes, MoveTypes

(***************************************************************************)
(* The event loop.                                                         *)
(***************************************************************************)
LEMMA AnswerTypes ==
  ASSUME RequestTypes, NEW r \in Requests, NEW code \in Codes, NEW c \in Requests \cup {Nobody},
         Answer(r, code, c), form' = form
  PROVE  RequestTypes'
  BY DEF RequestTypes, Answer, Stages

LEMMA ExpectationTypes ==
  ASSUME CallTypes, NEW r \in Requests, NEW a \in Expectations(r)
  PROVE  a.rev \in Nat /\ a.latchRev \in Nat
  BY DEF CallTypes, Expectations, Replies

LEMMA LoopTypes ==
  ASSUME TypeInv, NEW r \in Requests,
         \/ \E f \in Forms : Submit(r, f)
         \/ PublishVelocity(r) \/ TimesOut(r) \/ Returned(r)
         \/ Insert(r) \/ Announce(r) \/ Replay(r) \/ Expire(r)
  PROVE  TypeInv'
<1> USE DEF TypeInv
<1>1. ASSUME NEW f \in Forms, Submit(r, f) PROVE TypeInv'
  <2>1. RequestTypes'
    BY <1>1 DEF Submit, RequestTypes, Answer, Holders, Stages, Codes
  <2>2. CallTypes'
    BY <1>1 DEF Submit, CallTypes
  <2>3. CallsServable'
    <3>1. f.kind \in AllKinds /\ r \notin calls /\ stage[r] = "new"
      BY <1>1, GatewayAssumption DEF Submit, CallsServable
    <3>2. form' = [form EXCEPT ![r] = f] /\ \A q \in Requests \ {r} : form'[q] = form[q]
      BY <1>1 DEF Submit, RequestTypes
    <3>3. /\ stage'[r] # "new" /\ \A q \in Requests \ {r} : stage'[q] = stage[q]
          /\ calls' = calls \/ (calls' = calls \cup {r} /\ f.kind # "velocity")
      <4>1. /\ stage' = [stage EXCEPT ![r] = "sent"] \/ stage' = [stage EXCEPT ![r] = "answered"]
            /\ calls' = calls \/ (calls' = calls \cup {r} /\ f.kind # "velocity")
        BY <1>1 DEF Submit, Answer
      <4>2. /\ stage'[r] # "new" /\ \A q \in Requests \ {r} : stage'[q] = stage[q]
        BY <4>1 DEF RequestTypes
      <4> QED BY <4>1, <4>2
    <3>4. form'[r].kind = f.kind
      BY <3>2 DEF RequestTypes
    <3> QED BY <3>1, <3>2, <3>3, <3>4 DEF CallsServable, CallTypes, Kind, AllKinds
  <2> QED BY <1>1, <2>1, <2>2, <2>3, GroupsStay DEF Submit
<1>2. CASE PublishVelocity(r)
  <2>1. RequestTypes'
    BY <1>2 DEF PublishVelocity, RequestTypes, Answer, Stages, Codes
  <2>2. [of |-> r, run |-> context.run] \in Manuals
    BY DEF ProjectTypes, Manuals
  <2>3. ObserveTypes' /\ ManagerTypes'
    BY <1>2, <2>2 DEF PublishVelocity, ObserveTypes, ManagerTypes
  <2>4. CallsServable'
    BY <1>2, ServableStays DEF PublishVelocity, Answer, Stages, callVars
  <2> QED BY <1>2, <2>1, <2>3, <2>4, GroupsStay DEF PublishVelocity
<1>3. CASE TimesOut(r)
  <2>1. RequestTypes'
    BY <1>3, AnswerTypes DEF TimesOut, Codes
  <2>2. CallTypes'
    BY <1>3 DEF TimesOut, CallTypes
  <2>3. CallsServable'
    BY <1>3, ServableStays DEF TimesOut, Answer, Stages
  <2> QED BY <1>3, <2>1, <2>2, <2>3, GroupsStay DEF TimesOut
<1>4. CASE Returned(r)
  <2>1. RequestTypes'
    BY <1>4 DEF Returned, RequestTypes, Answer, Stages, Codes
  <2>2. CallTypes'
    BY <1>4 DEF Returned, CallTypes
  <2>3. CallsServable'
    BY <1>4, ServableStays DEF Returned, Answer, Stages
  <2> QED BY <1>4, <2>1, <2>2, <2>3, GroupsStay DEF Returned
<1>5. CASE Insert(r)
  <2> PICK a \in Expectations(r) :
         /\ replies' = replies \ {a}
         /\ \/ /\ row' = [row EXCEPT ![r] = Inserted(r, a)]
               /\ stage' = [stage EXCEPT ![r] = "inserted"]
               /\ UNCHANGED answer
            \/ Answer(r, "error", Nobody) /\ UNCHANGED row
    BY <1>5 DEF Insert
  <2>1. RequestTypes'
    BY <1>5 DEF Insert, RequestTypes, Answer, Stages, Codes
  <2>2. Inserted(r, a) \in Rows
    BY ExpectationTypes DEF Inserted, Rows, StoreTypes, ProjectTypes, Open
  <2>3. StoreTypes' /\ CallTypes'
    BY <1>5, <2>2 DEF Insert, StoreTypes, CallTypes
  <2>4. CallsServable'
    BY <1>5, ServableStays DEF Insert, Answer, Stages
  <2> QED BY <1>5, <2>1, <2>3, <2>4, GroupsStay DEF Insert
<1>6. CASE Announce(r)
  <2>1. RequestTypes'
    BY <1>6 DEF Announce, RequestTypes, Stages
  <2>2. row' \in [Requests -> Rows]
    <3> DEFINE new == [row[r] EXCEPT !.status = "succeeded", !.resultRun = context.run,
                                     !.resultRev = mission.rev]
    <3>1. new \in Rows
      <4>1. row[r] \in Rows /\ context.run \in Nat /\ mission.rev \in Nat
        BY DEF StoreTypes, ProjectTypes, Snapshots
      <4> QED BY <4>1, CompletedRow DEF Terminal
    <3>2. row' = row \/ row' = [row EXCEPT ![r] = new]
      BY <1>6 DEF Announce
    <3> HIDE DEF new
    <3> QED BY <3>1, <3>2 DEF StoreTypes
  <2>3. announced' \in [Requests -> Seq(Open \cup Terminal)]
    <3>1. /\ Append(announced[r], "accepted") \in Seq(Open \cup Terminal)
          /\ Append(Append(announced[r], "accepted"), "succeeded") \in Seq(Open \cup Terminal)
      <4>1. announced[r] \in Seq(Open \cup Terminal)
        BY DEF StoreTypes
      <4>2. "accepted" \in Open \cup Terminal /\ "succeeded" \in Open \cup Terminal
        BY DEF Open, Terminal
      <4> QED BY <4>1, <4>2, AppendProperties
    <3> QED BY <1>6, <3>1 DEF Announce, StoreTypes
  <2>4. CallsServable'
    BY <1>6, ServableStays DEF Announce, Stages, callVars
  <2> QED BY <1>6, <2>1, <2>2, <2>3, <2>4, GroupsStay DEF Announce, StoreTypes
<1>7. CASE Replay(r)
  <2>1. RequestTypes'
    BY <1>7, AnswerTypes DEF Replay, Codes
  <2>2. StoreTypes' /\ ObserveTypes'
    <3>1. ASSUME NEW o \in ObservedOf(r), Complete(o),
                 remembered' = IF StatusAfter(o) \in Terminal THEN remembered \ {o} ELSE remembered
          PROVE  StoreTypes' /\ ObserveTypes'
      <4>1. o \in Observations
        BY DEF ObservedOf, ObserveTypes
      <4> QED BY <1>7, <3>1, <4>1, CompleteTypes DEF Replay, ObserveTypes
    <3>2. CASE UNCHANGED << storeVars, remembered >>
      BY <1>7, <3>2, GroupsStay DEF Replay, ObserveTypes
    <3> QED BY <1>7, <3>1, <3>2 DEF Replay
  <2>3. CallsServable'
    BY <1>7, ServableStays DEF Replay, Answer, Stages, callVars
  <2> QED BY <1>7, <2>1, <2>2, <2>3, GroupsStay DEF Replay
<1>8. CASE Expire(r)
  <2>1. StoreTypes'
    BY <1>8, MoveTypes DEF Expire, Terminal
  <2> QED BY <1>8, <2>1, GroupsStay DEF Expire, requestVars, callVars
<1> QED BY <1>1, <1>2, <1>3, <1>4, <1>5, <1>6, <1>7, <1>8

(***************************************************************************)
(* The ROS thread.                                                         *)
(***************************************************************************)
LEMMA ObserveKeepsTypes ==
  ASSUME TypeInv, NEW o \in Observations, Observe(o)
  PROVE  /\ StoreTypes'
         /\ observing' \subseteq Observations /\ remembered' \subseteq Observations
<1> USE DEF TypeInv
<1>1. CASE Completes(o) /\ Complete(o)
  BY <1>1, CompleteTypes DEF Observe, ObserveTypes
<1>2. CASE ~Completes(o)
  BY <1>2, GroupsStay DEF Observe, ObserveTypes
<1> QED BY <1>1, <1>2 DEF Observe

LEMMA RosTypes == ASSUME TypeInv, RosNext PROVE TypeInv'
<1> USE DEF TypeInv
<1>1. CASE OnContext
  <2>1. ProjectTypes'
    BY <1>1 DEF OnContext, ProjectTypes, ManagerTypes, Snapshots
  <2> QED BY <1>1, <2>1, GroupsStay DEF OnContext, requestVars, callVars
<1>2. CASE OnMission
  <2>1. ProjectTypes'
    BY <1>2 DEF OnMission, ProjectTypes, ManagerTypes
  <2>2. StoreTypes' /\ ObserveTypes'
    <3>1. CASE manager.by = Nobody
      BY <1>2, <3>1, GroupsStay DEF OnMission, ObserveTypes
    <3>2. CASE manager.by # Nobody
      <4> DEFINE o == [of |-> manager.by, source |-> "mission", seen |-> manager]
      <4>1. o \in Observations
        BY <3>2 DEF Observations, ManagerTypes, Snapshots
      <4>2. Observe(o) /\ manual' = manual
        BY <1>2, <3>2 DEF OnMission
      <4> HIDE DEF o
      <4> QED BY <4>1, <4>2, ObserveKeepsTypes DEF ObserveTypes
    <3> QED BY <3>1, <3>2
  <2> QED BY <1>2, <2>1, <2>2, GroupsStay DEF OnMission, requestVars, callVars
<1>3. CASE Remember
  <2>1. ObserveTypes'
    BY <1>3 DEF Remember, ObserveTypes
  <2> QED BY <1>3, <2>1, GroupsStay DEF Remember, requestVars, callVars
<1>4. ASSUME NEW r \in Requests, OnVelocityStatus(r) PROVE TypeInv'
  <2> DEFINE status == Head(velocityStatus[r])
  <2>1. status \in VelocityStatuses /\ Tail(velocityStatus[r]) \in Seq(VelocityStatuses)
    BY <1>4, HeadTailProperties DEF OnVelocityStatus, ManagerTypes
  <2>2. ManagerTypes'
    BY <1>4, <2>1 DEF OnVelocityStatus, ManagerTypes
  <2>3. manual' \subseteq Manuals
    BY <1>4 DEF OnVelocityStatus, ObserveTypes
  <2>4. StoreTypes' /\ observing' \subseteq Observations /\ remembered' \subseteq Observations
    <3>1. ASSUME NEW m \in manual, NEW stamped \in BOOLEAN,
                 Observe([of |-> r, source |-> "velocity", status |-> status,
                          run |-> m.run, stamped |-> stamped])
          PROVE  StoreTypes' /\ observing' \subseteq Observations /\ remembered' \subseteq Observations
      <4> DEFINE o == [of |-> r, source |-> "velocity", status |-> status,
                       run |-> m.run, stamped |-> stamped]
      <4>1. m.run \in Nat
        BY DEF ObserveTypes, Manuals
      <4>2. o \in Observations
        BY <2>1, <4>1 DEF Observations, VelocityStatuses
      <4>3. Observe(o)
        BY <3>1
      <4> HIDE DEF o
      <4> QED BY <4>2, <4>3, ObserveKeepsTypes
    <3>2. CASE UNCHANGED << storeVars, remembered, observing >>
      BY <3>2, GroupsStay DEF ObserveTypes
    <3> QED BY <1>4, <3>1, <3>2 DEF OnVelocityStatus
  <2> QED BY <1>4, <2>2, <2>3, <2>4, GroupsStay DEF OnVelocityStatus, ObserveTypes, requestVars, callVars
<1> QED BY <1>1, <1>2, <1>3, <1>4 DEF RosNext

(***************************************************************************)
(* The task manager, and a crash.                                          *)
(***************************************************************************)

(* A snapshot with another revision and transition id, and what is changed *)
(* with them.                                                              *)
LEMMA ChangedTypes ==
  ASSUME NEW m \in Snapshots, NEW n \in Nat
  PROVE  /\ [m EXCEPT !.run = n, !.state = "READY", !.life = "STARTING", !.latchRev = 0] \in Snapshots
         /\ [m EXCEPT !.state = "STOPPED", !.life = "ENDED"] \in Snapshots
         /\ [m EXCEPT !.latched = TRUE, !.mode = "ESTOP", !.latchRev = n] \in Snapshots
         /\ [m EXCEPT !.latched = FALSE, !.mode = "MANUAL"] \in Snapshots
         /\ \A t \in {"PAUSED", "RUNNING"} : [m EXCEPT !.state = t] \in Snapshots
         /\ \A t \in {"MANUAL", "AUTONOMOUS"} : [m EXCEPT !.mode = t] \in Snapshots
  BY DEF Snapshots

LEMMA ActivatedTypes ==
  ASSUME NEW s \in Snapshots, NEW n \in Nat
  PROVE  LET m == [s EXCEPT !.life = "ACTIVE", !.state = "RUNNING", !.rev = n, !.by = Nobody]
         IN  m \in Snapshots /\ m.life = "ACTIVE"
  BY DEF Snapshots

LEMMA OutcomeTypes ==
  ASSUME RequestTypes, ManagerTypes, NEW r \in Requests, NEW s \in Outcomes(r),
         Kind(r) \in MissionKinds \cup RobotKinds
  PROVE  s \in Snapshots /\ s.by = r /\ s.rev = manager.rev + 1
<1>1. Kind(r) = "mode" => form[r].body \in {"MANUAL", "AUTONOMOUS"}
  BY GatewayAssumption DEF RequestTypes, Kind
<1> DEFINE m == [manager EXCEPT !.rev = @ + 1, !.by = r]
<1>2. m \in Snapshots /\ m.by = r /\ m.rev = manager.rev + 1
  <2>1. manager \in Snapshots /\ manager.rev + 1 \in Nat
    BY DEF ManagerTypes, Snapshots
  <2>2. r \in Requests \cup {Nobody}
    OBVIOUS
  <2> PICK n \in Nat : n = manager.rev + 1
    BY <2>1
  <2>3. m = [manager EXCEPT !.rev = n, !.by = r]
    OBVIOUS
  <2> HIDE DEF m
  <2>4. m \in Snapshots /\ m.rev = n /\ m.by = r
    BY <2>1, <2>2, <2>3 DEF Snapshots
  <2> QED BY <2>4
<1>3. \/ s = [m EXCEPT !.run = m.run + 1, !.state = "READY", !.life = "STARTING", !.latchRev = 0]
      \/ s = [m EXCEPT !.state = "PAUSED"] \/ s = [m EXCEPT !.state = "RUNNING"]
      \/ s = [m EXCEPT !.state = "STOPPED", !.life = "ENDED"]
      \/ Kind(r) = "mode" /\ s = [m EXCEPT !.mode = form[r].body]
      \/ \E n \in {m.latchRev, m.latchRev + 1} :
            s = [m EXCEPT !.latched = TRUE, !.mode = "ESTOP", !.latchRev = n]
      \/ s = [m EXCEPT !.latched = FALSE, !.mode = "MANUAL"]
  BY DEF Outcomes, MissionKinds, RobotKinds
<1> HIDE DEF m
<1>4. m.run + 1 \in Nat /\ m.latchRev \in Nat /\ m.latchRev + 1 \in Nat
  BY <1>2 DEF Snapshots
<1>5. s \in Snapshots
  <2>1. CASE s = [m EXCEPT !.run = m.run + 1, !.state = "READY", !.life = "STARTING", !.latchRev = 0]
    BY <1>2, <1>4, <2>1, ChangedTypes, Zenon
  <2>2. CASE s = [m EXCEPT !.state = "PAUSED"] \/ s = [m EXCEPT !.state = "RUNNING"]
    BY <1>2, <2>2 DEF Snapshots
  <2>3. CASE s = [m EXCEPT !.state = "STOPPED", !.life = "ENDED"]
    BY <1>2, <2>3 DEF Snapshots
  <2>4. CASE Kind(r) = "mode" /\ s = [m EXCEPT !.mode = form[r].body]
    BY <1>1, <1>2, <2>4 DEF Snapshots
  <2>5. CASE \E n \in {m.latchRev, m.latchRev + 1} :
               s = [m EXCEPT !.latched = TRUE, !.mode = "ESTOP", !.latchRev = n]
    <3> PICK n \in {m.latchRev, m.latchRev + 1} :
               s = [m EXCEPT !.latched = TRUE, !.mode = "ESTOP", !.latchRev = n]
      BY <2>5
    <3>1. n \in Nat
      BY <1>4
    <3> QED BY <1>2, <3>1, ChangedTypes, Zenon
  <2>6. CASE s = [m EXCEPT !.latched = FALSE, !.mode = "MANUAL"]
    BY <1>2, <2>6 DEF Snapshots
  <2> QED BY <1>3, <2>1, <2>2, <2>3, <2>4, <2>5, <2>6
<1>6. s.by = m.by /\ s.rev = m.rev
  BY <1>2, <1>3 DEF Snapshots
<1> QED BY <1>2, <1>5, <1>6

LEMMA TransitionTypes ==
  ASSUME ManagerTypes, NEW s \in Snapshots, s.life = "STARTING" => s.by # Nobody, Transition(s),
         UNCHANGED << velocity, velocityStatus, moved >>
  PROVE  ManagerTypes'
<1>1. Append(author, s.by) \in Seq(Requests \cup {Nobody})
  BY AppendProperties DEF ManagerTypes, Snapshots
<1> QED BY <1>1 DEF ManagerTypes, Transition

LEMMA ReplyTypes ==
  ASSUME CallTypes, NEW r \in Requests, NEW accepted \in BOOLEAN, NEW s \in Snapshots,
         Reply(r, accepted, s)
  PROVE  replies' \subseteq Replies
  BY DEF CallTypes, Reply, Replies, Snapshots

LEMMA ManagerStepTypes == ASSUME TypeInv, ManagerNext PROVE TypeInv'
<1> USE DEF TypeInv
<1>1. ASSUME NEW r \in Requests, Serve(r) PROVE TypeInv'
  <2>1. CallTypes' /\ ManagerTypes'
    <3>1. ASSUME NEW s \in Outcomes(r), Transition(s),
                 IF Kind(r) = "start" THEN UNCHANGED replies ELSE Reply(r, TRUE, s)
          PROVE  CallTypes' /\ ManagerTypes'
      <4>1. s \in Snapshots /\ s.by = r
        BY <1>1, OutcomeTypes DEF Serve, CallsServable
      <4>2. ManagerTypes'
        BY <1>1, <3>1, <4>1, GatewayAssumption, TransitionTypes DEF Serve
      <4> QED BY <1>1, <3>1, <4>1, <4>2, ReplyTypes DEF Serve, CallTypes
    <3>2. CASE Reply(r, FALSE, manager) /\ UNCHANGED << manager, author >>
      <4>1. replies' \subseteq Replies
        BY <3>2, ReplyTypes DEF ManagerTypes
      <4>2. UNCHANGED managerVars
        BY <1>1, <3>2 DEF Serve, managerVars
      <4> QED BY <1>1, <4>1, <4>2, GroupsStay DEF Serve, CallTypes
    <3> QED BY <1>1, <3>1, <3>2 DEF Serve
  <2>2. CallsServable'
    BY <1>1 DEF Serve, CallsServable, requestVars, Kind
  <2> QED BY <1>1, <2>1, <2>2, GroupsStay DEF Serve
<1>2. CASE Activate
  <2> DEFINE s == [manager EXCEPT !.life = "ACTIVE", !.state = "RUNNING", !.rev = @ + 1, !.by = Nobody]
  <2>1. s \in Snapshots /\ s.life = "ACTIVE"
    <3>1. manager \in Snapshots /\ manager.rev + 1 \in Nat
      BY DEF ManagerTypes, Snapshots
    <3> QED BY <3>1, ActivatedTypes, Zenon
  <2>2. Transition(s) /\ Reply(manager.by, TRUE, s)
    BY <1>2 DEF Activate
  <2>3. manager.by \in Requests
    BY <1>2 DEF Activate, ManagerTypes, Snapshots
  <2> HIDE DEF s
  <2>4. CallTypes' /\ ManagerTypes'
    BY <1>2, <2>1, <2>2, <2>3, ReplyTypes, TransitionTypes DEF Activate, CallTypes
  <2> QED BY <1>2, <2>4, GroupsStay DEF Activate, requestVars, callVars
<1>3. CASE MissionMoves
  <2>1. PICK s \in Snapshots : Transition(s) /\ s.life # "STARTING"
    <3> DEFINE next == [manager EXCEPT !.rev = @ + 1]
    <3>1. next \in Snapshots /\ next.life = "ACTIVE"
      <4>1. manager \in Snapshots /\ manager.life = "ACTIVE" /\ manager.rev + 1 \in Nat
        BY <1>3 DEF MissionMoves, ManagerTypes, Snapshots
      <4> QED BY <4>1 DEF Snapshots
    <3>2. \/ Transition(next) \/ Transition([next EXCEPT !.by = Nobody])
          \/ Transition([next EXCEPT !.by = Nobody, !.state = "SUCCEEDED", !.life = "ENDED"])
      BY <1>3 DEF MissionMoves
    <3> HIDE DEF next
    <3>3. /\ [next EXCEPT !.by = Nobody] \in Snapshots
          /\ [next EXCEPT !.by = Nobody].life = "ACTIVE"
          /\ [next EXCEPT !.by = Nobody, !.state = "SUCCEEDED", !.life = "ENDED"] \in Snapshots
          /\ [next EXCEPT !.by = Nobody, !.state = "SUCCEEDED", !.life = "ENDED"].life = "ENDED"
      BY <3>1 DEF Snapshots
    <3> QED BY <3>1, <3>2, <3>3
  <2>2. ManagerTypes'
    BY <1>3, <2>1, TransitionTypes DEF MissionMoves
  <2> QED BY <1>3, <2>2, GroupsStay DEF MissionMoves, requestVars, callVars
<1>4. CASE OnManualVelocity
  <2>1. ManagerTypes'
    <3> PICK v \in velocity, accepted \in BOOLEAN :
           /\ velocityStatus' = [velocityStatus EXCEPT
                ![v.of] = IF accepted THEN << "ACCEPTED", "APPLIED" >> ELSE << "REJECTED" >>]
           /\ moved' = IF accepted THEN moved \cup {v.of} ELSE moved
      BY <1>4 DEF OnManualVelocity
    <3>1. << "ACCEPTED", "APPLIED" >> \in Seq(VelocityStatuses) /\ << "REJECTED" >> \in Seq(VelocityStatuses)
      BY DEF VelocityStatuses
    <3>2. v.of \in Requests
      BY DEF ManagerTypes, Manuals
    <3>3. velocityStatus' \in [Requests -> Seq(VelocityStatuses)]
      BY <3>1 DEF ManagerTypes
    <3> QED BY <1>4, <3>2, <3>3 DEF OnManualVelocity, ManagerTypes
  <2> QED BY <1>4, <2>1, GroupsStay DEF OnManualVelocity, requestVars, callVars
<1> QED BY <1>1, <1>2, <1>3, <1>4 DEF ManagerNext

LEMMA CrashTypes == ASSUME TypeInv, Crash PROVE TypeInv'
<1> USE DEF TypeInv, Crash
<1>1. RequestTypes'
  BY DEF RequestTypes, Stages
<1>2. StoreTypes'
  BY EmptySeq DEF StoreTypes
<1>3. CallTypes' /\ ProjectTypes' /\ ObserveTypes'
  BY FirstSnapshotTypes DEF CallTypes, ProjectTypes, ObserveTypes
<1>4. CallsServable'
  BY DEF CallsServable, CallTypes, RequestTypes, Kind
<1> QED BY <1>1, <1>2, <1>3, <1>4, GroupsStay, GatewayAssumption

LEMMA TypeStep == TypeInv /\ [Next]_vars => TypeInv'
<1> SUFFICES ASSUME TypeInv, [Next]_vars PROVE TypeInv'
  OBVIOUS
<1>1. CASE UNCHANGED vars
  BY <1>1, GroupsStay DEF vars, TypeInv, requestVars, callVars
<1>2. CASE Next
  BY <1>2, LoopTypes, RosTypes, ManagerStepTypes, CrashTypes DEF Next, LoopNext
<1> QED BY <1>1, <1>2

LEMMA TypeInvariant == Spec => []TypeInv
  BY TypeInit, TypeStep, PTL DEF Spec

(* Every variable of the gateway keeps its type, whatever its threads      *)
(* interleave and wherever it crashes.                                     *)
THEOREM GatewayTypeCorrect == Spec => []TypeOK
<1>1. TypeInv => TypeOK
  BY DEF TypeInv, TypeOK, RequestTypes, StoreTypes, CallTypes, ProjectTypes, ObserveTypes,
         ManagerTypes, VelocityStatuses
<1> QED BY <1>1, TypeInvariant, PTL

(***************************************************************************)
(* One command per route and key.                                          *)
(***************************************************************************)
SameSlot(c, d) == Kind(c) = Kind(d) /\ form[c].key = form[d].key

Told(r) == answer[r].code \in {"accepted", "replayed"}

(* A row is there from the stage "inserted" on; no two rows share a slot;  *)
(* and whom a client was told of has a row, in its slot, with its body.    *)
KeyInv ==
  /\ \A r \in Requests : Stored(r) => stage[r] \notin {"new", "sent", "returned"}
  /\ \A r \in Requests : stage[r] \in {"inserted", "announced"} => Stored(r)
  /\ \A c, d \in Requests : Stored(c) /\ Stored(d) /\ SameSlot(c, d) => c = d
  /\ \A r \in Requests : Told(r) =>
       LET c == answer[r].of
       IN  /\ stage[r] = "answered"
           /\ c \in Requests /\ Stored(c) /\ SameSlot(c, r) /\ form[c].body = form[r].body

LEMMA KeyInit == Init => KeyInv
  BY DEF Init, KeyInv, Stored, Told, NewRow

SameRows == \A c \in Requests : Stored(c)' <=> Stored(c)

LEMMA MoveKeepsRows ==
  ASSUME StoreTypes, NEW c, NEW status \in Open \cup Terminal, NEW run \in Nat, NEW rev \in Nat,
         c \in Requests => Stored(c), Move(c, status, run, rev)
  PROVE  SameRows
<1>1. /\ \A r \in Requests : r # c => row'[r] = row[r]
      /\ c \in Requests => row'[c] = [row[c] EXCEPT !.status = status, !.resultRun = run,
                                                    !.resultRev = rev]
  BY DEF Move, StoreTypes
<1>2. c \in Requests => row'[c].status = status
  BY <1>1 DEF StoreTypes, Rows
<1>3. status # "none"
  BY DEF Open, Terminal
<1> QED BY <1>1, <1>2, <1>3 DEF SameRows, Stored

LEMMA CompleteKeepsRows ==
  ASSUME StoreTypes, NEW o \in Observations, Completes(o), Complete(o)
  PROVE  SameRows
<1> DEFINE run == IF o.source = "mission" THEN o.seen.run ELSE o.run
           rev == IF o.source = "mission" THEN o.seen.rev ELSE 0
<1>1. run \in Nat /\ rev \in Nat
  BY DEF Observations, Snapshots
<1>2. Move(o.of, StatusAfter(o), run, rev)
  BY DEF Complete
<1>3. Stored(o.of)
  BY DEF Completes, MissionCompletes, VelocityCompletes, Stored, Open
<1> HIDE DEF run, rev
<1> QED BY <1>1, <1>2, <1>3, StatusAfterTypes, MoveKeepsRows

LEMMA ObserveKeepsRows ==
  ASSUME StoreTypes, NEW o \in Observations, Observe(o)
  PROVE  SameRows
<1>1. CASE Completes(o) /\ Complete(o)
  BY <1>1, CompleteKeepsRows
<1>2. CASE UNCHANGED storeVars
  BY <1>2 DEF storeVars, SameRows, Stored
<1> QED BY <1>1, <1>2 DEF Observe

(* No row comes, and no request is answered. *)
LEMMA KeyFrame ==
  ASSUME KeyInv, UNCHANGED << form, answer >>, SameRows,
         \/ UNCHANGED stage
         \/ \E r \in Requests, to \in Stages :
              /\ stage' = [stage EXCEPT ![r] = to] /\ stage \in [Requests -> Stages]
              /\ \/ stage[r] = "sent" /\ to = "returned"
                 \/ stage[r] = "inserted" /\ to = "announced"
  PROVE  KeyInv'
  BY DEF KeyInv, SameRows, SameSlot, Told, Kind

(* A request is answered, perhaps with a command that is there. *)
LEMMA KeyAnswer ==
  ASSUME TypeInv, KeyInv, UNCHANGED form, SameRows, NEW r \in Requests, NEW code \in Codes, NEW c,
         Answer(r, code, c), stage[r] # "answered",
         code \in {"accepted", "replayed"} =>
           c \in Requests /\ Stored(c) /\ SameSlot(c, r) /\ form[c].body = form[r].body,
         Stored(r) => stage[r] \in {"inserted", "announced"}
  PROVE  KeyInv'
<1>1. /\ answer'[r] = [code |-> code, of |-> c]
      /\ \A q \in Requests \ {r} : answer'[q] = answer[q]
      /\ stage'[r] = "answered" /\ \A q \in Requests \ {r} : stage'[q] = stage[q]
  BY DEF Answer, TypeInv, RequestTypes
<1> QED BY <1>1 DEF KeyInv, SameRows, SameSlot, Told, Kind

LEMMA KeyStep == TypeInv /\ KeyInv /\ [Next]_vars => KeyInv'
<1> SUFFICES ASSUME TypeInv, KeyInv, [Next]_vars PROVE KeyInv'
  OBVIOUS
<1> USE DEF TypeInv
<1>1. UNCHANGED storeVars => SameRows
  BY DEF storeVars, SameRows, Stored
<1>2. CASE UNCHANGED vars
  BY <1>1, <1>2, KeyFrame DEF vars, requestVars
<1>3. ASSUME NEW r \in Requests, NEW f \in Forms, Submit(r, f) PROVE KeyInv'
  <2>1. stage[r] = "new" /\ ~Stored(r) /\ ~Told(r)
    BY <1>3 DEF Submit, KeyInv
  <2>2. SameRows /\ row' = row
    BY <1>1, <1>3 DEF Submit, storeVars
  <2>3. /\ form'[r] = f /\ \A q \in Requests \ {r} : form'[q] = form[q]
    BY <1>3 DEF Submit, RequestTypes
  <2>4. /\ \A q \in Requests \ {r} : stage'[q] = stage[q] /\ answer'[q] = answer[q]
        /\ stage'[r] \in {"sent", "answered"}
        /\ \/ answer'[r].code \notin {"accepted", "replayed"}
           \/ /\ stage'[r] = "answered"
              /\ \E c \in Holders(f) : answer'[r].of = c /\ form[c].body = f.body
    <3>1. CASE \E c \in Holders(f) :
                 IF form[c].body = f.body THEN Answer(r, "replayed", c) ELSE Answer(r, "reused", Nobody)
      BY <3>1 DEF Answer, RequestTypes
    <3>2. CASE Answer(r, "unavailable", Nobody)
      BY <3>2 DEF Answer, RequestTypes
    <3>3. CASE stage' = [stage EXCEPT ![r] = "sent"] /\ UNCHANGED answer
      BY <2>1, <3>3 DEF RequestTypes, Told
    <3> QED BY <1>3, <3>1, <3>2, <3>3 DEF Submit
  <2>5. \A c \in Holders(f) : c \in Requests /\ c # r /\ Stored(c) /\ Kind(c) = f.kind /\ form[c].key = f.key
    BY <2>1 DEF Holders
  <2> QED BY <2>1, <2>2, <2>3, <2>4, <2>5 DEF KeyInv, SameRows, SameSlot, Told, Kind
<1>4. ASSUME NEW r \in Requests, PublishVelocity(r) PROVE KeyInv'
  <2>1. SameRows /\ stage[r] = "sent" /\ ~Stored(r) /\ form' = form
    BY <1>1, <1>4 DEF PublishVelocity, KeyInv
  <2>2. CASE Answer(r, "refused", Nobody)
    BY <2>1, <2>2, KeyAnswer DEF Codes
  <2>3. CASE stage' = [stage EXCEPT ![r] = "returned"] /\ UNCHANGED answer
    BY <2>1, <2>3, KeyFrame DEF RequestTypes, Stages
  <2> QED BY <1>4, <2>2, <2>3 DEF PublishVelocity
<1>5. ASSUME NEW r \in Requests, TimesOut(r) PROVE KeyInv'
  <2>1. SameRows /\ stage[r] = "sent" /\ ~Stored(r) /\ form' = form
    BY <1>1, <1>5 DEF TimesOut, KeyInv
  <2> QED BY <1>5, <2>1, KeyAnswer DEF TimesOut, Codes
<1>6. ASSUME NEW r \in Requests, Returned(r) PROVE KeyInv'
  <2>1. SameRows /\ stage[r] = "sent" /\ ~Stored(r) /\ form' = form
    BY <1>1, <1>6 DEF Returned, KeyInv
  <2>2. CASE Answer(r, "refused", Nobody)
    BY <2>1, <2>2, KeyAnswer DEF Codes
  <2>3. CASE stage' = [stage EXCEPT ![r] = "returned"] /\ UNCHANGED answer
    BY <2>1, <2>3, KeyFrame DEF RequestTypes, Stages
  <2> QED BY <1>6, <2>2, <2>3 DEF Returned
<1>7. ASSUME NEW r \in Requests, Insert(r) PROVE KeyInv'
  <2>1. stage[r] = "returned" /\ ~Stored(r) /\ form' = form /\ ~Told(r)
    BY <1>7 DEF Insert, KeyInv
  <2>2. CASE Answer(r, "error", Nobody) /\ UNCHANGED row
    <3>1. SameRows
      BY <2>2 DEF SameRows, Stored
    <3> QED BY <2>1, <2>2, <3>1, KeyAnswer DEF Codes
  <2>3. CASE /\ Holders(form[r]) = {}
             /\ \E a \in Expectations(r) : row' = [row EXCEPT ![r] = Inserted(r, a)]
             /\ stage' = [stage EXCEPT ![r] = "inserted"]
             /\ UNCHANGED answer
    <3>1. /\ row'[r].status = "accepted" /\ \A q \in Requests \ {r} : row'[q] = row[q]
      BY <2>3 DEF StoreTypes, Inserted, Rows
    <3>2. stage'[r] = "inserted" /\ \A q \in Requests \ {r} : stage'[q] = stage[q]
      BY <2>3 DEF RequestTypes
    <3>3. \A c \in Requests : Stored(c) => ~SameSlot(c, r)
      BY <2>3 DEF Holders, SameSlot, Kind
    <3>4. Stored(r)' /\ \A c \in Requests \ {r} : Stored(c)' <=> Stored(c)
      BY <3>1 DEF Stored
    <3> QED BY <2>1, <2>3, <3>2, <3>3, <3>4 DEF KeyInv, SameSlot, Told, Kind
  <2> QED BY <1>7, <2>2, <2>3 DEF Insert
<1>8. ASSUME NEW r \in Requests, Announce(r) PROVE KeyInv'
  <2>1. Stored(r) /\ stage[r] = "inserted" /\ UNCHANGED << form, answer >>
        /\ stage' = [stage EXCEPT ![r] = "announced"]
    BY <1>8 DEF Announce, KeyInv
  <2>2. SameRows
    <3>1. CASE UNCHANGED row
      BY <3>1 DEF SameRows, Stored
    <3>2. CASE row' = [row EXCEPT ![r].status = "succeeded", ![r].resultRun = context.run,
                                  ![r].resultRev = mission.rev]
      <4>1. row'[r].status = "succeeded" /\ \A q \in Requests \ {r} : row'[q] = row[q]
        BY <3>2 DEF StoreTypes, Rows
      <4> QED BY <2>1, <4>1 DEF SameRows, Stored
    <3> QED BY <1>8, <3>1, <3>2 DEF Announce
  <2> QED BY <2>1, <2>2, KeyFrame DEF RequestTypes, Stages
<1>9. ASSUME NEW r \in Requests, Replay(r) PROVE KeyInv'
  <2>1. Stored(r) /\ stage[r] = "announced" /\ form' = form /\ Answer(r, "accepted", r)
    BY <1>9 DEF Replay, KeyInv
  <2>2. SameRows
    <3>1. ASSUME NEW o \in ObservedOf(r), Completes(o), Complete(o) PROVE SameRows
      BY <3>1, CompleteKeepsRows DEF ObservedOf, ObserveTypes
    <3> QED BY <1>1, <1>9, <3>1 DEF Replay
  <2> QED BY <2>1, <2>2, KeyAnswer DEF SameSlot, Codes
<1>10. ASSUME NEW r \in Requests, Expire(r) PROVE KeyInv'
  <2>1. SameRows
    BY <1>10, MoveKeepsRows DEF Expire, Terminal, Open, Stored
  <2> QED BY <1>10, <2>1, KeyFrame DEF Expire, requestVars
<1>11. CASE OnContext \/ Remember
  BY <1>1, <1>11, KeyFrame DEF OnContext, Remember, requestVars
<1>12. CASE OnMission
  <2>1. SameRows
    <3>1. CASE manager.by = Nobody
      BY <1>1, <1>12, <3>1 DEF OnMission
    <3>2. CASE manager.by # Nobody
      <4> DEFINE o == [of |-> manager.by, source |-> "mission", seen |-> manager]
      <4>1. o \in Observations /\ Observe(o)
        BY <1>12, <3>2 DEF OnMission, Observations, ManagerTypes, Snapshots
      <4> HIDE DEF o
      <4> QED BY <4>1, ObserveKeepsRows
    <3> QED BY <3>1, <3>2
  <2> QED BY <1>12, <2>1, KeyFrame DEF OnMission, requestVars
<1>13. ASSUME NEW r \in Requests, OnVelocityStatus(r) PROVE KeyInv'
  <2>1. SameRows
    <3> DEFINE status == Head(velocityStatus[r])
    <3>1. status \in VelocityStatuses
      BY <1>13, HeadTailProperties DEF OnVelocityStatus, ManagerTypes
    <3>2. ASSUME NEW m \in manual, NEW stamped \in BOOLEAN,
                 Observe([of |-> r, source |-> "velocity", status |-> status,
                          run |-> m.run, stamped |-> stamped])
          PROVE  SameRows
      <4> DEFINE o == [of |-> r, source |-> "velocity", status |-> status,
                       run |-> m.run, stamped |-> stamped]
      <4>1. m.run \in Nat
        BY DEF ObserveTypes, Manuals
      <4>2. o \in Observations
        BY <3>1, <4>1 DEF Observations, VelocityStatuses
      <4>3. Observe(o)
        BY <3>2
      <4> HIDE DEF o
      <4> QED BY <4>2, <4>3, ObserveKeepsRows
    <3> QED BY <1>1, <1>13, <3>2 DEF OnVelocityStatus
  <2> QED BY <1>13, <2>1, KeyFrame DEF OnVelocityStatus, requestVars
<1>14. CASE ManagerNext
  <2>1. UNCHANGED << requestVars, storeVars >>
    BY <1>14 DEF ManagerNext, Serve, Activate, MissionMoves, OnManualVelocity
  <2> QED BY <1>1, <2>1, KeyFrame DEF requestVars
<1>15. CASE Crash
  BY <1>15 DEF Crash, KeyInv, RequestTypes, Stored, SameSlot, Told, Kind
<1> QED BY <1>2, <1>3, <1>4, <1>5, <1>6, <1>7, <1>8, <1>9, <1>10, <1>11, <1>12, <1>13, <1>14, <1>15
        DEF Next, LoopNext, RosNext

LEMMA KeyInvariant == Spec => []KeyInv
  BY TypeInvariant, KeyInit, KeyStep, PTL DEF Spec

(* Clients that were told of a command under one route and key were told   *)
(* of one command, whose body is theirs: find_idempotency and the UNIQUE   *)
(* constraint together, over any interleaving, timeout and crash.          *)
THEOREM SameKeySameCommandAlways == Spec => []SameKeySameCommand
<1>1. KeyInv => SameKeySameCommand
  <2> SUFFICES ASSUME KeyInv, NEW p \in Requests, NEW q \in Requests, Told(p), Told(q),
                      SameSlot(p, q)
               PROVE  answer[p].of = answer[q].of /\ form[p].body = form[q].body
    BY DEF SameKeySameCommand, Told, SameSlot
  <2> QED BY DEF KeyInv, SameSlot
<1> QED BY <1>1, KeyInvariant, PTL

(***************************************************************************)
(* The result of a command is its own.  What the gateway has seen of the   *)
(* task manager is a revision that was, by the author it names, and what   *)
(* it has seen of the robot is a command that moved it.                    *)
(***************************************************************************)
IsPast(s) ==
  \/ s.rev = 0 /\ s.by = Nobody
  \/ s.rev \in 1 .. Len(author) /\ author[s.rev] = s.by

TrueObservation(o) ==
  IF o.source = "mission" THEN IsPast(o.seen) ELSE o.status = "APPLIED" => o.of \in moved

OwnResult(c) ==
  IF Kind(c) = "velocity" THEN c \in moved
  ELSE /\ row[c].resultRev \in 1 .. Len(author) /\ row[c].resultRev >= row[c].rev
       /\ author[row[c].resultRev] = c

AuthorInv == Len(author) >= 1 /\ manager.rev = Len(author) /\ author[Len(author)] = manager.by

SeenInv ==
  /\ IsPast(mission)
  /\ \A o \in observing \cup remembered : TrueObservation(o)

StatusInv ==
  \A r \in Requests : \A i \in DOMAIN velocityStatus[r] :
    velocityStatus[r][i] = "APPLIED" => r \in moved

ResultsOwn == \A c \in Requests : row[c].status = "succeeded" => OwnResult(c)

OwnInv == AuthorInv /\ SeenInv /\ StatusInv /\ ResultsOwn

LEMMA OwnInit == Init => OwnInv
<1> SUFFICES ASSUME Init PROVE OwnInv
  OBVIOUS
<1> USE DEF Init
<1>1. AuthorInv
  BY FirstSnapshotTypes DEF AuthorInv
<1>2. SeenInv
  BY FirstSnapshotTypes DEF SeenInv, IsPast, Snapshots
<1>3. StatusInv /\ ResultsOwn
  BY DEF StatusInv, ResultsOwn, NewRow
<1> QED BY <1>1, <1>2, <1>3 DEF OwnInv

(* The history only grows.                                                 *)
HistoryGrows ==
  /\ moved \subseteq moved'
  /\ Len(author') >= Len(author) /\ Len(author') \in Nat
  /\ \A n \in 1 .. Len(author) : author'[n] = author[n]

LEMMA PastStays ==
  ASSUME TypeInv, HistoryGrows
  PROVE  /\ \A s : s.rev \in Nat /\ IsPast(s) => IsPast(s)'
         /\ \A o \in Observations : TrueObservation(o) => TrueObservation(o)'
<1>1. Len(author) \in Nat
  BY LenProperties DEF TypeInv, ManagerTypes
<1>2. ASSUME NEW s, s.rev \in Nat, IsPast(s) PROVE IsPast(s)'
  BY <1>1, <1>2 DEF IsPast, HistoryGrows
<1>3. ASSUME NEW o \in Observations, TrueObservation(o) PROVE TrueObservation(o)'
  <2>1. CASE o.source = "mission"
    <3>1. o.seen.rev \in Nat
      BY <2>1 DEF Observations, Snapshots
    <3> QED BY <1>2, <1>3, <2>1, <3>1 DEF TrueObservation
  <2>2. CASE o.source # "mission"
    BY <1>3, <2>2 DEF TrueObservation, HistoryGrows
  <2> QED BY <2>1, <2>2
<1> QED BY <1>2, <1>3

LEMMA ResultsStay ==
  ASSUME TypeInv, ResultsOwn, HistoryGrows,
         \A c \in Requests : row'[c].status = "succeeded" =>
           OwnResult(c)' \/ (row'[c] = row[c] /\ Kind(c)' = Kind(c))
  PROVE  ResultsOwn'
<1>1. Len(author) \in Nat
  BY LenProperties DEF TypeInv, ManagerTypes
<1>2. ASSUME NEW c \in Requests, row[c].status = "succeeded", row'[c] = row[c], Kind(c)' = Kind(c)
      PROVE  OwnResult(c)'
  <2>1. OwnResult(c)
    BY <1>2 DEF ResultsOwn
  <2> QED BY <1>1, <1>2, <2>1 DEF OwnResult, HistoryGrows
<1> QED BY <1>2 DEF ResultsOwn

(* Nothing of the history, nothing seen and no row changes. *)
LEMMA OwnFrame ==
  ASSUME TypeInv, OwnInv, UNCHANGED << manager, moved, author, mission, velocityStatus >>,
         observing' \cup remembered' \subseteq observing \cup remembered
  PROVE  /\ AuthorInv' /\ SeenInv' /\ StatusInv' /\ HistoryGrows
         /\ UNCHANGED << form, row >> => OwnInv'
<1>1. AuthorInv' /\ StatusInv'
  BY DEF OwnInv, AuthorInv, StatusInv
<1>2. SeenInv'
  BY DEF OwnInv, SeenInv, IsPast, TrueObservation
<1>3. HistoryGrows
  BY LenProperties DEF HistoryGrows, TypeInv, ManagerTypes
<1>4. ASSUME UNCHANGED << form, row >> PROVE ResultsOwn'
  BY <1>4 DEF OwnInv, ResultsOwn, OwnResult, Kind
<1> QED BY <1>1, <1>2, <1>3, <1>4 DEF OwnInv

(* An observation completes its command with what it saw.                  *)
LEMMA CompleteOwn ==
  ASSUME TypeInv, OwnInv, UNCHANGED << form, moved, author >>,
         NEW o \in Observations, TrueObservation(o), Completes(o), Complete(o)
  PROVE  ResultsOwn'
<1>1. StoreTypes /\ ManagerTypes
  BY DEF TypeInv
<1>2. o.of \in Requests
  BY DEF Observations
<1> DEFINE run == IF o.source = "mission" THEN o.seen.run ELSE o.run
           rev == IF o.source = "mission" THEN o.seen.rev ELSE 0
<1>3. run \in Nat /\ rev \in Nat /\ Move(o.of, StatusAfter(o), run, rev)
  BY DEF Observations, Snapshots, Complete
<1> HIDE DEF run, rev
<1>4. /\ \A c \in Requests : c # o.of => row'[c] = row[c]
      /\ row'[o.of].status = StatusAfter(o) /\ row'[o.of].resultRev = rev
      /\ row'[o.of].rev = row[o.of].rev
  BY <1>1, <1>2, <1>3 DEF Move, StoreTypes, Rows
<1>5. HistoryGrows
  BY <1>1, LenProperties DEF HistoryGrows, ManagerTypes
<1>6. StatusAfter(o) = "succeeded" => OwnResult(o.of)'
  <2>1. CASE o.source = "mission"
    <3>1. rev = o.seen.rev /\ MissionCompletes(o.of, o.seen) /\ IsPast(o.seen)
      BY <2>1 DEF rev, Completes, TrueObservation
    <3>2. /\ o.seen.by = o.of /\ o.seen.rev >= row[o.of].rev /\ Kind(o.of) # "velocity"
      BY <3>1 DEF MissionCompletes
    <3>3. rev \in 1 .. Len(author) /\ author[rev] = o.of
      BY <1>2, <3>1, <3>2, GatewayAssumption DEF IsPast
    <3> QED BY <1>4, <3>1, <3>2, <3>3 DEF OwnResult, Kind
  <2>2. CASE o.source # "mission"
    <3>1. Kind(o.of) = "velocity"
      BY <2>2 DEF Completes, VelocityCompletes
    <3>2. StatusAfter(o) = "succeeded" => o.status = "APPLIED"
      <4>1. o.status \in VelocityStatuses
        BY <2>2 DEF Observations, VelocityStatuses
      <4> QED BY <2>2, <4>1 DEF StatusAfter, VelocityStatuses
    <3> QED BY <2>2, <3>1, <3>2 DEF OwnResult, Kind, TrueObservation
  <2> QED BY <2>1, <2>2
<1>7. \A c \in Requests : Kind(c)' = Kind(c)
  BY DEF Kind
<1> QED BY <1>2, <1>4, <1>5, <1>6, <1>7, ResultsStay DEF OwnInv

LEMMA ObserveOwn ==
  ASSUME TypeInv, OwnInv, UNCHANGED << form, moved, author >>,
         NEW o \in Observations, TrueObservation(o), Observe(o)
  PROVE  /\ ResultsOwn'
         /\ \A p \in observing' \cup remembered' : TrueObservation(p)'
<1>1. \A p : TrueObservation(p) => TrueObservation(p)'
  BY DEF TrueObservation, IsPast
<1>2. CASE /\ Completes(o) /\ Complete(o) /\ observing' = observing
           /\ remembered' \subseteq remembered
  BY <1>1, <1>2, CompleteOwn DEF OwnInv, SeenInv
<1>3. CASE observing' = {o} /\ UNCHANGED << storeVars, remembered >>
  <2>1. ResultsOwn'
    BY <1>3 DEF OwnInv, ResultsOwn, OwnResult, Kind, storeVars
  <2> QED BY <1>1, <1>3, <2>1 DEF OwnInv, SeenInv
<1> QED BY <1>2, <1>3 DEF Observe

(* A row that is closed by the clock has not succeeded. *)
LEMMA ExpireOwn ==
  ASSUME TypeInv, OwnInv, NEW r \in Requests, Expire(r)
  PROVE  OwnInv'
<1>1. /\ \A c \in Requests : c # r => row'[c] = row[c]
      /\ row'[r].status = "timed_out"
  BY DEF Expire, Move, TypeInv, StoreTypes, Rows
<1>2. UNCHANGED << form, manager, moved, author, mission, velocityStatus, observing, remembered >>
  BY DEF Expire, requestVars, projectVars, observeVars, managerVars
<1>3. AuthorInv' /\ SeenInv' /\ StatusInv' /\ HistoryGrows
  BY <1>2, OwnFrame
<1>4. \A c \in Requests : Kind(c)' = Kind(c)
  BY <1>2 DEF Kind
<1> QED BY <1>1, <1>3, <1>4, ResultsStay DEF OwnInv

LEMMA LoopOwn ==
  ASSUME TypeInv, KeyInv, OwnInv, NEW r \in Requests,
         \/ \E f \in Forms : Submit(r, f)
         \/ PublishVelocity(r) \/ TimesOut(r) \/ Returned(r)
         \/ Insert(r) \/ Announce(r) \/ Replay(r) \/ Expire(r)
  PROVE  OwnInv'
<1>1. ASSUME NEW f \in Forms, Submit(r, f) PROVE OwnInv'
  <2>1. UNCHANGED << row, manager, moved, author, mission, velocityStatus, observing, remembered >>
    BY <1>1 DEF Submit, storeVars, projectVars, observeVars, managerVars
  <2>2. AuthorInv' /\ SeenInv' /\ StatusInv' /\ HistoryGrows
    BY <2>1, OwnFrame
  <2>3. row[r].status = "none"
    BY <1>1 DEF Submit, KeyInv, Stored
  <2>4. \A c \in Requests : c # r => Kind(c)' = Kind(c)
    BY <1>1 DEF Submit, Kind, TypeInv, RequestTypes
  <2> QED BY <2>1, <2>2, <2>3, <2>4, ResultsStay DEF OwnInv
<1>2. CASE PublishVelocity(r) \/ TimesOut(r) \/ Returned(r)
  <2>1. UNCHANGED << form, row, manager, moved, author, mission, velocityStatus, observing, remembered >>
    BY <1>2 DEF PublishVelocity, TimesOut, Returned, storeVars, projectVars, observeVars, managerVars
  <2> QED BY <2>1, OwnFrame
<1>3. CASE Insert(r)
  <2>1. UNCHANGED << form, manager, moved, author, mission, velocityStatus, observing, remembered >>
    BY <1>3 DEF Insert, projectVars, observeVars, managerVars
  <2>2. AuthorInv' /\ SeenInv' /\ StatusInv' /\ HistoryGrows
    BY <2>1, OwnFrame
  <2>3. \A c \in Requests : row'[c].status = "succeeded" => row'[c] = row[c]
    <3>1. CASE \E a \in Expectations(r) : row' = [row EXCEPT ![r] = Inserted(r, a)]
      <4>1. row'[r].status = "accepted" /\ \A q \in Requests \ {r} : row'[q] = row[q]
        BY <3>1 DEF TypeInv, StoreTypes, Inserted, Rows
      <4> QED BY <4>1
    <3>2. CASE UNCHANGED row
      BY <3>2
    <3> QED BY <1>3, <3>1, <3>2 DEF Insert
  <2>4. \A c \in Requests : Kind(c)' = Kind(c)
    BY <2>1 DEF Kind
  <2> QED BY <2>2, <2>3, <2>4, ResultsStay DEF OwnInv
<1>4. CASE Announce(r)
  <2>1. UNCHANGED << form, manager, moved, author, mission, velocityStatus, observing, remembered >>
    BY <1>4 DEF Announce, projectVars, observeVars, managerVars
  <2>2. AuthorInv' /\ SeenInv' /\ StatusInv' /\ HistoryGrows
    BY <2>1, OwnFrame
  <2>3. CASE UNCHANGED row
    BY <2>1, <2>3, OwnFrame
  <2>4. CASE /\ Kind(r) \in MissionKinds /\ MissionCompletes(r, mission)
             /\ row' = [row EXCEPT ![r].status = "succeeded", ![r].resultRun = context.run,
                                   ![r].resultRev = mission.rev]
    <3>1. /\ \A q \in Requests \ {r} : row'[q] = row[q]
          /\ row'[r].resultRev = mission.rev /\ row'[r].rev = row[r].rev
      BY <2>4 DEF TypeInv, StoreTypes, Rows
    <3>2. /\ mission.by = r /\ mission.rev >= row[r].rev /\ Kind(r) # "velocity"
      BY <2>4 DEF MissionCompletes, MissionKinds
    <3>3. mission.rev \in 1 .. Len(author) /\ author[mission.rev] = r
      BY <3>2, GatewayAssumption DEF OwnInv, SeenInv, IsPast
    <3>4. OwnResult(r)'
      BY <2>1, <3>1, <3>2, <3>3 DEF OwnResult, Kind
    <3>5. \A c \in Requests : Kind(c)' = Kind(c)
      BY <2>1 DEF Kind
    <3> QED BY <2>2, <3>1, <3>4, <3>5, ResultsStay DEF OwnInv
  <2> QED BY <1>4, <2>3, <2>4 DEF Announce
<1>5. CASE Replay(r)
  <2>1. /\ UNCHANGED << form, manager, moved, author, mission, velocityStatus >>
        /\ observing' \cup remembered' \subseteq observing \cup remembered
    BY <1>5 DEF Replay, projectVars, managerVars
  <2>2. AuthorInv' /\ SeenInv' /\ StatusInv'
    BY <2>1, OwnFrame
  <2>3. ResultsOwn'
    <3>1. ASSUME NEW o \in ObservedOf(r), Completes(o), Complete(o) PROVE ResultsOwn'
      <4>1. o \in Observations /\ TrueObservation(o)
        BY DEF ObservedOf, TypeInv, ObserveTypes, OwnInv, SeenInv
      <4> QED BY <2>1, <3>1, <4>1, CompleteOwn
    <3>2. CASE UNCHANGED storeVars
      BY <2>1, <3>2, OwnFrame DEF storeVars, OwnInv
    <3> QED BY <1>5, <3>1, <3>2 DEF Replay
  <2> QED BY <2>2, <2>3 DEF OwnInv
<1> QED BY <1>1, <1>2, <1>3, <1>4, <1>5, ExpireOwn

LEMMA RosOwn == ASSUME TypeInv, OwnInv, RosNext PROVE OwnInv'
<1>1. CASE OnContext \/ Remember
  <2>1. /\ UNCHANGED << form, row, manager, moved, author, mission, velocityStatus >>
        /\ observing' \cup remembered' \subseteq observing \cup remembered
    BY <1>1 DEF OnContext, Remember, requestVars, storeVars, projectVars, observeVars, managerVars
  <2> QED BY <2>1, OwnFrame
<1>2. CASE OnMission
  <2>1. UNCHANGED << form, manager, moved, author, velocityStatus >> /\ mission' = manager
    BY <1>2 DEF OnMission, requestVars, managerVars
  <2>2. AuthorInv' /\ StatusInv'
    BY <2>1 DEF OwnInv, AuthorInv, StatusInv
  <2>3. IsPast(manager)
    BY DEF OwnInv, AuthorInv, IsPast, TypeInv, ManagerTypes, Snapshots
  <2>4. IsPast(mission)'
    BY <2>1, <2>3 DEF IsPast
  <2>5. ResultsOwn' /\ \A p \in observing' \cup remembered' : TrueObservation(p)'
    <3>1. CASE manager.by = Nobody
      <4>1. UNCHANGED << row, observing, remembered >>
        BY <1>2, <3>1 DEF OnMission, storeVars
      <4> QED BY <2>1, <4>1 DEF OwnInv, SeenInv, ResultsOwn, OwnResult, Kind, TrueObservation, IsPast
    <3>2. CASE manager.by # Nobody
      <4> DEFINE o == [of |-> manager.by, source |-> "mission", seen |-> manager]
      <4>1. o \in Observations /\ Observe(o) /\ TrueObservation(o)
        BY <1>2, <2>3, <3>2
        DEF OnMission, Observations, TypeInv, ManagerTypes, Snapshots, TrueObservation
      <4> HIDE DEF o
      <4> QED BY <2>1, <4>1, ObserveOwn
    <3> QED BY <3>1, <3>2
  <2> QED BY <2>2, <2>4, <2>5 DEF OwnInv, SeenInv
<1>3. ASSUME NEW r \in Requests, OnVelocityStatus(r) PROVE OwnInv'
  <2> DEFINE status == Head(velocityStatus[r])
  <2>1. UNCHANGED << form, manager, moved, author, mission >>
    BY <1>3 DEF OnVelocityStatus, requestVars, projectVars
  <2>2. /\ velocityStatus[r] \in Seq(VelocityStatuses) /\ velocityStatus[r] # << >>
        /\ velocityStatus' = [velocityStatus EXCEPT ![r] = Tail(@)]
    BY <1>3 DEF OnVelocityStatus, TypeInv, ManagerTypes
  <2>3. status \in VelocityStatuses /\ (status = "APPLIED" => r \in moved)
    BY <2>2, HeadTailProperties DEF OwnInv, StatusInv
  <2>4. StatusInv'
    <3>1. \A i \in DOMAIN Tail(velocityStatus[r]) :
            i + 1 \in DOMAIN velocityStatus[r] /\ Tail(velocityStatus[r])[i] = velocityStatus[r][i + 1]
      BY <2>2
    <3>2. /\ velocityStatus'[r] = Tail(velocityStatus[r])
          /\ \A q \in Requests \ {r} : velocityStatus'[q] = velocityStatus[q]
      BY <2>2 DEF TypeInv, ManagerTypes
    <3>3. ASSUME NEW i \in DOMAIN Tail(velocityStatus[r]), Tail(velocityStatus[r])[i] = "APPLIED"
          PROVE  r \in moved
      BY <3>1, <3>3 DEF OwnInv, StatusInv
    <3> HIDE DEF status
    <3>4. ASSUME NEW q \in Requests, NEW i \in DOMAIN velocityStatus'[q],
                 velocityStatus'[q][i] = "APPLIED"
          PROVE  q \in moved
      <4>1. CASE q = r
        BY <3>2, <3>3, <3>4, <4>1
      <4>2. CASE q # r
        BY <3>2, <3>4, <4>2 DEF OwnInv, StatusInv
      <4> QED BY <4>1, <4>2
    <3> QED BY <2>1, <3>4 DEF StatusInv
  <2>5. AuthorInv' /\ IsPast(mission)'
    BY <2>1 DEF OwnInv, AuthorInv, SeenInv, IsPast
  <2>6. ResultsOwn' /\ \A p \in observing' \cup remembered' : TrueObservation(p)'
    <3>1. ASSUME NEW m \in manual, NEW stamped \in BOOLEAN,
                 Observe([of |-> r, source |-> "velocity", status |-> status,
                          run |-> m.run, stamped |-> stamped])
          PROVE  ResultsOwn' /\ \A p \in observing' \cup remembered' : TrueObservation(p)'
      <4> DEFINE o == [of |-> r, source |-> "velocity", status |-> status,
                       run |-> m.run, stamped |-> stamped]
      <4>1. m.run \in Nat
        BY DEF TypeInv, ObserveTypes, Manuals
      <4>2. o \in Observations /\ TrueObservation(o)
        BY <2>3, <4>1 DEF Observations, VelocityStatuses, TrueObservation
      <4>3. Observe(o)
        BY <3>1
      <4> HIDE DEF o
      <4> QED BY <2>1, <4>2, <4>3, ObserveOwn
    <3>2. CASE UNCHANGED << storeVars, remembered, observing >>
      BY <2>1, <3>2
      DEF OwnInv, SeenInv, ResultsOwn, OwnResult, Kind, TrueObservation, IsPast, storeVars
    <3> QED BY <1>3, <3>1, <3>2 DEF OnVelocityStatus
  <2> QED BY <2>4, <2>5, <2>6 DEF OwnInv, SeenInv
<1> QED BY <1>1, <1>2, <1>3 DEF RosNext

(* A transition is the last revision, and its author's. *)
LEMMA TransitionOwn ==
  ASSUME TypeInv, OwnInv, NEW s \in Snapshots, s.rev = manager.rev + 1, Transition(s),
         UNCHANGED << form, row, mission, observing, remembered, velocityStatus, moved >>
  PROVE  OwnInv'
<1>1. /\ author \in Seq(Requests \cup {Nobody}) /\ s.by \in Requests \cup {Nobody}
      /\ author' = Append(author, s.by) /\ manager' = s
  BY DEF TypeInv, ManagerTypes, Snapshots, Transition
<1>2. /\ Len(author) \in Nat /\ Len(author') = Len(author) + 1
      /\ author'[Len(author) + 1] = s.by
      /\ \A n \in 1 .. Len(author) : author'[n] = author[n]
  BY <1>1, AppendProperties, LenProperties
<1>3. HistoryGrows
  BY <1>2 DEF HistoryGrows
<1>4. AuthorInv' /\ StatusInv'
  BY <1>1, <1>2 DEF OwnInv, AuthorInv, StatusInv
<1>5. SeenInv'
  <2>1. mission.rev \in Nat /\ observing \cup remembered \subseteq Observations
    BY DEF TypeInv, ProjectTypes, ObserveTypes, Snapshots
  <2>2. IsPast(mission)'
    BY <1>2, <2>1 DEF OwnInv, SeenInv, IsPast
  <2> QED BY <1>3, <2>1, <2>2, PastStays DEF OwnInv, SeenInv
<1>6. ResultsOwn'
  BY <1>3, ResultsStay DEF OwnInv, Kind
<1> QED BY <1>4, <1>5, <1>6 DEF OwnInv

LEMMA ManagerOwn == ASSUME TypeInv, OwnInv, ManagerNext PROVE OwnInv'
<1>1. manager \in Snapshots /\ manager.rev + 1 \in Nat
  BY DEF TypeInv, ManagerTypes, Snapshots
<1>2. ASSUME NEW r \in Requests, Serve(r) PROVE OwnInv'
  <2>1. UNCHANGED << form, row, mission, observing, remembered, velocityStatus, moved >>
    BY <1>2 DEF Serve, requestVars, storeVars, projectVars, observeVars
  <2>2. ASSUME NEW s \in Outcomes(r), Transition(s) PROVE OwnInv'
    <3>1. s \in Snapshots /\ s.rev = manager.rev + 1
      BY <1>2, OutcomeTypes DEF Serve, TypeInv, CallsServable
    <3> QED BY <2>1, <2>2, <3>1, TransitionOwn
  <2>3. CASE UNCHANGED << manager, author >>
    BY <2>1, <2>3, OwnFrame
  <2> QED BY <1>2, <2>2, <2>3 DEF Serve
<1>3. CASE Activate
  <2> DEFINE s == [manager EXCEPT !.life = "ACTIVE", !.state = "RUNNING", !.rev = @ + 1, !.by = Nobody]
  <2>1. s \in Snapshots
    BY <1>1, ActivatedTypes, Zenon
  <2>2. s.rev = manager.rev + 1
    BY <1>1 DEF Snapshots
  <2>3. Transition(s)
    BY <1>3 DEF Activate
  <2> HIDE DEF s
  <2>4. UNCHANGED << form, row, mission, observing, remembered, velocityStatus, moved >>
    BY <1>3 DEF Activate, requestVars, storeVars, projectVars, observeVars
  <2> QED BY <2>1, <2>2, <2>3, <2>4, TransitionOwn
<1>4. CASE MissionMoves
  <2> DEFINE next == [manager EXCEPT !.rev = @ + 1]
  <2>1. next \in Snapshots /\ next.rev = manager.rev + 1
    BY <1>1 DEF Snapshots
  <2>2. \/ Transition(next) \/ Transition([next EXCEPT !.by = Nobody])
        \/ Transition([next EXCEPT !.by = Nobody, !.state = "SUCCEEDED", !.life = "ENDED"])
    BY <1>4 DEF MissionMoves
  <2> HIDE DEF next
  <2>3. /\ [next EXCEPT !.by = Nobody] \in Snapshots
        /\ [next EXCEPT !.by = Nobody].rev = next.rev
        /\ [next EXCEPT !.by = Nobody, !.state = "SUCCEEDED", !.life = "ENDED"] \in Snapshots
        /\ [next EXCEPT !.by = Nobody, !.state = "SUCCEEDED", !.life = "ENDED"].rev = next.rev
    BY <2>1 DEF Snapshots
  <2>4. UNCHANGED << form, row, mission, observing, remembered, velocityStatus, moved >>
    BY <1>4 DEF MissionMoves, requestVars, storeVars, projectVars, observeVars
  <2> QED BY <2>1, <2>2, <2>3, <2>4, TransitionOwn
<1>5. CASE OnManualVelocity
  <2>1. UNCHANGED << form, row, manager, author, mission, observing, remembered >>
    BY <1>5 DEF OnManualVelocity, requestVars, storeVars, projectVars, observeVars
  <2> PICK v \in velocity, accepted \in BOOLEAN :
         /\ velocityStatus' = [velocityStatus EXCEPT
              ![v.of] = IF accepted THEN << "ACCEPTED", "APPLIED" >> ELSE << "REJECTED" >>]
         /\ moved' = IF accepted THEN moved \cup {v.of} ELSE moved
    BY <1>5 DEF OnManualVelocity
  <2>2. v.of \in Requests
    BY DEF TypeInv, ManagerTypes, Manuals
  <2>3. HistoryGrows
    BY <2>1, LenProperties DEF HistoryGrows, TypeInv, ManagerTypes
  <2>4. StatusInv'
    <3>1. /\ velocityStatus'[v.of] = IF accepted THEN << "ACCEPTED", "APPLIED" >> ELSE << "REJECTED" >>
          /\ \A q \in Requests \ {v.of} : velocityStatus'[q] = velocityStatus[q]
      BY <2>2 DEF TypeInv, ManagerTypes
    <3>2. \A i \in DOMAIN velocityStatus'[v.of] :
            velocityStatus'[v.of][i] = "APPLIED" => v.of \in moved'
      BY <3>1
    <3> QED BY <2>3, <3>1, <3>2 DEF OwnInv, StatusInv, HistoryGrows
  <2>5. AuthorInv' /\ SeenInv'
    <3>1. observing \cup remembered \subseteq Observations
      BY DEF TypeInv, ObserveTypes
    <3> QED BY <2>1, <2>3, <3>1, PastStays DEF OwnInv, AuthorInv, SeenInv, IsPast
  <2>6. ResultsOwn'
    BY <2>1, <2>3, ResultsStay DEF OwnInv, Kind
  <2> QED BY <2>4, <2>5, <2>6 DEF OwnInv
<1> QED BY <1>2, <1>3, <1>4, <1>5 DEF ManagerNext

LEMMA CrashOwn == ASSUME TypeInv, OwnInv, Crash PROVE OwnInv'
<1>1. UNCHANGED << form, row, manager, moved, author, velocityStatus >>
  BY DEF Crash, managerVars
<1>2. AuthorInv' /\ StatusInv' /\ ResultsOwn'
  BY <1>1 DEF OwnInv, AuthorInv, StatusInv, ResultsOwn, OwnResult, Kind
<1>3. SeenInv'
  <2>1. mission'.by = Nobody /\ mission'.rev = 0
    BY FirstSnapshotTypes DEF Crash, FirstSnapshot
  <2> QED BY <2>1 DEF Crash, SeenInv, IsPast
<1> QED BY <1>2, <1>3 DEF OwnInv

LEMMA OwnStep == TypeInv /\ KeyInv /\ OwnInv /\ [Next]_vars => OwnInv'
<1> SUFFICES ASSUME TypeInv, KeyInv, OwnInv, [Next]_vars PROVE OwnInv'
  OBVIOUS
<1>1. CASE UNCHANGED vars
  <2>1. UNCHANGED << form, row, manager, moved, author, mission, velocityStatus, observing, remembered >>
    BY <1>1 DEF vars, requestVars, storeVars, projectVars, observeVars, managerVars
  <2> QED BY <2>1, OwnFrame
<1>2. CASE Next
  BY <1>2, LoopOwn, RosOwn, ManagerOwn, CrashOwn DEF Next, LoopNext
<1> QED BY <1>1, <1>2

LEMMA OwnInvariant == Spec => []OwnInv
  BY TypeInvariant, KeyInvariant, OwnInit, OwnStep, PTL DEF Spec

(* A succeeded command reports a revision of the task manager that is its  *)
(* own transition, or a velocity that moved the robot, whoever completed   *)
(* the row: an observer, the memory of early terminals or the endpoint.    *)
THEOREM ResultIsOwnAlways == Spec => []ResultIsOwn
<1>1. OwnInv => ResultIsOwn
  BY DEF OwnInv, ResultsOwn, OwnResult, ResultIsOwn
<1> QED BY <1>1, OwnInvariant, PTL

(***************************************************************************)
(* The memory of early observations.                                       *)
(***************************************************************************)

(* A command has one observation remembered at most, the last; and when    *)
(* its request is answered, that one cannot end it any more.               *)
MemoryInv ==
  /\ \A o, p \in remembered : o.of = p.of => o = p
  /\ NothingForgotten

(* What decides whether an observation completes the row of r. *)
RowKept(r) ==
  /\ form'[r] = form[r]
  /\ row'[r].status \in Open =>
       /\ row[r].status \in Open
       /\ row'[r].run = row[r].run /\ row'[r].rev = row[r].rev /\ row'[r].latchRev = row[r].latchRev

LEMMA CompletesBefore ==
  ASSUME NEW o \in Observations, RowKept(o.of), Completes(o)'
  PROVE  Completes(o)
<1>1. CASE o.source = "mission"
  BY <1>1 DEF RowKept, Completes, MissionCompletes, Kind
<1>2. CASE o.source # "mission"
  BY <1>2 DEF RowKept, Completes, VelocityCompletes, Kind
<1> QED BY <1>1, <1>2

LEMMA CompletesOpen ==
  ASSUME NEW o \in Observations, Completes(o)
  PROVE  row[o.of].status \in Open
  BY DEF Completes, MissionCompletes, VelocityCompletes

(* No request is answered with a row that is open, and an open row of an   *)
(* answered request stays as it is or moves on.                            *)
LEMMA MemoryFrame ==
  ASSUME TypeInv, MemoryInv, remembered' \subseteq remembered,
         \A r \in Requests : stage'[r] = "answered" =>
           row'[r].status \notin Open \/ (stage[r] = "answered" /\ RowKept(r))
  PROVE  MemoryInv'
<1>1. \A o, p \in remembered' : o.of = p.of => o = p
  BY DEF MemoryInv
<1>2. ASSUME NEW o \in remembered', stage'[o.of] = "answered", Completes(o)'
      PROVE  StatusAfter(o) \notin Terminal
  <2>1. o \in remembered /\ o \in Observations /\ o.of \in Requests
    BY DEF TypeInv, ObserveTypes, Observations
  <2>2. row'[o.of].status \in Open
    BY <1>2, <2>1 DEF Completes, MissionCompletes, VelocityCompletes
  <2>3. stage[o.of] = "answered" /\ Completes(o)
    BY <1>2, <2>1, <2>2, CompletesBefore
  <2> QED BY <2>1, <2>3 DEF MemoryInv, NothingForgotten
<1> QED BY <1>1, <1>2 DEF MemoryInv, NothingForgotten, StatusAfter

(* A completed row is the row it was, with another status.                 *)
LEMMA CompleteKeepsRow ==
  ASSUME StoreTypes, NEW o \in Observations, Completes(o), Complete(o), form' = form
  PROVE  /\ \A r \in Requests : RowKept(r)
         /\ \A r \in Requests \ {o.of} : row'[r] = row[r]
         /\ row'[o.of].status = StatusAfter(o)
<1> DEFINE run == IF o.source = "mission" THEN o.seen.run ELSE o.run
           rev == IF o.source = "mission" THEN o.seen.rev ELSE 0
<1>1. run \in Nat /\ rev \in Nat
  BY DEF Observations, Snapshots
<1>2. Move(o.of, StatusAfter(o), run, rev)
  BY DEF Complete
<1> HIDE DEF run, rev
<1>3. /\ \A r \in Requests : r # o.of => row'[r] = row[r]
      /\ row'[o.of] = [row[o.of] EXCEPT !.status = StatusAfter(o), !.resultRun = run, !.resultRev = rev]
  <2>1. o.of \in Requests /\ StatusAfter(o) \in Open \cup Terminal
    BY StatusAfterTypes DEF Observations
  <2> QED BY <1>2, <2>1 DEF Move, StoreTypes
<1>4. row[o.of] \in Rows /\ o.of \in Requests
  BY DEF StoreTypes, Observations
<1>5. /\ row'[o.of].status = StatusAfter(o) /\ row'[o.of].run = row[o.of].run
      /\ row'[o.of].rev = row[o.of].rev /\ row'[o.of].latchRev = row[o.of].latchRev
  BY <1>3, <1>4 DEF Rows
<1>6. row[o.of].status \in Open
  BY CompletesOpen
<1> QED BY <1>3, <1>5, <1>6 DEF RowKept

LEMMA MemoryLoop ==
  ASSUME TypeInv, KeyInv, MemoryInv, NEW r \in Requests,
         \/ \E f \in Forms : Submit(r, f)
         \/ PublishVelocity(r) \/ TimesOut(r) \/ Returned(r)
         \/ Insert(r) \/ Announce(r) \/ Replay(r) \/ Expire(r)
  PROVE  MemoryInv'
<1>0. /\ stage \in [Requests -> Stages] /\ form \in [Requests -> Forms \cup {[kind |-> "none"]}]
      /\ row \in [Requests -> Rows] /\ remembered \subseteq Observations
  BY DEF TypeInv, RequestTypes, StoreTypes, ObserveTypes
<1>1. stage[r] \in {"new", "sent", "returned"} => row[r].status \notin Open
  BY DEF KeyInv, Stored, Open
<1>2. ASSUME UNCHANGED remembered, \A q \in Requests \ {r} : form'[q] = form[q] /\ row'[q] = row[q],
             \A q \in Requests \ {r} : stage'[q] = stage[q],
             stage'[r] = "answered" => row'[r].status \notin Open \/ (stage[r] = "answered" /\ RowKept(r))
      PROVE  MemoryInv'
  <2>1. \A q \in Requests \ {r} : stage'[q] = "answered" => stage[q] = "answered" /\ RowKept(q)
    BY <1>2 DEF RowKept
  <2> QED BY <1>2, <2>1, MemoryFrame
<1>3. ASSUME NEW f \in Forms, Submit(r, f) PROVE MemoryInv'
  <2>1. UNCHANGED << row, remembered >> /\ form' = [form EXCEPT ![r] = f] /\ stage[r] = "new"
    BY <1>3 DEF Submit, storeVars, observeVars
  <2>2. \A q \in Requests \ {r} : stage'[q] = stage[q]
    BY <1>0, <1>3 DEF Submit, Answer
  <2> QED BY <1>0, <1>1, <1>2, <2>1, <2>2
<1>4. CASE PublishVelocity(r) \/ TimesOut(r) \/ Returned(r)
  <2>1. UNCHANGED << form, row, remembered >> /\ stage[r] = "sent"
    BY <1>4 DEF PublishVelocity, TimesOut, Returned, storeVars, observeVars
  <2>2. \A q \in Requests \ {r} : stage'[q] = stage[q]
    BY <1>0, <1>4 DEF PublishVelocity, TimesOut, Returned, Answer
  <2> QED BY <1>1, <1>2, <2>1, <2>2
<1>5. CASE Insert(r)
  <2>1. UNCHANGED << form, remembered >> /\ stage[r] = "returned"
    BY <1>5 DEF Insert, observeVars
  <2>2. \/ /\ \E a \in Expectations(r) : row' = [row EXCEPT ![r] = Inserted(r, a)]
           /\ stage' = [stage EXCEPT ![r] = "inserted"]
        \/ UNCHANGED row /\ Answer(r, "error", Nobody)
    BY <1>5 DEF Insert
  <2>3. /\ \A q \in Requests \ {r} : stage'[q] = stage[q] /\ row'[q] = row[q]
        /\ stage'[r] = "answered" => row'[r] = row[r]
    BY <1>0, <2>2 DEF Answer
  <2> QED BY <1>1, <1>2, <2>1, <2>3
<1>6. CASE Announce(r)
  <2>1. UNCHANGED << form, remembered >> /\ stage' = [stage EXCEPT ![r] = "announced"]
    BY <1>6 DEF Announce, observeVars
  <2>2. \A q \in Requests \ {r} : row'[q] = row[q]
    BY <1>0, <1>6 DEF Announce
  <2> QED BY <1>0, <1>2, <2>1, <2>2
<1>7. CASE Expire(r)
  <2>1. UNCHANGED << form, stage, remembered >> /\ Move(r, "timed_out", 0, 0)
    BY <1>7 DEF Expire, requestVars, observeVars
  <2>2. /\ \A q \in Requests \ {r} : row'[q] = row[q]
        /\ row'[r] = [row[r] EXCEPT !.status = "timed_out", !.resultRun = 0, !.resultRev = 0]
    BY <1>0, <2>1 DEF Move
  <2>3. row'[r].status \notin Open
    BY <1>0, <2>2 DEF Rows, Open
  <2> QED BY <1>2, <2>1, <2>2, <2>3
<1>8. CASE Replay(r)
  <2>1. /\ UNCHANGED form /\ stage' = [stage EXCEPT ![r] = "answered"]
        /\ \/ \E o \in ObservedOf(r) :
                /\ Completes(o) /\ Complete(o)
                /\ remembered' = IF StatusAfter(o) \in Terminal THEN remembered \ {o} ELSE remembered
           \/ (\A o \in ObservedOf(r) : ~Completes(o)) /\ UNCHANGED << row, remembered >>
    BY <1>8 DEF Replay, Answer, storeVars
  <2>2. \A q \in Requests \ {r} : stage'[q] = stage[q]
    BY <1>0, <2>1
  <2>3. \A q \in Requests : RowKept(q)
    BY <1>0, <2>1, CompleteKeepsRow DEF RowKept, ObservedOf, TypeInv
  <2>4. remembered' \subseteq remembered
    BY <2>1
  <2>5. ASSUME NEW p \in remembered', stage'[p.of] = "answered", Completes(p)'
        PROVE  StatusAfter(p) \notin Terminal
    <3>1. p \in remembered /\ p \in Observations /\ p.of \in Requests
      BY <1>0, <2>4 DEF Observations
    <3>2. Completes(p)
      BY <2>3, <2>5, <3>1, CompletesBefore
    <3>3. CASE p.of # r
      BY <2>2, <2>5, <3>1, <3>2, <3>3 DEF MemoryInv, NothingForgotten
    <3>4. CASE p.of = r
      <4>1. p \in ObservedOf(r)
        BY <3>1, <3>4 DEF ObservedOf
      <4>2. PICK o \in ObservedOf(r) :
               remembered' = IF StatusAfter(o) \in Terminal THEN remembered \ {o} ELSE remembered
        BY <2>1, <3>2, <4>1
      <4>3. o = p
        BY <3>1, <3>4, <4>2 DEF ObservedOf, MemoryInv
      <4> QED BY <2>5, <4>2, <4>3
    <3> QED BY <3>3, <3>4
  <2> QED BY <2>4, <2>5 DEF MemoryInv, NothingForgotten, StatusAfter
<1> QED BY <1>3, <1>4, <1>5, <1>6, <1>7, <1>8

LEMMA MemoryRos ==
  ASSUME TypeInv, KeyInv, MemoryInv, RosNext
  PROVE  MemoryInv'
<1>0. remembered \subseteq Observations /\ observing \subseteq Observations /\ StoreTypes
  BY DEF TypeInv, ObserveTypes
<1>1. UNCHANGED << form, stage >>
  BY DEF RosNext, OnContext, OnMission, OnVelocityStatus, Remember, requestVars
<1>2. ASSUME UNCHANGED row, remembered' \subseteq remembered PROVE MemoryInv'
  BY <1>1, <1>2, MemoryFrame DEF RowKept
<1>3. ASSUME NEW o \in Observations, Observe(o) PROVE MemoryInv'
  <2>1. CASE Completes(o) /\ Complete(o) /\ remembered' \subseteq remembered
    <3>1. \A r \in Requests : RowKept(r)
      BY <1>0, <1>1, <2>1, CompleteKeepsRow
    <3> QED BY <1>1, <2>1, <3>1, MemoryFrame
  <2>2. CASE UNCHANGED << row, remembered >>
    BY <1>2, <2>2
  <2> QED BY <1>3, <2>1, <2>2 DEF Observe, storeVars
<1>4. CASE OnContext
  BY <1>2, <1>4 DEF OnContext, storeVars, observeVars
<1>5. CASE OnMission
  <2>1. CASE manager.by = Nobody
    BY <1>2, <1>5, <2>1 DEF OnMission, storeVars
  <2>2. CASE manager.by # Nobody
    <3> DEFINE o == [of |-> manager.by, source |-> "mission", seen |-> manager]
    <3>1. o \in Observations
      BY <2>2 DEF TypeInv, ManagerTypes, Snapshots, Observations
    <3>2. Observe(o)
      BY <1>5, <2>2 DEF OnMission
    <3> HIDE DEF o
    <3> QED BY <1>3, <3>1, <3>2
  <2> QED BY <2>1, <2>2
<1>6. CASE Remember
  <2>1. PICK o \in observing :
          /\ remembered' = IF Stored(o.of) THEN remembered ELSE (remembered \ ObservedOf(o.of)) \cup {o}
          /\ UNCHANGED row
    BY <1>6 DEF Remember, storeVars
  <2>2. CASE Stored(o.of)
    BY <1>2, <2>1, <2>2
  <2>3. CASE ~Stored(o.of)
    <3>1. \A p, q \in remembered' : p.of = q.of => p = q
      BY <2>1, <2>3 DEF MemoryInv, ObservedOf
    <3>2. ASSUME NEW p \in remembered', stage'[p.of] = "answered", Completes(p)'
          PROVE  StatusAfter(p) \notin Terminal
      <4>1. p \in Observations /\ p.of \in Requests
        BY <1>0, <2>1, <2>3 DEF Observations
      <4>2. Completes(p)
        BY <1>1, <2>1, <3>2, <4>1, CompletesBefore DEF RowKept
      <4>3. row[p.of].status \in Open
        BY <4>1, <4>2, CompletesOpen
      <4>4. p # o
        BY <2>3, <4>3 DEF Stored, Open
      <4> QED BY <1>1, <2>1, <2>3, <3>2, <4>2, <4>4 DEF MemoryInv, NothingForgotten
    <3> QED BY <3>1, <3>2 DEF MemoryInv, NothingForgotten, StatusAfter
  <2> QED BY <2>2, <2>3
<1>7. ASSUME NEW r \in Requests, OnVelocityStatus(r) PROVE MemoryInv'
  <2> DEFINE status == Head(velocityStatus[r])
  <2>1. status \in VelocityStatuses
    BY <1>7 DEF OnVelocityStatus, TypeInv, ManagerTypes
  <2>2. ASSUME NEW m \in manual, NEW stamped \in BOOLEAN,
               Observe([of |-> r, source |-> "velocity", status |-> status,
                        run |-> m.run, stamped |-> stamped])
        PROVE  MemoryInv'
    <3> DEFINE o == [of |-> r, source |-> "velocity", status |-> status,
                     run |-> m.run, stamped |-> stamped]
    <3>1. m.run \in Nat
      BY DEF TypeInv, ObserveTypes, Manuals
    <3>2. o \in Observations
      BY <2>1, <3>1 DEF Observations, VelocityStatuses
    <3>3. Observe(o)
      BY <2>2
    <3> HIDE DEF o
    <3> QED BY <1>3, <3>2, <3>3
  <2>3. CASE UNCHANGED << storeVars, remembered, observing >>
    BY <1>2, <2>3 DEF storeVars
  <2> QED BY <1>7, <2>2, <2>3 DEF OnVelocityStatus
<1> QED BY <1>4, <1>5, <1>6, <1>7 DEF RosNext

(* An early observation that could end its command is not left behind when *)
(* the request is answered: the endpoint's replay_terminal meets every one *)
(* that an observer remembered before, and an observer that comes later    *)
(* finds the row.                                                          *)
THEOREM NothingForgottenAlways == Spec => []NothingForgotten
<1>1. Init => MemoryInv
  BY DEF Init, MemoryInv, NothingForgotten
<1>2. TypeInv /\ KeyInv /\ MemoryInv /\ [Next]_vars => MemoryInv'
  <2> SUFFICES ASSUME TypeInv, KeyInv, MemoryInv, [Next]_vars PROVE MemoryInv'
    OBVIOUS
  <2>1. ASSUME UNCHANGED << form, row, stage, remembered >> PROVE MemoryInv'
    BY <2>1, MemoryFrame DEF RowKept
  <2>2. CASE UNCHANGED vars
    BY <2>1, <2>2 DEF vars, requestVars, storeVars, observeVars
  <2>3. CASE ManagerNext
    BY <2>1, <2>3
    DEF ManagerNext, Serve, Activate, MissionMoves, OnManualVelocity, requestVars, storeVars,
        observeVars
  <2>4. CASE Crash
    BY <2>4 DEF Crash, MemoryInv, NothingForgotten
  <2> QED BY <2>2, <2>3, <2>4, MemoryLoop, MemoryRos DEF Next, LoopNext
<1>3. MemoryInv => NothingForgotten
  BY DEF MemoryInv
<1> QED BY <1>1, <1>2, <1>3, TypeInvariant, KeyInvariant, PTL DEF Spec

(***************************************************************************)
(* The life cycle: what the refinement needs of requests and events.       *)
(***************************************************************************)

(* A request that was made has a form, and the insertion of a row is not   *)
(* announced before the stage that does it.                                *)
Silent(r) == \A i \in DOMAIN announced[r] : announced[r][i] # "accepted"

NewsInv ==
  \A r \in Requests :
    /\ stage[r] # "new" => form[r] \in Forms
    /\ stage[r] \in {"new", "sent", "returned", "inserted"} => Silent(r)

LEMMA AppendKeepsSilent ==
  ASSUME NEW T, NEW s \in Seq(T), NEW t \in T, t # "accepted",
         \A i \in DOMAIN s : s[i] # "accepted"
  PROVE  \A i \in DOMAIN Append(s, t) : Append(s, t)[i] # "accepted"
<1>1. /\ Len(Append(s, t)) = Len(s) + 1 /\ Append(s, t)[Len(s) + 1] = t
      /\ \A i \in 1 .. Len(s) : Append(s, t)[i] = s[i]
      /\ Append(s, t) \in Seq(T) /\ Len(s) \in Nat
  BY AppendProperties, LenProperties
<1>2. DOMAIN Append(s, t) = 1 .. Len(s) + 1 /\ DOMAIN s = 1 .. Len(s)
  BY <1>1, LenProperties
<1> QED BY <1>1, <1>2

(* What is announced by a commit is not the insertion. *)
LEMMA MoveKeepsSilent ==
  ASSUME StoreTypes, NEW c, NEW status \in (Open \cup Terminal) \ {"accepted"}, NEW run, NEW rev,
         Move(c, status, run, rev)
  PROVE  \A r \in Requests : Silent(r) => Silent(r)'
<1> SUFFICES ASSUME NEW r \in Requests, Silent(r) PROVE Silent(r)'
  OBVIOUS
<1>1. CASE r # c
  BY <1>1 DEF Move, StoreTypes, Silent
<1>2. CASE r = c
  <2>1. announced'[r] = Append(announced[r], status) /\ announced[r] \in Seq(Open \cup Terminal)
    BY <1>2 DEF Move, StoreTypes
  <2> QED BY <2>1, AppendKeepsSilent DEF Silent
<1> QED BY <1>1, <1>2

LEMMA CompletedStatus ==
  ASSUME NEW o \in Observations
  PROVE  /\ StatusAfter(o) # "accepted"
         /\ StatusAfter(o) = "executing" <=> o.source = "velocity" /\ o.status = "ACCEPTED"
<1>1. CASE o.source = "mission"
  BY <1>1 DEF StatusAfter
<1>2. CASE o.source # "mission"
  <2>1. o.status \in VelocityStatuses /\ o.source = "velocity"
    BY <1>2 DEF Observations, VelocityStatuses
  <2> QED BY <1>2, <2>1 DEF StatusAfter, VelocityStatuses
<1> QED BY <1>1, <1>2

LEMMA CompleteKeepsSilent ==
  ASSUME StoreTypes, NEW o \in Observations, Complete(o)
  PROVE  \A r \in Requests : Silent(r) => Silent(r)'
<1> DEFINE run == IF o.source = "mission" THEN o.seen.run ELSE o.run
           rev == IF o.source = "mission" THEN o.seen.rev ELSE 0
<1>1. Move(o.of, StatusAfter(o), run, rev)
  BY DEF Complete
<1> HIDE DEF run, rev
<1> QED BY <1>1, StatusAfterTypes, CompletedStatus, MoveKeepsSilent

(* Stages only go forward, forms are given once, and nobody else announces *)
(* an insertion.                                                           *)
LEMMA NewsFrame ==
  ASSUME NewsInv, UNCHANGED form,
         \A r \in Requests :
           /\ stage'[r] # "new" => stage[r] # "new"
           /\ stage'[r] \in {"new", "sent", "returned", "inserted"} =>
                stage[r] \in {"new", "sent", "returned", "inserted"} /\ (Silent(r) => Silent(r)')
  PROVE  NewsInv'
  BY DEF NewsInv

(* The observers of the ROS thread meet the store in one of these ways.    *)
LEMMA ObserversMeet ==
  ASSUME TypeInv, RosNext
  PROVE  /\ UNCHANGED << form, stage >>
         /\ \/ UNCHANGED storeVars
            \/ \E o \in Observations :
                 /\ Completes(o) /\ Complete(o)
                 /\ o.source = "velocity" =>
                      velocityStatus[o.of] # << >> /\ Head(velocityStatus[o.of]) = o.status
<1> DEFINE FromTopic(o) == o.source = "velocity" =>
                              velocityStatus[o.of] # << >> /\ Head(velocityStatus[o.of]) = o.status
           Met == \/ UNCHANGED storeVars
                  \/ \E o \in Observations : Completes(o) /\ Complete(o) /\ FromTopic(o)
<1>1. UNCHANGED << form, stage >>
  BY DEF RosNext, OnContext, OnMission, OnVelocityStatus, Remember, requestVars
<1>2. ASSUME NEW o \in Observations, Observe(o), FromTopic(o) PROVE Met
  BY <1>2 DEF Observe
<1>3. CASE OnContext \/ Remember
  BY <1>1, <1>3 DEF OnContext, Remember
<1>4. CASE OnMission
  <2>1. CASE manager.by = Nobody
    BY <1>1, <1>4, <2>1 DEF OnMission
  <2>2. CASE manager.by # Nobody
    <3> DEFINE o == [of |-> manager.by, source |-> "mission", seen |-> manager]
    <3>1. o \in Observations /\ o.source = "mission"
      BY <2>2 DEF TypeInv, ManagerTypes, Snapshots, Observations
    <3>2. Observe(o)
      BY <1>4, <2>2 DEF OnMission
    <3> HIDE DEF o
    <3> QED BY <1>1, <1>2, <3>1, <3>2
  <2> QED BY <2>1, <2>2
<1>5. ASSUME NEW r \in Requests, OnVelocityStatus(r)
      PROVE  Met
  <2> DEFINE status == Head(velocityStatus[r])
  <2>1. status \in VelocityStatuses
    BY <1>5, HeadTailProperties DEF OnVelocityStatus, TypeInv, ManagerTypes
  <2>2. ASSUME NEW m \in manual, NEW stamped \in BOOLEAN,
               Observe([of |-> r, source |-> "velocity", status |-> status,
                        run |-> m.run, stamped |-> stamped])
        PROVE  Met
    <3> DEFINE o == [of |-> r, source |-> "velocity", status |-> status,
                     run |-> m.run, stamped |-> stamped]
    <3>1. m.run \in Nat
      BY DEF TypeInv, ObserveTypes, Manuals
    <3>2. o \in Observations /\ FromTopic(o)
      BY <1>5, <2>1, <3>1 DEF Observations, VelocityStatuses, OnVelocityStatus
    <3>3. Observe(o)
      BY <2>2
    <3> HIDE DEF o
    <3> QED BY <1>2, <3>2, <3>3
  <2> QED BY <1>5, <2>2 DEF OnVelocityStatus
<1> QED BY <1>1, <1>3, <1>4, <1>5 DEF RosNext

LEMMA NewsStep == TypeInv /\ NewsInv /\ [Next]_vars => NewsInv'
<1> SUFFICES ASSUME TypeInv, NewsInv, [Next]_vars PROVE NewsInv'
  OBVIOUS
<1>0. /\ stage \in [Requests -> Stages] /\ form \in [Requests -> Forms \cup {[kind |-> "none"]}]
      /\ StoreTypes /\ remembered \subseteq Observations
  BY DEF TypeInv, RequestTypes, ObserveTypes
<1>1. UNCHANGED announced => \A r \in Requests : Silent(r) => Silent(r)'
  BY DEF Silent
<1>2. CASE UNCHANGED vars \/ ManagerNext
  <2>1. UNCHANGED << form, stage, announced >>
    BY <1>2 DEF vars, ManagerNext, Serve, Activate, MissionMoves, OnManualVelocity, requestVars, storeVars
  <2> QED BY <1>1, <2>1, NewsFrame
<1>3. CASE RosNext
  <2>1. \A r \in Requests : Silent(r) => Silent(r)'
    BY <1>0, <1>1, <1>3, ObserversMeet, CompleteKeepsSilent DEF storeVars
  <2> QED BY <1>3, <2>1, ObserversMeet, NewsFrame
<1>4. CASE Crash
  <2>1. \A r \in Requests : Silent(r)'
    BY <1>4 DEF Crash, Silent
  <2> QED BY <1>0, <1>4, <2>1 DEF Crash, NewsInv
<1>5. ASSUME NEW r \in Requests, NEW f \in Forms, Submit(r, f) PROVE NewsInv'
  <2>1. /\ form'[r] = f /\ \A q \in Requests \ {r} : form'[q] = form[q]
        /\ stage[r] = "new" /\ \A q \in Requests \ {r} : stage'[q] = stage[q]
        /\ UNCHANGED announced
    BY <1>0, <1>5 DEF Submit, Answer, storeVars
  <2> QED BY <1>1, <2>1 DEF NewsInv
<1>6. ASSUME NEW r \in Requests,
             PublishVelocity(r) \/ TimesOut(r) \/ Returned(r) \/ Insert(r) PROVE NewsInv'
  <2>1. UNCHANGED << form, announced >> /\ stage[r] \in {"sent", "returned"}
    BY <1>6 DEF PublishVelocity, TimesOut, Returned, Insert, storeVars
  <2>2. \A q \in Requests \ {r} : stage'[q] = stage[q]
    BY <1>0, <1>6 DEF PublishVelocity, TimesOut, Returned, Insert, Answer
  <2> QED BY <1>1, <2>1, <2>2, NewsFrame
<1>7. ASSUME NEW r \in Requests, Announce(r) PROVE NewsInv'
  <2>1. /\ UNCHANGED form /\ stage[r] = "inserted" /\ stage' = [stage EXCEPT ![r] = "announced"]
        /\ \A q \in Requests \ {r} : announced'[q] = announced[q]
    BY <1>0, <1>7 DEF Announce, StoreTypes
  <2> QED BY <1>0, <2>1, NewsFrame DEF Silent
<1>8. ASSUME NEW r \in Requests, Replay(r) PROVE NewsInv'
  <2>1. UNCHANGED form /\ stage[r] = "announced" /\ stage' = [stage EXCEPT ![r] = "answered"]
    BY <1>8 DEF Replay, Answer
  <2>2. \A q \in Requests : Silent(q) => Silent(q)'
    <3>1. ASSUME NEW o \in ObservedOf(r), Complete(o)
          PROVE  \A q \in Requests : Silent(q) => Silent(q)'
      BY <1>0, <3>1, CompleteKeepsSilent DEF ObservedOf
    <3> QED BY <1>1, <1>8, <3>1 DEF Replay, storeVars
  <2> QED BY <1>0, <2>1, <2>2, NewsFrame
<1>9. ASSUME NEW r \in Requests, Expire(r) PROVE NewsInv'
  <2>1. UNCHANGED << form, stage >> /\ Move(r, "timed_out", 0, 0)
    BY <1>9 DEF Expire, requestVars
  <2>2. "timed_out" \in (Open \cup Terminal) \ {"accepted"}
    BY DEF Terminal
  <2> QED BY <1>0, <2>1, <2>2, MoveKeepsSilent, NewsFrame
<1> QED BY <1>2, <1>3, <1>4, <1>5, <1>6, <1>7, <1>8, <1>9 DEF Next, LoopNext

LEMMA NewsInvariant == Spec => []NewsInv
<1>1. Init => NewsInv
  BY DEF Init, NewsInv, Silent
<1> QED BY <1>1, NewsStep, TypeInvariant, PTL DEF Spec

(* The robot's acknowledgement that it takes a velocity up ends no command *)
(* and is used once.  It is on its way (as the velocity that will cause    *)
(* it, as a status, or in the hands of an observer), or it is remembered;  *)
(* and while its command is "executing" it is at most left behind in the   *)
(* memory of a request that is answered.                                   *)
Uptake(o) == o.source = "velocity" /\ o.status = "ACCEPTED"

Seen(r, observations) == \E o \in observations : o.of = r /\ Uptake(o)

Published(r) == \E v \in velocity : v.of = r

Untaken(r) == row[r].status # "executing"

UptakeOf(r) ==
  /\ velocityStatus[r] \in {<< >>, << "ACCEPTED", "APPLIED" >>, << "APPLIED" >>, << "REJECTED" >>}
  /\ stage[r] \in {"new", "sent"} =>
       /\ ~Published(r) /\ velocityStatus[r] = << >>
       /\ ~Seen(r, observing) /\ ~Seen(r, remembered)
  /\ Published(r) => velocityStatus[r] = << >>
  /\ Published(r) \/ velocityStatus[r] = << "ACCEPTED", "APPLIED" >> =>
       ~Seen(r, observing) /\ ~Seen(r, remembered) /\ Untaken(r)
  /\ Seen(r, observing) => ~Seen(r, remembered) /\ Untaken(r)
  /\ Seen(r, remembered) => Untaken(r) \/ stage[r] \in {"answered", "lost"}

UptakeInv == \A r \in Requests : UptakeOf(r)

(* Nothing of it comes, the row is not taken up, the stage goes forward.   *)
LEMMA UptakeFrame ==
  ASSUME NEW r \in Requests, UptakeOf(r), velocityStatus'[r] = velocityStatus[r],
         Published(r)' => Published(r),
         Seen(r, observing') => Seen(r, observing), Seen(r, remembered') => Seen(r, remembered),
         Untaken(r) => Untaken(r)',
         stage'[r] \in {"new", "sent"} => stage[r] \in {"new", "sent"},
         stage[r] \in {"answered", "lost"} => stage'[r] \in {"answered", "lost"}
  PROVE  UptakeOf(r)'
  BY DEF UptakeOf

LEMMA UptakeLoop ==
  ASSUME TypeInv, KeyInv, UptakeInv, NEW q \in Requests,
         \/ \E f \in Forms : Submit(q, f)
         \/ PublishVelocity(q) \/ TimesOut(q) \/ Returned(q)
         \/ Insert(q) \/ Announce(q) \/ Replay(q) \/ Expire(q)
  PROVE  UptakeInv'
<1>0. /\ stage \in [Requests -> Stages] /\ row \in [Requests -> Rows] /\ StoreTypes
      /\ remembered \subseteq Observations
  BY DEF TypeInv, RequestTypes, StoreTypes, ObserveTypes
<1>1. ASSUME UNCHANGED << velocity, velocityStatus, observing >>, remembered' \subseteq remembered,
             \A r \in Requests \ {q} : stage'[r] = stage[r] /\ row'[r] = row[r],
             stage[q] \notin {"answered", "lost"}, stage'[q] \notin {"new", "sent"} \/ stage[q] = "new",
             Untaken(q)'
      PROVE  UptakeInv'
  <2>1. \A r : (Published(r)' <=> Published(r))
               /\ (Seen(r, observing') => Seen(r, observing))
               /\ (Seen(r, remembered') => Seen(r, remembered))
    BY <1>1 DEF Published, Seen
  <2>2. ASSUME NEW r \in Requests PROVE UptakeOf(r)'
    <3>1. CASE r # q
      <4>1. (Untaken(r) => Untaken(r)') /\ stage'[r] = stage[r]
        BY <1>1, <3>1 DEF Untaken
      <4> QED BY <1>1, <2>1, <4>1, UptakeFrame DEF UptakeInv
    <3>2. CASE r = q
      BY <1>1, <2>1, <3>2, UptakeFrame DEF UptakeInv
    <3> QED BY <3>1, <3>2
  <2> QED BY <2>2 DEF UptakeInv
<1>2. ASSUME Stored(q) => FALSE PROVE Untaken(q)
  BY <1>2 DEF Stored, Untaken
<1>3. ASSUME NEW f \in Forms, Submit(q, f) PROVE UptakeInv'
  <2>1. /\ UNCHANGED << row, velocity, velocityStatus, observing, remembered >> /\ stage[q] = "new"
        /\ \A r \in Requests \ {q} : stage'[r] = stage[r]
    BY <1>0, <1>3 DEF Submit, Answer, storeVars, observeVars, managerVars
  <2>2. Untaken(q)'
    BY <1>2, <2>1 DEF KeyInv, Untaken
  <2> QED BY <1>1, <2>1, <2>2
<1>4. CASE TimesOut(q) \/ Returned(q)
  <2>1. /\ UNCHANGED << row, velocity, velocityStatus, observing, remembered >> /\ stage[q] = "sent"
        /\ stage'[q] \in {"returned", "answered"} /\ \A r \in Requests \ {q} : stage'[r] = stage[r]
    BY <1>0, <1>4 DEF TimesOut, Returned, Answer, storeVars, observeVars, managerVars
  <2>2. Untaken(q)'
    BY <1>2, <2>1 DEF KeyInv, Untaken
  <2> QED BY <1>1, <2>1, <2>2
<1>5. CASE PublishVelocity(q)
  <2>1. /\ UNCHANGED << row, velocityStatus, observing, remembered >> /\ stage[q] = "sent"
        /\ stage'[q] \in {"returned", "answered"} /\ \A r \in Requests \ {q} : stage'[r] = stage[r]
        /\ velocity' = velocity \/ velocity' = {[of |-> q, run |-> context.run]}
    BY <1>0, <1>5 DEF PublishVelocity, Answer, storeVars
  <2>2. Untaken(q) /\ Untaken(q)'
    BY <1>2, <2>1 DEF KeyInv, Untaken
  <2>3. CASE velocity' = velocity
    BY <1>1, <2>1, <2>2, <2>3
  <2>4. CASE velocity' = {[of |-> q, run |-> context.run]}
    <3>1. \A r \in Requests \ {q} : ~Published(r)'
      BY <2>4 DEF Published
    <3>2. ASSUME NEW r \in Requests \ {q} PROVE UptakeOf(r)'
      BY <2>1, <3>1, UptakeFrame DEF UptakeInv, Untaken, Seen
    <3>3. UptakeOf(q)'
      <4>1. UptakeOf(q)
        BY DEF UptakeInv
      <4> QED BY <2>1, <2>2, <4>1 DEF UptakeOf, Seen
    <3> QED BY <3>2, <3>3 DEF UptakeInv
  <2> QED BY <2>1, <2>3, <2>4
<1>6. CASE Insert(q)
  <2>1. /\ UNCHANGED << velocity, velocityStatus, observing, remembered >> /\ stage[q] = "returned"
        /\ stage'[q] \in {"inserted", "answered"} /\ \A r \in Requests \ {q} : stage'[r] = stage[r]
    BY <1>0, <1>6 DEF Insert, Answer, observeVars, managerVars
  <2>2. Untaken(q)' /\ \A r \in Requests \ {q} : row'[r] = row[r]
    <3>1. CASE UNCHANGED row
      BY <1>2, <2>1, <3>1 DEF KeyInv, Untaken
    <3>2. CASE \E a \in Expectations(q) : row' = [row EXCEPT ![q] = Inserted(q, a)]
      <4>1. row'[q].status = "accepted" /\ \A r \in Requests \ {q} : row'[r] = row[r]
        BY <1>0, <3>2 DEF Inserted, Rows
      <4> QED BY <4>1 DEF Untaken
    <3> QED BY <1>6, <3>1, <3>2 DEF Insert
  <2> QED BY <1>1, <2>1, <2>2
<1>7. CASE Announce(q)
  <2>1. /\ UNCHANGED << velocity, velocityStatus, observing, remembered >> /\ stage[q] = "inserted"
        /\ stage'[q] = "announced" /\ \A r \in Requests \ {q} : stage'[r] = stage[r]
        /\ \A r \in Requests \ {q} : row'[r] = row[r]
    BY <1>0, <1>7 DEF Announce, observeVars, managerVars
  <2>2. Untaken(q) => Untaken(q)'
    <3>1. CASE UNCHANGED row
      BY <3>1 DEF Untaken
    <3>2. CASE row' = [row EXCEPT ![q].status = "succeeded", ![q].resultRun = context.run,
                                  ![q].resultRev = mission.rev]
      <4>1. row'[q].status = "succeeded"
        BY <1>0, <3>2 DEF Rows
      <4> QED BY <4>1 DEF Untaken
    <3> QED BY <1>7, <3>1, <3>2 DEF Announce
  <2>3. ASSUME NEW r \in Requests PROVE UptakeOf(r)'
    <3>1. UptakeOf(r) /\ (Untaken(r) => Untaken(r)')
      BY <2>1, <2>2 DEF UptakeInv, Untaken
    <3>2. Published(r)' => Published(r)
      BY <2>1 DEF Published
    <3> QED BY <2>1, <3>1, <3>2, UptakeFrame
  <2> QED BY <2>3 DEF UptakeInv
<1>8. CASE Expire(q)
  <2>1. /\ UNCHANGED << stage, velocity, velocityStatus, observing, remembered >>
        /\ Move(q, "timed_out", 0, 0)
    BY <1>8 DEF Expire, requestVars, observeVars, managerVars
  <2>2. Untaken(q)' /\ \A r \in Requests \ {q} : row'[r] = row[r]
    <3>1. row'[q] = [row[q] EXCEPT !.status = "timed_out", !.resultRun = 0, !.resultRev = 0]
          /\ \A r \in Requests \ {q} : row'[r] = row[r]
      BY <1>0, <2>1 DEF Move
    <3>2. row'[q].status = "timed_out"
      BY <1>0, <3>1 DEF Rows
    <3> QED BY <3>1, <3>2 DEF Untaken
  <2>3. ASSUME NEW r \in Requests PROVE UptakeOf(r)'
    <3>1. UptakeOf(r) /\ (Untaken(r) => Untaken(r)')
      BY <2>2 DEF UptakeInv, Untaken
    <3>2. Published(r)' => Published(r)
      BY <2>1 DEF Published
    <3> QED BY <2>1, <3>1, <3>2, UptakeFrame
  <2> QED BY <2>3 DEF UptakeInv
<1>9. CASE Replay(q)
  <2>1. /\ UNCHANGED << form, velocity, velocityStatus, observing >> /\ remembered' \subseteq remembered
        /\ stage[q] = "announced" /\ stage'[q] = "answered"
        /\ \A r \in Requests \ {q} : stage'[r] = stage[r]
    BY <1>0, <1>9 DEF Replay, Answer, managerVars
  <2>2. \A r : (Published(r)' <=> Published(r))
               /\ (Seen(r, observing') => Seen(r, observing))
               /\ (Seen(r, remembered') => Seen(r, remembered))
    BY <2>1 DEF Published, Seen
  <2>3. /\ \A r \in Requests \ {q} : row'[r] = row[r]
        /\ row'[q] = row[q] \/ Untaken(q)' \/ Seen(q, remembered)
    <3>1. CASE UNCHANGED storeVars
      BY <3>1 DEF storeVars
    <3>2. ASSUME NEW o \in ObservedOf(q), Completes(o), Complete(o)
          PROVE  /\ \A r \in Requests \ {q} : row'[r] = row[r]
                 /\ Untaken(q)' \/ Seen(q, remembered)
      <4>1. o \in Observations /\ o \in remembered /\ o.of = q
        BY <1>0 DEF ObservedOf
      <4>2. row'[q].status = StatusAfter(o) /\ \A r \in Requests \ {q} : row'[r] = row[r]
        BY <1>0, <2>1, <3>2, <4>1, CompleteKeepsRow
      <4> QED BY <4>1, <4>2, CompletedStatus DEF Untaken, Seen, Uptake
    <3> QED BY <1>9, <3>1, <3>2 DEF Replay
  <2>4. ASSUME NEW r \in Requests, r # q \/ row'[q] = row[q] \/ Untaken(q)' PROVE UptakeOf(r)'
    <3>1. UptakeOf(r) /\ (Untaken(r) => Untaken(r)')
      BY <2>3, <2>4 DEF UptakeInv, Untaken
    <3> QED BY <2>1, <2>2, <3>1, UptakeFrame
  <2>5. ASSUME Seen(q, remembered) PROVE UptakeOf(q)'
    <3>1. UptakeOf(q)
      BY DEF UptakeInv
    <3> QED BY <2>1, <2>2, <2>5, <3>1 DEF UptakeOf
  <2> QED BY <2>3, <2>4, <2>5 DEF UptakeInv
<1> QED BY <1>3, <1>4, <1>5, <1>6, <1>7, <1>8, <1>9

(* An observer completes the row of its command, or keeps the observation. *)
LEMMA ObserveUptake ==
  ASSUME StoreTypes, NEW o \in Observations, Observe(o), observing = {}, form' = form
  PROVE  /\ \A r \in Requests \ {o.of} : row'[r] = row[r] /\ ~Seen(r, observing')
         /\ \A r : Seen(r, remembered') => Seen(r, remembered)
         /\ \/ row'[o.of].status = StatusAfter(o) /\ observing' = {}
            \/ observing' = {o} /\ row' = row
<1>1. CASE /\ Completes(o) /\ Complete(o) /\ remembered' \subseteq remembered
           /\ UNCHANGED observing
  <2>1. /\ \A r \in Requests \ {o.of} : row'[r] = row[r]
        /\ row'[o.of].status = StatusAfter(o)
    BY <1>1, CompleteKeepsRow
  <2> QED BY <1>1, <2>1 DEF Seen
<1>2. CASE observing' = {o} /\ UNCHANGED << storeVars, remembered >>
  BY <1>2 DEF Seen, storeVars
<1> QED BY <1>1, <1>2 DEF Observe

LEMMA UptakeRos ==
  ASSUME TypeInv, UptakeInv, RosNext
  PROVE  UptakeInv'
<1>0. StoreTypes /\ remembered \subseteq Observations /\ observing \subseteq Observations
  BY DEF TypeInv, ObserveTypes
<1>1. UNCHANGED << form, stage, velocity >> /\ \A r : Published(r)' <=> Published(r)
  BY DEF RosNext, OnContext, OnMission, OnVelocityStatus, Remember, requestVars, managerVars, Published
<1>2. CASE OnContext
  <2>1. UNCHANGED << row, velocityStatus, observing, remembered >>
    BY <1>2 DEF OnContext, storeVars, observeVars, managerVars
  <2>2. ASSUME NEW r \in Requests PROVE UptakeOf(r)'
    BY <1>1, <2>1, UptakeFrame DEF UptakeInv, Untaken
  <2> QED BY <2>2 DEF UptakeInv
<1>3. CASE OnMission
  <2>0. observing = {} /\ UNCHANGED velocityStatus
    BY <1>3 DEF OnMission, managerVars
  <2>1. ASSUME NEW r \in Requests
        PROVE  /\ ~Seen(r, observing') /\ (Seen(r, remembered') => Seen(r, remembered))
               /\ Untaken(r) => Untaken(r)'
    <3>1. CASE manager.by = Nobody
      BY <1>3, <2>0, <3>1 DEF OnMission, storeVars, Seen, Untaken
    <3>2. CASE manager.by # Nobody
      <4> DEFINE o == [of |-> manager.by, source |-> "mission", seen |-> manager]
      <4>1. o \in Observations /\ o.source = "mission"
        BY <3>2 DEF TypeInv, ManagerTypes, Snapshots, Observations
      <4>2. Observe(o)
        BY <1>3, <3>2 DEF OnMission
      <4> HIDE DEF o
      <4>3. /\ \A p \in Requests \ {o.of} : row'[p] = row[p] /\ ~Seen(p, observing')
            /\ \A p : Seen(p, remembered') => Seen(p, remembered)
            /\ \/ row'[o.of].status = StatusAfter(o) /\ observing' = {}
               \/ observing' = {o} /\ row' = row
        BY <1>0, <1>1, <2>0, <4>1, <4>2, ObserveUptake
      <4>4. StatusAfter(o) # "executing"
        BY <4>1, CompletedStatus
      <4> QED BY <4>1, <4>3, <4>4 DEF Seen, Uptake, Untaken
    <3> QED BY <3>1, <3>2
  <2>2. ASSUME NEW r \in Requests PROVE UptakeOf(r)'
    BY <1>1, <2>0, <2>1, UptakeFrame DEF UptakeInv
  <2> QED BY <2>2 DEF UptakeInv
<1>4. CASE Remember
  <2>1. PICK o \in observing :
          /\ remembered' = IF Stored(o.of) THEN remembered ELSE (remembered \ ObservedOf(o.of)) \cup {o}
          /\ observing' = {} /\ UNCHANGED << row, velocityStatus >>
    BY <1>4 DEF Remember, storeVars, managerVars
  <2>2. ASSUME NEW r \in Requests PROVE UptakeOf(r)'
    <3>1. UptakeOf(r)
      BY DEF UptakeInv
    <3>2. ~Seen(r, observing') /\ (Untaken(r)' <=> Untaken(r))
      BY <2>1 DEF Seen, Untaken
    <3>3. Seen(r, remembered') => Seen(r, remembered) \/ (Seen(r, observing) /\ r = o.of)
      BY <2>1 DEF Seen
    <3>4. CASE Seen(r, observing)
      BY <1>1, <2>1, <3>1, <3>2, <3>3, <3>4 DEF UptakeOf
    <3>5. CASE ~Seen(r, observing)
      BY <1>1, <2>1, <3>1, <3>2, <3>3, <3>5, UptakeFrame
    <3> QED BY <3>4, <3>5
  <2> QED BY <2>2 DEF UptakeInv
<1>5. ASSUME NEW q \in Requests, OnVelocityStatus(q) PROVE UptakeInv'
  <2> DEFINE status == Head(velocityStatus[q])
  <2>0. /\ observing = {} /\ velocityStatus[q] # << >>
        /\ velocityStatus' = [velocityStatus EXCEPT ![q] = Tail(@)]
        /\ velocityStatus \in [Requests -> Seq(VelocityStatuses)]
    BY <1>5 DEF OnVelocityStatus, TypeInv, ManagerTypes
  <2>1. /\ velocityStatus'[q] = Tail(velocityStatus[q])
        /\ \A r \in Requests \ {q} : velocityStatus'[r] = velocityStatus[r]
    BY <2>0
  <2>2. /\ status \in VelocityStatuses
        /\ velocityStatus'[q] \in {<< >>, << "APPLIED" >>}
        /\ status = "ACCEPTED" => velocityStatus[q] = << "ACCEPTED", "APPLIED" >>
    <3>1. velocityStatus[q] \in {<< "ACCEPTED", "APPLIED" >>, << "APPLIED" >>, << "REJECTED" >>}
      BY <2>0 DEF UptakeInv, UptakeOf
    <3>2. /\ Head(<< "ACCEPTED", "APPLIED" >>) = "ACCEPTED" /\ Tail(<< "ACCEPTED", "APPLIED" >>) = << "APPLIED" >>
          /\ Head(<< "APPLIED" >>) = "APPLIED" /\ Tail(<< "APPLIED" >>) = << >>
          /\ Head(<< "REJECTED" >>) = "REJECTED" /\ Tail(<< "REJECTED" >>) = << >>
      OBVIOUS
    <3>3. CASE velocityStatus[q] = << "ACCEPTED", "APPLIED" >>
      BY <2>1, <3>2, <3>3, Zenon DEF VelocityStatuses
    <3>4. CASE velocityStatus[q] = << "APPLIED" >>
      BY <2>1, <3>2, <3>4 DEF VelocityStatuses
    <3>5. CASE velocityStatus[q] = << "REJECTED" >>
      BY <2>1, <3>2, <3>5 DEF VelocityStatuses
    <3> QED BY <3>1, <3>3, <3>4, <3>5
  <2>3. /\ \A r \in Requests \ {q} : row'[r] = row[r] /\ ~Seen(r, observing')
        /\ \A r : Seen(r, remembered') => Seen(r, remembered)
        /\ \/ row' = row /\ ~Seen(q, observing')
           \/ row' = row /\ status = "ACCEPTED"
           \/ Untaken(q)' /\ ~Seen(q, observing')
           \/ ~Seen(q, observing') /\ status = "ACCEPTED"
    <3>1. CASE UNCHANGED << storeVars, remembered, observing >>
      BY <2>0, <3>1 DEF storeVars, Seen
    <3>2. ASSUME NEW m \in manual, NEW stamped \in BOOLEAN,
                 Observe([of |-> q, source |-> "velocity", status |-> status,
                          run |-> m.run, stamped |-> stamped])
          PROVE  /\ \A r \in Requests \ {q} : row'[r] = row[r] /\ ~Seen(r, observing')
                 /\ \A r : Seen(r, remembered') => Seen(r, remembered)
                 /\ \/ row' = row /\ ~Seen(q, observing')
                    \/ row' = row /\ status = "ACCEPTED"
                    \/ Untaken(q)' /\ ~Seen(q, observing')
                    \/ ~Seen(q, observing') /\ status = "ACCEPTED"
      <4> DEFINE o == [of |-> q, source |-> "velocity", status |-> status,
                       run |-> m.run, stamped |-> stamped]
      <4>1. m.run \in Nat
        BY DEF TypeInv, ObserveTypes, Manuals
      <4>2. o \in Observations /\ o.of = q /\ o.source = "velocity" /\ o.status = status
        BY <2>2, <4>1 DEF Observations, VelocityStatuses
      <4>3. Observe(o)
        BY <3>2
      <4> HIDE DEF o, status
      <4>4. /\ \A r \in Requests \ {o.of} : row'[r] = row[r] /\ ~Seen(r, observing')
            /\ \A r : Seen(r, remembered') => Seen(r, remembered)
            /\ \/ row'[o.of].status = StatusAfter(o) /\ observing' = {}
               \/ observing' = {o} /\ row' = row
        BY <1>0, <1>1, <2>0, <4>2, <4>3, ObserveUptake
      <4>5. StatusAfter(o) = "executing" <=> status = "ACCEPTED"
        BY <4>2, CompletedStatus
      <4>6. CASE row'[o.of].status = StatusAfter(o) /\ observing' = {}
        BY <4>2, <4>4, <4>5, <4>6 DEF Seen, Untaken
      <4>7. CASE observing' = {o} /\ row' = row
        BY <4>2, <4>4, <4>7 DEF Seen, Uptake
      <4> QED BY <4>4, <4>6, <4>7
    <3> QED BY <1>5, <3>1, <3>2 DEF OnVelocityStatus
  <2> HIDE DEF status
  <2>4. ASSUME NEW r \in Requests \ {q} PROVE UptakeOf(r)'
    BY <1>1, <2>1, <2>3, UptakeFrame DEF UptakeInv, Untaken
  <2>5. UptakeOf(q)'
    <3>1. UptakeOf(q)
      BY DEF UptakeInv
    <3>2. CASE status = "ACCEPTED"
      <4>1. ~Published(q) /\ ~Seen(q, remembered) /\ Untaken(q) /\ stage[q] \notin {"new", "sent"}
        BY <2>0, <2>2, <3>1, <3>2 DEF UptakeOf
      <4>2. row' = row => Untaken(q)'
        BY <4>1 DEF Untaken
      <4>3. velocityStatus'[q] # << "ACCEPTED", "APPLIED" >>
        BY <2>2
      <4> QED BY <1>1, <2>2, <2>3, <4>1, <4>2, <4>3 DEF UptakeOf
    <3>3. CASE status # "ACCEPTED"
      <4>1. ~Seen(q, observing') /\ (Untaken(q) => Untaken(q)')
        BY <2>3, <3>3 DEF Untaken
      <4>2. ~Published(q) /\ stage[q] \notin {"new", "sent"}
        BY <2>0, <3>1 DEF UptakeOf
      <4>3. velocityStatus'[q] # << "ACCEPTED", "APPLIED" >>
        BY <2>2
      <4> QED BY <1>1, <2>2, <2>3, <3>1, <4>1, <4>2, <4>3 DEF UptakeOf
    <3> QED BY <3>2, <3>3
  <2> QED BY <2>4, <2>5 DEF UptakeInv
<1> QED BY <1>2, <1>3, <1>4, <1>5 DEF RosNext

LEMMA UptakeStep == TypeInv /\ KeyInv /\ UptakeInv /\ [Next]_vars => UptakeInv'
<1> SUFFICES ASSUME TypeInv, KeyInv, UptakeInv, [Next]_vars PROVE UptakeInv'
  OBVIOUS
<1>1. CASE UNCHANGED vars \/ (ManagerNext /\ ~OnManualVelocity)
  <2>1. UNCHANGED << stage, row, velocity, velocityStatus, observing, remembered >>
    BY <1>1 DEF vars, ManagerNext, Serve, Activate, MissionMoves, requestVars, storeVars, observeVars,
                managerVars
  <2>2. ASSUME NEW r \in Requests PROVE UptakeOf(r)'
    BY <2>1, UptakeFrame DEF UptakeInv, Untaken, Published
  <2> QED BY <2>2 DEF UptakeInv
<1>2. CASE OnManualVelocity
  <2>1. UNCHANGED << stage, row, observing, remembered >> /\ velocity' = {}
    BY <1>2 DEF OnManualVelocity, requestVars, storeVars, observeVars
  <2>2. PICK v \in velocity :
          \/ velocityStatus' = [velocityStatus EXCEPT ![v.of] = << "ACCEPTED", "APPLIED" >>]
          \/ velocityStatus' = [velocityStatus EXCEPT ![v.of] = << "REJECTED" >>]
    BY <1>2 DEF OnManualVelocity
  <2>3. velocityStatus \in [Requests -> Seq(VelocityStatuses)] /\ v.of \in Requests
    BY DEF TypeInv, ManagerTypes, Manuals
  <2>4. ASSUME NEW r \in Requests PROVE UptakeOf(r)'
    <3>1. UptakeOf(r) /\ ~Published(r)' /\ (Untaken(r)' <=> Untaken(r))
      BY <2>1 DEF UptakeInv, Published, Untaken
    <3>2. CASE r # v.of
      <4>1. velocityStatus'[r] = velocityStatus[r]
        BY <2>2, <2>3, <3>2
      <4> QED BY <2>1, <3>1, <4>1, UptakeFrame
    <3>3. CASE r = v.of
      <4>1. Published(r)
        BY <3>3 DEF Published
      <4>2. velocityStatus'[r] \in {<< "ACCEPTED", "APPLIED" >>, << "REJECTED" >>}
        BY <2>2, <2>3, <3>3
      <4> QED BY <2>1, <3>1, <4>1, <4>2 DEF UptakeOf
    <3> QED BY <3>2, <3>3
  <2> QED BY <2>4 DEF UptakeInv
<1>3. CASE Crash
  <2>1. UNCHANGED << row, velocity, velocityStatus >> /\ observing' = {} /\ remembered' = {}
    BY <1>3 DEF Crash, managerVars
  <2>2. \A r \in Requests : /\ stage'[r] \in {"new", "sent"} => stage[r] \in {"new", "sent"}
                            /\ stage[r] \in {"answered", "lost"} => stage'[r] \in {"answered", "lost"}
    BY <1>3 DEF Crash
  <2>3. ASSUME NEW r \in Requests PROVE UptakeOf(r)'
    <3>1. UptakeOf(r) /\ ~Seen(r, observing') /\ ~Seen(r, remembered')
          /\ (Published(r)' => Published(r)) /\ (Untaken(r) => Untaken(r)')
      BY <2>1 DEF UptakeInv, Seen, Published, Untaken
    <3> QED BY <2>1, <2>2, <3>1, UptakeFrame
  <2> QED BY <2>3 DEF UptakeInv
<1> QED BY <1>1, <1>2, <1>3, UptakeLoop, UptakeRos DEF Next, LoopNext

LEMMA UptakeInvariant == Spec => []UptakeInv
<1>1. Init => UptakeInv
  BY DEF Init, UptakeInv, UptakeOf, Seen, Published, Untaken, NewRow
<1> QED BY <1>1, UptakeStep, TypeInvariant, KeyInvariant, PTL DEF Spec

(***************************************************************************)
(* The refinement of CommandLifecycle.                                     *)
(***************************************************************************)
Held(s) == {c \in Requests : Stored(c) /\ << Kind(c), form[c].key >> = s}

(* CHOOSE in HolderOf has no choice: KeyInv leaves a slot one row at most. *)
HoldersFit ==
  \A s \in Slots : /\ \A c \in Held(s) : HolderOf(s) = c
                   /\ Held(s) = {} => HolderOf(s) = Nobody

LEMMA HoldersAreUnique == KeyInv => HoldersFit
<1> SUFFICES ASSUME KeyInv, NEW s \in Slots
             PROVE  /\ \A c \in Held(s) : HolderOf(s) = c
                    /\ Held(s) = {} => HolderOf(s) = Nobody
  BY DEF HoldersFit
<1> DEFINE chosen == CHOOSE c \in Held(s) : TRUE
<1>1. HolderOf(s) = IF Held(s) = {} THEN Nobody ELSE chosen
  BY DEF HolderOf, Held
<1>2. \A c, d \in Held(s) : c = d
  BY DEF Held, KeyInv, SameSlot
<1>3. ASSUME NEW c \in Held(s) PROVE chosen \in Held(s)
  BY <1>3
<1> QED BY <1>1, <1>2, <1>3

(* No slot changes hands while no row comes. *)
LEMMA HoldersStay ==
  ASSUME HoldersFit, HoldersFit', SameRows, \A c \in Requests : Stored(c) => form'[c] = form[c]
  PROVE  [s \in Slots |-> HolderOf(s)]' = [s \in Slots |-> HolderOf(s)]
<1>1. ASSUME NEW s \in Slots PROVE HolderOf(s)' = HolderOf(s)
  <2>1. Held(s)' = Held(s)
    BY DEF Held, SameRows, Kind
  <2>2. CASE Held(s) = {}
    BY <2>1, <2>2 DEF HoldersFit
  <2>3. ASSUME NEW c \in Held(s) PROVE HolderOf(s)' = HolderOf(s)
    BY <2>1, <2>3 DEF HoldersFit
  <2> QED BY <2>2, <2>3
<1> QED BY <1>1

LEMMA LifecycleStutters ==
  ASSUME HoldersFit, HoldersFit', UNCHANGED storeVars,
         \A c \in Requests : Stored(c) => form'[c] = form[c]
  PROVE  UNCHANGED Lifecycle!lifecycleVars
<1>1. SameRows
  BY DEF storeVars, SameRows, Stored
<1>2. [s \in Slots |-> HolderOf(s)]' = [s \in Slots |-> HolderOf(s)]
  BY <1>1, HoldersStay
<1> QED BY <1>2 DEF Lifecycle!lifecycleVars, storeVars

(* A commit with its event is a step of the life cycle. *)
LEMMA MoveIsStep ==
  ASSUME StoreTypes, HoldersFit, HoldersFit', form' = form, NEW c \in Requests,
         NEW status \in (Open \cup Terminal) \ {"accepted"}, NEW run \in Nat, NEW rev \in Nat,
         Move(c, status, run, rev),
         row[c].status \in Open, status = "executing" => row[c].status = "accepted"
  PROVE  Lifecycle!LifecycleNext
<1> DEFINE was == [r \in Requests |-> row[r].status]
<1>1. SameRows
  BY MoveKeepsRows DEF Stored, Open
<1>2. [s \in Slots |-> HolderOf(s)]' = [s \in Slots |-> HolderOf(s)]
  BY <1>1, HoldersStay
<1>3. [r \in Requests |-> row'[r].status] = [was EXCEPT ![c] = status]
  <2>1. /\ \A r \in Requests : r # c => row'[r] = row[r]
        /\ row'[c] = [row[c] EXCEPT !.status = status, !.resultRun = run, !.resultRev = rev]
    BY DEF Move, StoreTypes
  <2>2. row'[c].status = status
    BY <2>1 DEF StoreTypes, Rows
  <2> QED BY <2>1, <2>2
<1>4. announced' = [announced EXCEPT ![c] = Append(@, status)] /\ was[c] = row[c].status
  BY DEF Move
<1>5. CASE status = "executing"
  <2>1. Lifecycle!Execute(c)
    BY <1>2, <1>3, <1>4, <1>5 DEF Lifecycle!Execute
  <2> QED BY <2>1 DEF Lifecycle!LifecycleNext
<1>6. CASE status \in Terminal
  <2>1. Lifecycle!Finish(c, status)
    BY <1>2, <1>3, <1>4 DEF Lifecycle!Finish, Lifecycle!OpenStatuses, Open
  <2> QED BY <1>6, <2>1 DEF Lifecycle!LifecycleNext, Lifecycle!TerminalStatuses, Terminal
<1> QED BY <1>5, <1>6 DEF Open

LEMMA CompleteIsStep ==
  ASSUME StoreTypes, HoldersFit, HoldersFit', form' = form, NEW o \in Observations,
         Completes(o), Complete(o), Uptake(o) => Untaken(o.of)
  PROVE  Lifecycle!LifecycleNext
<1> DEFINE run == IF o.source = "mission" THEN o.seen.run ELSE o.run
           rev == IF o.source = "mission" THEN o.seen.rev ELSE 0
<1>1. run \in Nat /\ rev \in Nat /\ o.of \in Requests
  BY DEF Observations, Snapshots
<1>2. Move(o.of, StatusAfter(o), run, rev)
  BY DEF Complete
<1> HIDE DEF run, rev
<1>3. row[o.of].status \in Open
  BY CompletesOpen
<1>4. StatusAfter(o) = "executing" => row[o.of].status = "accepted"
  BY <1>3, CompletedStatus DEF Uptake, Untaken, Open
<1> QED BY <1>1, <1>2, <1>3, <1>4, StatusAfterTypes, CompletedStatus, MoveIsStep

(* The insertion takes the free slot. *)
LEMMA AcceptIsStep ==
  ASSUME KeyInv, HoldersFit, HoldersFit', UNCHANGED << form, announced >>,
         NEW r \in Requests, NEW slot \in Slots, slot = << Kind(r), form[r].key >>,
         Holders(form[r]) = {}, ~Stored(r), row'[r].status = "accepted",
         \A q \in Requests \ {r} : row'[q] = row[q]
  PROVE  Lifecycle!Accept(r, slot)
<1> DEFINE was == [q \in Requests |-> row[q].status]
           before == [s \in Slots |-> HolderOf(s)]
<1>1. [q \in Requests |-> row'[q].status] = [was EXCEPT ![r] = "accepted"] /\ was[r] = "none"
  BY DEF Stored
<1>2. Stored(r)' /\ \A q \in Requests \ {r} : Stored(q)' <=> Stored(q)
  BY DEF Stored
<1>3. HolderOf(slot) = Nobody
  <2>1. Held(slot) = {}
    BY DEF Held, Holders, Kind
  <2> QED BY <2>1 DEF HoldersFit
<1>4. HolderOf(slot)' = r
  <2>1. r \in Held(slot)'
    BY <1>2 DEF Held, Kind
  <2> QED BY <2>1 DEF HoldersFit
<1>5. ASSUME NEW s \in Slots, s # slot PROVE HolderOf(s)' = HolderOf(s)
  <2>1. Held(s)' = Held(s)
    BY <1>2, <1>5 DEF Held, Kind
  <2>2. CASE Held(s) = {}
    BY <2>1, <2>2 DEF HoldersFit
  <2>3. ASSUME NEW c \in Held(s) PROVE HolderOf(s)' = HolderOf(s)
    BY <2>1, <2>3 DEF HoldersFit
  <2> QED BY <2>2, <2>3
<1>6. [s \in Slots |-> HolderOf(s)]' = [before EXCEPT ![slot] = r] /\ before[slot] = Nobody
  BY <1>3, <1>4, <1>5
<1> QED BY <1>1, <1>6 DEF Lifecycle!Accept

LEMMA InsertIsStep ==
  ASSUME TypeInv, KeyInv, NewsInv, HoldersFit, HoldersFit', NEW r \in Requests, Insert(r)
  PROVE  Lifecycle!LifecycleNext \/ UNCHANGED Lifecycle!lifecycleVars
<1>0. row \in [Requests -> Rows] /\ UNCHANGED << form, announced >> /\ stage[r] = "returned"
  BY DEF Insert, TypeInv, StoreTypes
<1>1. CASE UNCHANGED row
  BY <1>0, <1>1, LifecycleStutters DEF storeVars
<1>2. CASE /\ Holders(form[r]) = {}
           /\ \E a \in Expectations(r) : row' = [row EXCEPT ![r] = Inserted(r, a)]
  <2>1. << Kind(r), form[r].key >> \in Slots
    BY <1>0, GatewayAssumption DEF NewsInv, Slots, Kind
  <2>2. ~Stored(r)
    BY <1>0 DEF KeyInv
  <2>3. row'[r].status = "accepted" /\ \A q \in Requests \ {r} : row'[q] = row[q]
    BY <1>0, <1>2 DEF Inserted, Rows
  <2>4. PICK slot \in Slots : slot = << Kind(r), form[r].key >>
    BY <2>1
  <2>5. Lifecycle!Accept(r, slot)
    BY <1>0, <1>2, <2>2, <2>3, <2>4, AcceptIsStep
  <2> QED BY <2>5 DEF Lifecycle!LifecycleNext
<1> QED BY <1>1, <1>2 DEF Insert

LEMMA LoopIsStep ==
  ASSUME TypeInv, KeyInv, NewsInv, UptakeInv, HoldersFit, HoldersFit', NEW r \in Requests,
         \/ \E f \in Forms : Submit(r, f)
         \/ PublishVelocity(r) \/ TimesOut(r) \/ Returned(r)
         \/ Insert(r) \/ Announce(r) \/ Replay(r) \/ Expire(r)
  PROVE  Lifecycle!LifecycleNext \/ UNCHANGED Lifecycle!lifecycleVars
<1>0. /\ StoreTypes /\ row \in [Requests -> Rows] /\ remembered \subseteq Observations
      /\ form \in [Requests -> Forms \cup {[kind |-> "none"]}]
  BY DEF TypeInv, RequestTypes, StoreTypes, ObserveTypes
<1>1. ASSUME NEW f \in Forms, Submit(r, f) PROVE UNCHANGED Lifecycle!lifecycleVars
  <2>1. ~Stored(r) /\ UNCHANGED storeVars /\ \A q \in Requests \ {r} : form'[q] = form[q]
    BY <1>0, <1>1 DEF Submit, KeyInv
  <2> QED BY <2>1, LifecycleStutters
<1>2. CASE PublishVelocity(r) \/ TimesOut(r) \/ Returned(r)
  BY <1>2, LifecycleStutters DEF PublishVelocity, TimesOut, Returned
<1>3. CASE Announce(r)
  <2>1. UNCHANGED form /\ Silent(r) /\ Stored(r)
    BY <1>3 DEF Announce, NewsInv, KeyInv
  <2>2. CASE announced' = [announced EXCEPT ![r] = Append(@, "accepted")] /\ UNCHANGED row
    <3>1. SameRows
      BY <2>2 DEF SameRows, Stored
    <3>2. [s \in Slots |-> HolderOf(s)]' = [s \in Slots |-> HolderOf(s)]
      BY <2>1, <3>1, HoldersStay
    <3>3. Lifecycle!Tell(r)
      BY <2>1, <2>2, <3>2 DEF Lifecycle!Tell, Lifecycle!Untold, Silent, Stored
    <3> QED BY <3>3 DEF Lifecycle!LifecycleNext
  <2>3. CASE /\ MissionCompletes(r, mission)
             /\ row' = [row EXCEPT ![r].status = "succeeded", ![r].resultRun = context.run,
                                   ![r].resultRev = mission.rev]
             /\ announced' = [announced EXCEPT ![r] = Append(Append(@, "accepted"), "succeeded")]
    <3> DEFINE was == [q \in Requests |-> row[q].status]
    <3>1. row'[r].status = "succeeded" /\ \A q \in Requests \ {r} : row'[q] = row[q]
      BY <1>0, <2>3 DEF Rows
    <3>2. row[r].status \in Open /\ was[r] = row[r].status
      BY <2>3 DEF MissionCompletes
    <3>3. [q \in Requests |-> row'[q].status] = [was EXCEPT ![r] = "succeeded"]
      BY <3>1
    <3>4. SameRows
      BY <2>1, <3>1 DEF SameRows, Stored
    <3>5. [s \in Slots |-> HolderOf(s)]' = [s \in Slots |-> HolderOf(s)]
      BY <2>1, <3>4, HoldersStay
    <3>6. Lifecycle!Finish(r, "succeeded")
      BY <2>1, <2>3, <3>2, <3>3, <3>5
      DEF Lifecycle!Finish, Lifecycle!Untold, Lifecycle!OpenStatuses, Silent, Open
    <3> QED BY <3>6 DEF Lifecycle!LifecycleNext, Lifecycle!TerminalStatuses
  <2> QED BY <1>3, <2>2, <2>3 DEF Announce
<1>4. CASE Replay(r)
  <2>1. UNCHANGED form /\ stage[r] = "announced"
    BY <1>4 DEF Replay
  <2>2. CASE UNCHANGED storeVars
    BY <2>1, <2>2, LifecycleStutters
  <2>3. ASSUME NEW o \in ObservedOf(r), Completes(o), Complete(o) PROVE Lifecycle!LifecycleNext
    <3>1. o \in Observations /\ o \in remembered /\ o.of = r
      BY <1>0 DEF ObservedOf
    <3>2. Uptake(o) => Untaken(r)
      BY <2>1, <3>1 DEF UptakeInv, UptakeOf, Seen
    <3> QED BY <1>0, <2>1, <2>3, <3>1, <3>2, CompleteIsStep
  <2> QED BY <1>4, <2>2, <2>3 DEF Replay
<1>5. CASE Expire(r)
  <2>1. UNCHANGED form /\ row[r].status \in Open /\ Move(r, "timed_out", 0, 0)
    BY <1>5 DEF Expire, requestVars
  <2>2. "timed_out" \in (Open \cup Terminal) \ {"accepted"}
    BY DEF Terminal
  <2> QED BY <1>0, <2>1, <2>2, MoveIsStep
<1> QED BY <1>1, <1>2, <1>3, <1>4, <1>5, InsertIsStep

LEMMA LifecycleStep ==
  TypeInv /\ KeyInv /\ NewsInv /\ UptakeInv /\ HoldersFit /\ HoldersFit' /\ [Next]_vars
    => [Lifecycle!LifecycleNext]_(Lifecycle!lifecycleVars)
<1> SUFFICES ASSUME TypeInv, KeyInv, NewsInv, UptakeInv, HoldersFit, HoldersFit', [Next]_vars
             PROVE  Lifecycle!LifecycleNext \/ UNCHANGED Lifecycle!lifecycleVars
  OBVIOUS
<1>1. CASE UNCHANGED vars \/ ManagerNext
  <2>1. UNCHANGED form /\ UNCHANGED storeVars
    BY <1>1 DEF vars, ManagerNext, Serve, Activate, MissionMoves, OnManualVelocity, requestVars, storeVars
  <2> QED BY <2>1, LifecycleStutters
<1>2. CASE RosNext
  <2>1. UNCHANGED form /\ StoreTypes
    BY <1>2, ObserversMeet DEF TypeInv
  <2>2. CASE UNCHANGED storeVars
    BY <2>1, <2>2, LifecycleStutters
  <2>3. ASSUME NEW o \in Observations, Completes(o), Complete(o),
               o.source = "velocity" =>
                 velocityStatus[o.of] # << >> /\ Head(velocityStatus[o.of]) = o.status
        PROVE  Lifecycle!LifecycleNext
    <3>1. ASSUME Uptake(o) PROVE Untaken(o.of)
      <4>1. o.of \in Requests
        BY DEF Observations
      <4>2. Head(velocityStatus[o.of]) = "ACCEPTED" /\ velocityStatus[o.of] # << >>
        BY <2>3, <3>1 DEF Uptake
      <4>3. velocityStatus[o.of] \in
              {<< >>, << "ACCEPTED", "APPLIED" >>, << "APPLIED" >>, << "REJECTED" >>}
        BY <4>1 DEF UptakeInv, UptakeOf
      <4>4. Head(<< "APPLIED" >>) = "APPLIED" /\ Head(<< "REJECTED" >>) = "REJECTED"
        OBVIOUS
      <4>5. velocityStatus[o.of] = << "ACCEPTED", "APPLIED" >>
        BY <4>2, <4>3, <4>4
      <4> QED BY <4>1, <4>5 DEF UptakeInv, UptakeOf
    <3> QED BY <2>1, <2>3, <3>1, CompleteIsStep
  <2> QED BY <1>2, <2>2, <2>3, ObserversMeet
<1>3. CASE Crash
  <2>1. UNCHANGED << form, row >> /\ announced' = [c \in Requests |-> << >>]
    BY <1>3 DEF Crash
  <2>2. SameRows
    BY <2>1 DEF SameRows, Stored
  <2>3. [s \in Slots |-> HolderOf(s)]' = [s \in Slots |-> HolderOf(s)]
    BY <2>1, <2>2, HoldersStay
  <2>4. Lifecycle!Restart
    BY <2>1, <2>3 DEF Lifecycle!Restart
  <2> QED BY <2>4 DEF Lifecycle!LifecycleNext
<1> QED BY <1>1, <1>2, <1>3, LoopIsStep DEF Next, LoopNext

(* The gateway implements CommandLifecycle for any number of requests,     *)
(* keys and crashes: whatever the event loop, the workers and the ROS      *)
(* thread interleave, a slot keeps its command, a row moves forward only,  *)
(* and each of its statuses is announced once (CommandStore).              *)
THEOREM KeepsLifecycleAlways == Spec => KeepsLifecycle
<1>1. Init => Lifecycle!LifecycleInit
  <2> SUFFICES ASSUME Init PROVE Lifecycle!LifecycleInit
    OBVIOUS
  <2>1. [c \in Requests |-> row[c].status] = [c \in Requests |-> "none"]
        /\ announced = [c \in Requests |-> << >>]
    BY DEF Init, NewRow
  <2>2. ASSUME NEW s \in Slots PROVE HolderOf(s) = Nobody
    BY DEF Init, NewRow, HolderOf, Stored
  <2> QED BY <2>1, <2>2 DEF Lifecycle!LifecycleInit
<1>2. TypeInv /\ KeyInv /\ NewsInv /\ UptakeInv /\ HoldersFit /\ HoldersFit' /\ [Next]_vars
        => [Lifecycle!LifecycleNext]_(Lifecycle!lifecycleVars)
  BY LifecycleStep
<1> QED
  BY <1>1, <1>2, TypeInvariant, KeyInvariant, NewsInvariant, UptakeInvariant, HoldersAreUnique, PTL
     DEF Spec, KeepsLifecycle, Lifecycle!LifecycleSpec

(***************************************************************************)
(* What CommandLifecycle promises of the events, from its specification.   *)
(***************************************************************************)
Distinct(s) == \A i, j \in DOMAIN s : s[i] = s[j] => i = j

(* The events s of a command whose status is st. *)
Truthful(s, st) ==
  /\ s \in Seq(Lifecycle!Statuses) /\ Distinct(s)
  /\ \A i \in DOMAIN s : /\ s[i] \in Lifecycle!TerminalStatuses => s[i] = st
                         /\ s[i] = "executing" => st \notin {"none", "accepted"}

LEMMA AppendNew ==
  ASSUME NEW T, NEW s \in Seq(T), NEW t \in T, Distinct(s), \A i \in DOMAIN s : s[i] # t
  PROVE  /\ Append(s, t) \in Seq(T) /\ Distinct(Append(s, t))
         /\ \A i \in DOMAIN Append(s, t) :
              Append(s, t)[i] = t \/ \E j \in DOMAIN s : Append(s, t)[i] = s[j]
<1>1. /\ Append(s, t) \in Seq(T) /\ Len(s) \in Nat
      /\ Append(s, t)[Len(s) + 1] = t /\ \A i \in 1 .. Len(s) : Append(s, t)[i] = s[i]
      /\ Len(Append(s, t)) = Len(s) + 1
  BY AppendProperties, LenProperties
<1>2. DOMAIN Append(s, t) = 1 .. Len(s) + 1 /\ DOMAIN s = 1 .. Len(s)
  BY <1>1, LenProperties
<1>3. \A i \in 1 .. Len(s) + 1 : i \in 1 .. Len(s) \/ i = Len(s) + 1
  BY <1>1
<1> DEFINE u == Append(s, t)
<1>4. u \in Seq(T) /\ DOMAIN u = 1 .. Len(s) + 1 /\ u[Len(s) + 1] = t
      /\ \A i \in 1 .. Len(s) : u[i] = s[i]
  BY <1>1, <1>2
<1> HIDE DEF u
<1>5. Distinct(u)
  BY <1>2, <1>3, <1>4 DEF Distinct
<1>6. \A i \in DOMAIN u : u[i] = t \/ \E j \in DOMAIN s : u[i] = s[j]
  BY <1>2, <1>3, <1>4
<1> QED BY <1>4, <1>5, <1>6 DEF u

(* One more event, with the status after it. *)
LEMMA TruthfulAppend ==
  ASSUME NEW s, NEW st, NEW after, NEW t \in Lifecycle!Statuses, Truthful(s, st),
         \A i \in DOMAIN s : s[i] # t,
         after # st => st \notin Lifecycle!TerminalStatuses /\ after \notin {"none", "accepted"},
         t \in Lifecycle!TerminalStatuses => t = after,
         t = "executing" => after \notin {"none", "accepted"}
  PROVE  Truthful(Append(s, t), after)
<1>1. /\ Append(s, t) \in Seq(Lifecycle!Statuses) /\ Distinct(Append(s, t))
      /\ \A i \in DOMAIN Append(s, t) :
           Append(s, t)[i] = t \/ \E j \in DOMAIN s : Append(s, t)[i] = s[j]
  BY AppendNew DEF Truthful
<1> DEFINE u == Append(s, t)
<1>2. \A i \in DOMAIN u : u[i] = t \/ \E j \in DOMAIN s : u[i] = s[j]
  BY <1>1
<1> HIDE DEF u
<1>3. \A i \in DOMAIN u : /\ u[i] \in Lifecycle!TerminalStatuses => u[i] = after
                          /\ u[i] = "executing" => after \notin {"none", "accepted"}
  BY <1>2 DEF Truthful
<1> QED BY <1>1, <1>3 DEF u, Truthful

(* No status of a command is announced twice, and a terminal one only if   *)
(* it is the command's: what a client of the event stream can rely on      *)
(* (the events of _notify_transition) follows from the life cycle alone.   *)
THEOREM LifecyclePromises == Lifecycle!LifecycleSpec => []Lifecycle!ToldIsTrue
<1> DEFINE st == [c \in Requests |-> row[c].status]
           AllTruthful == /\ DOMAIN announced = Requests
                          /\ \A c \in Requests : Truthful(announced[c], st[c])
<1> USE DEF Lifecycle!Statuses, Lifecycle!OpenStatuses, Lifecycle!TerminalStatuses
<1>1. Lifecycle!LifecycleInit => AllTruthful
  BY EmptySeq DEF Lifecycle!LifecycleInit, Truthful, Distinct
<1>2. AllTruthful /\ [Lifecycle!LifecycleNext]_(Lifecycle!lifecycleVars) => AllTruthful'
  <2> SUFFICES ASSUME AllTruthful,
                      Lifecycle!LifecycleNext \/ UNCHANGED Lifecycle!lifecycleVars
               PROVE  AllTruthful'
    BY DEF AllTruthful
  <2>1. ASSUME NEW c \in Requests, NEW t \in Lifecycle!Statuses,
               announced' = [announced EXCEPT ![c] = Append(@, t)],
               \A d \in Requests \ {c} : st'[d] = st[d], Lifecycle!Untold(c, t),
               st'[c] # st[c] =>
                 st[c] \notin Lifecycle!TerminalStatuses /\ st'[c] \notin {"none", "accepted"},
               t \in Lifecycle!TerminalStatuses => t = st'[c],
               t = "executing" => st'[c] \notin {"none", "accepted"}
        PROVE  AllTruthful'
    <3>1. Truthful(Append(announced[c], t), st'[c])
      <4>1. Truthful(announced[c], st[c]) /\ \A i \in DOMAIN announced[c] : announced[c][i] # t
        BY <2>1 DEF Lifecycle!Untold
      <4> HIDE DEF st
      <4> QED BY <2>1, <4>1, TruthfulAppend
    <3>2. \A d \in Requests \ {c} : announced'[d] = announced[d]
      BY <2>1
    <3>3. DOMAIN announced' = Requests /\ announced'[c] = Append(announced[c], t)
      BY <2>1
    <3> HIDE DEF st
    <3> QED BY <2>1, <3>1, <3>2, <3>3
  <2>2. ASSUME NEW c \in Requests, NEW t \in Lifecycle!TerminalStatuses, st[c] \in Lifecycle!OpenStatuses
        PROVE  Lifecycle!Untold(c, t)
    BY <2>2 DEF Lifecycle!Untold, Truthful
  <2>3. ASSUME NEW c \in Requests, NEW s \in Slots, Lifecycle!Accept(c, s) PROVE AllTruthful'
    <3>1. st[c] = "none" /\ announced' = announced /\ \A d \in Requests \ {c} : st'[d] = st[d]
      BY <2>3 DEF Lifecycle!Accept
    <3>2. Truthful(announced[c], st[c]) => Truthful(announced[c], st'[c])
      <4> HIDE DEF st
      <4> QED BY <3>1 DEF Truthful
    <3> HIDE DEF st
    <3> QED BY <3>1, <3>2
  <2>4. ASSUME NEW c \in Requests, Lifecycle!Tell(c) PROVE AllTruthful'
    <3>1. /\ announced' = [announced EXCEPT ![c] = Append(@, "accepted")]
          /\ st' = st /\ Lifecycle!Untold(c, "accepted")
      BY <2>4 DEF Lifecycle!Tell
    <3> HIDE DEF st, AllTruthful
    <3> QED BY <2>1, <3>1
  <2>5. ASSUME NEW c \in Requests, Lifecycle!Execute(c) PROVE AllTruthful'
    <3>1. /\ announced' = [announced EXCEPT ![c] = Append(@, "executing")]
          /\ st[c] = "accepted" /\ st'[c] = "executing" /\ \A d \in Requests \ {c} : st'[d] = st[d]
      BY <2>5 DEF Lifecycle!Execute
    <3>2. Lifecycle!Untold(c, "executing")
      <4> HIDE DEF st
      <4> QED BY <3>1 DEF Lifecycle!Untold, Truthful
    <3> HIDE DEF st, AllTruthful
    <3> QED BY <2>1, <3>1, <3>2
  <2>6. ASSUME NEW c \in Requests, NEW t \in Lifecycle!TerminalStatuses, Lifecycle!Finish(c, t)
        PROVE  AllTruthful'
    <3>1. /\ st[c] \in Lifecycle!OpenStatuses /\ st'[c] = t
          /\ \A d \in Requests \ {c} : st'[d] = st[d]
      BY <2>6 DEF Lifecycle!Finish
    <3>2. Lifecycle!Untold(c, t)
      BY <2>2, <3>1
    <3>3. CASE announced' = [announced EXCEPT ![c] = Append(@, t)]
      <4> HIDE DEF st, AllTruthful
      <4> QED BY <2>1, <3>1, <3>2, <3>3
    <3>4. CASE /\ Lifecycle!Untold(c, "accepted")
               /\ announced' = [announced EXCEPT ![c] = Append(Append(@, "accepted"), t)]
      <4> DEFINE first == Append(announced[c], "accepted")
      <4>1. Truthful(announced[c], st[c])
        OBVIOUS
      <4> HIDE DEF st
      <4>2. Truthful(first, st[c])
        BY <3>4, <4>1, TruthfulAppend DEF Lifecycle!Untold
      <4>3. \A i \in DOMAIN first : first[i] # t
        <5>1. \A i \in DOMAIN first : first[i] = "accepted" \/ \E j \in DOMAIN announced[c] : first[i] = announced[c][j]
          BY <3>4, <4>1, AppendNew DEF Lifecycle!Untold, Truthful
        <5> HIDE DEF first
        <5> QED BY <3>2, <5>1 DEF Lifecycle!Untold
      <4>4. DOMAIN announced' = Requests /\ announced'[c] = Append(first, t)
            /\ \A d \in Requests \ {c} : announced'[d] = announced[d]
        BY <3>4
      <4> HIDE DEF first
      <4>5. Truthful(Append(first, t), st'[c])
        BY <3>1, <4>2, <4>3, TruthfulAppend
      <4> QED BY <3>1, <4>4, <4>5
    <3> QED BY <2>6, <3>3, <3>4 DEF Lifecycle!Finish
  <2>7. CASE Lifecycle!Restart
    <3>1. announced' = [c \in Requests |-> << >>]
      BY <2>7 DEF Lifecycle!Restart
    <3>2. \A x : Truthful(<< >>, x)
      BY EmptySeq DEF Truthful, Distinct
    <3> HIDE DEF st
    <3> QED BY <3>1, <3>2
  <2>8. CASE UNCHANGED Lifecycle!lifecycleVars
    <3>1. announced' = announced /\ st' = st
      BY <2>8 DEF Lifecycle!lifecycleVars
    <3> HIDE DEF st
    <3> QED BY <3>1
  <2> QED BY <2>3, <2>4, <2>5, <2>6, <2>7, <2>8 DEF Lifecycle!LifecycleNext
<1>3. AllTruthful => Lifecycle!ToldIsTrue
  BY DEF Lifecycle!ToldIsTrue, Truthful, Distinct
<1> HIDE DEF AllTruthful
<1> QED BY <1>1, <1>2, <1>3, PTL DEF Lifecycle!LifecycleSpec
=============================================================================
