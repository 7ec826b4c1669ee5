------------------------- MODULE ScenarioSystem_proofs -------------------------
(***************************************************************************)
(* What holds of ScenarioSystem for any catalogue and any commands, with   *)
(* calls that fail and managers that are restarted: clients are told the   *)
(* truth, and Gazebo shows what the manager says.                          *)
(***************************************************************************)
EXTENDS ScenarioSystem, SequenceTheorems, TLAPS

Statuses == {"applied", "failed"}
Results  == [cmd : Commands, status : Statuses, rev : Nat]
States   == [cmd : Commands \cup {Nothing}, scenario : Scenarios,
             status : Statuses \cup {"applying"}, rev : Nat]

WorkTypeOK ==
  /\ work \in [cmd : Commands \cup {Nothing}, todo : SUBSET Props, done : Seq(Props),
               phase : {"idle", "setting", "undoing"}]
  /\ work.phase # "idle" => work.cmd \in Commands

Readings == Scenarios \cup Commands \cup {Nothing} \cup Nat

ReadingTypeOK ==
  /\ reading \in Seq(Readings)
  /\ Len(reading) >= 1 => reading[1] \in Scenarios
  /\ Len(reading) >= 2 => reading[2] \in Commands \cup {Nothing}
  /\ Len(reading) >= 3 => reading[3] \in Nat

SystemTypeOK ==
  /\ pending \in Commands \cup {Nothing} /\ applying \in Commands \cup {Nothing}
  /\ WorkTypeOK
  /\ completed \in Results \cup {Nothing} /\ finishing \subseteq Results
  /\ last \in Commands \cup {Nothing}
  /\ ReadingTypeOK
  /\ shown \in Scenarios /\ revision \in Nat
  /\ results \in [Commands -> Results \cup {Nothing}]
  /\ topic \in States /\ projected \in States
  /\ world \subseteq Props /\ doubtful \subseteq Props
  /\ outcomes \in [Commands -> SUBSET Statuses]
  /\ claim \in [Sent -> [state : {"unsent", "asking", "waiting", "refused", "succeeded", "failed"},
                         base : Nat]]

LEMMA TargetType == \A c \in Commands : Target(c) \in Scenarios
  BY ScenarioAssumption DEF Target

LEMMA ChangedType ==
  ASSUME shown \in Scenarios, NEW c \in Commands
  PROVE  Changed(c) \subseteq Props
  BY ScenarioAssumption, TargetType DEF Changed

LEMMA NoWorkType == NoWork.done \in Seq(Props) /\ Len(NoWork.done) = 0
  BY EmptySeq DEF NoWork

(* One prop less to undo.                                                  *)
LEMMA UndoneType ==
  ASSUME NEW done \in Seq(Props), done # << >>
  PROVE  /\ Len(done) \in Nat \ {0} /\ done[Len(done)] \in Props
         /\ SubSeq(done, 1, Len(done) - 1) \in Seq(Props)
         /\ Range(done) \subseteq Range(SubSeq(done, 1, Len(done) - 1)) \cup {done[Len(done)]}
<1>1. Len(done) \in Nat \ {0}
  BY EmptySeq
<1>2. \A i \in 1 .. Len(done) : done[i] \in Props
  BY ElementOfSeq
<1> DEFINE rest == SubSeq(done, 1, Len(done) - 1)
<1>3. /\ rest \in Seq(Props) /\ Len(rest) = Len(done) - 1
      /\ \A i \in 1 .. Len(done) - 1 : rest[i] = done[i]
  <2> DEFINE n == Len(done) - 1
  <2>1. n \in Nat /\ \A i \in 1 .. n : done[i] \in Props
    BY <1>1, <1>2
  <2> HIDE DEF n
  <2>2. /\ SubSeq(done, 1, n) \in Seq(Props)
        /\ Len(SubSeq(done, 1, n)) = IF 1 <= n THEN n - 1 + 1 ELSE 0
        /\ \A i \in 1 .. n - 1 + 1 : SubSeq(done, 1, n)[i] = done[1 + i - 1]
    BY <2>1, SubSeqProperties
  <2>3. /\ SubSeq(done, 1, n) \in Seq(Props) /\ Len(SubSeq(done, 1, n)) = n
        /\ \A i \in 1 .. n : SubSeq(done, 1, n)[i] = done[i]
    BY <2>1, <2>2
  <2> QED BY <2>3 DEF n
<1>4. Range(done) = {done[i] : i \in 1 .. Len(done)} /\ Range(rest) = {rest[i] : i \in 1 .. Len(rest)}
  BY <1>3, RangeEquality
<1>5. \A i \in 1 .. Len(done) : i = Len(done) \/ i \in 1 .. Len(rest)
  BY <1>1, <1>3
<1> QED BY <1>1, <1>2, <1>3, <1>4, <1>5

(* One prop more that is set.                                              *)
LEMMA SetType ==
  ASSUME NEW done \in Seq(Props), NEW p \in Props
  PROVE  Append(done, p) \in Seq(Props) /\ Range(Append(done, p)) = Range(done) \cup {p}
<1>1. << p >> \in Seq(Props) /\ Range(<< p >>) = {p}
  BY DEF Range
<1>2. Append(done, p) \in Seq(Props) /\ Append(done, p) = done \o << p >>
  BY AppendProperties, AppendIsConcat
<1>3. Range(done \o << p >>) = Range(done) \cup Range(<< p >>)
  BY <1>1, RangeConcatenation
<1> QED BY <1>1, <1>2, <1>3

(* What is read is put at the end.                                         *)
LEMMA ReadsType ==
  ASSUME NEW r \in Seq(Readings), NEW e \in Readings
  PROVE  /\ Append(r, e) \in Seq(Readings) /\ Len(Append(r, e)) = Len(r) + 1
         /\ Len(r) \in Nat /\ Append(r, e)[Len(r) + 1] = e
         /\ \A i \in 1 .. Len(r) : Append(r, e)[i] = r[i]
  BY AppendProperties, LenProperties

LEMMA NothingRead == << >> \in Seq(Readings) /\ Len(<< >>) = 0
  BY EmptySeq

LEMMA RepeatReadsType ==
  ASSUME SystemTypeOK, RepeatReads
  PROVE  /\ ReadingTypeOK' /\ reading' # << >>
         /\ Len(reading') = 2 => reading'[2] = last
         /\ Len(reading') = 3 => Len(reading) = 2 /\ reading'[2] = reading[2]
         /\ Len(reading') \in 1 .. 3
<1>1. /\ reading \in Seq(Readings) /\ shown \in Readings /\ last \in Readings
      /\ revision \in Readings
  BY DEF SystemTypeOK, ReadingTypeOK, Readings
<1>2. CASE reading = << >> /\ reading' = << shown >>
  BY <1>1, <1>2 DEF ReadingTypeOK, SystemTypeOK
<1>3. CASE Len(reading) = 1 /\ reading' = Append(reading, last)
  <2>1. /\ reading' \in Seq(Readings) /\ Len(reading') = 2
        /\ reading'[1] = reading[1] /\ reading'[2] = last
    <3>1. /\ Append(reading, last) \in Seq(Readings)
          /\ Len(Append(reading, last)) = Len(reading) + 1
          /\ Append(reading, last)[Len(reading) + 1] = last
          /\ \A i \in 1 .. Len(reading) : Append(reading, last)[i] = reading[i]
      BY <1>1, ReadsType
    <3> QED BY <1>3, <3>1
  <2> QED BY <1>3, <2>1, NothingRead DEF ReadingTypeOK, SystemTypeOK
<1>4. CASE Len(reading) = 2 /\ reading' = Append(reading, revision)
  <2>1. /\ reading' \in Seq(Readings) /\ Len(reading') = 3
        /\ reading'[1] = reading[1] /\ reading'[2] = reading[2] /\ reading'[3] = revision
    <3>1. /\ Append(reading, revision) \in Seq(Readings)
          /\ Len(Append(reading, revision)) = Len(reading) + 1
          /\ Append(reading, revision)[Len(reading) + 1] = revision
          /\ \A i \in 1 .. Len(reading) : Append(reading, revision)[i] = reading[i]
      BY <1>1, ReadsType
    <3> QED BY <1>4, <3>1
  <2> QED BY <1>4, <2>1, NothingRead DEF ReadingTypeOK, SystemTypeOK
<1> QED BY <1>2, <1>3, <1>4 DEF RepeatReads

LEMMA TypeInit == Init => SystemTypeOK
<1> SUFFICES ASSUME Init PROVE SystemTypeOK
  OBVIOUS
<1>1. WorkTypeOK
  BY NoWorkType DEF Init, ScenarioInit, ManagerStarted, WorkTypeOK, NoWork
<1>2. ReadingTypeOK
  BY NothingRead DEF Init, ScenarioInit, ManagerStarted, ReadingTypeOK
<1> QED
  BY <1>1, <1>2, ScenarioAssumption
  DEF Init, ScenarioInit, ManagerStarted, SystemTypeOK, States, State, Statuses, Unsent

(* The manager's own steps. *)
LEMMA TypeManager ==
  ASSUME SystemTypeOK,
         \/ StartWorker \/ TakeCompleted \/ Finish \/ ManagerDies
         \/ RepeatReads \/ Repeat
         \/ WorkerSets \/ WorkerUndoes \/ WorkerRaises \/ WorkerEnds
         \/ \E c \in Commands : TakeCommand(c),
         UNCHANGED << projected, claim >>
  PROVE  SystemTypeOK'
<1> USE DEF SystemTypeOK
<1>1. CASE \E c \in Commands : TakeCommand(c)
  BY <1>1, ScenarioAssumption DEF TakeCommand, engineVars, WorkTypeOK, ReadingTypeOK, States, State, Statuses
<1>2. CASE StartWorker
  <2>1. pending \in Commands /\ Changed(pending) \subseteq Props
    BY <1>2, ChangedType DEF StartWorker
  <2>2. << >> \in Seq(Props)
    BY EmptySeq
  <2>3. WorkTypeOK'
    BY <1>2, <2>1, <2>2 DEF StartWorker, WorkTypeOK
  <2> QED BY <1>2, <2>1, <2>3 DEF StartWorker, engineVars, ReadingTypeOK
<1>3. CASE TakeCompleted
  BY <1>3 DEF TakeCompleted, engineVars, WorkTypeOK, ReadingTypeOK
<1>4. CASE Finish
  BY <1>4, ScenarioAssumption DEF Finish, engineVars, WorkTypeOK, ReadingTypeOK, Results, States, State, Statuses
<1>5. CASE Repeat
  <2>1. reading[1] \in Scenarios /\ reading[2] \in Commands \cup {Nothing} /\ reading[3] \in Nat
    BY <1>5 DEF Repeat, ReadingTypeOK
  <2>2. ReadingTypeOK'
    BY <1>5, NothingRead DEF Repeat, ReadingTypeOK
  <2> QED BY <1>5, <2>1, <2>2 DEF Repeat, engineVars, WorkTypeOK, States, State, Statuses
<1>6. CASE ManagerDies
  <2>1. WorkTypeOK'
    BY <1>6, NoWorkType DEF ManagerDies, WorkTypeOK, NoWork
  <2>2. ReadingTypeOK'
    BY <1>6, NothingRead DEF ManagerDies, ReadingTypeOK
  <2> QED BY <1>6, <2>1, <2>2, ScenarioAssumption DEF ManagerDies
<1>7. CASE WorkerSets
  <2> PICK p \in work.todo, ok \in BOOLEAN :
         /\ SetPose(p, p \in Shows[Target(work.cmd)], ok)
         /\ work' = IF ok THEN [work EXCEPT !.todo = @ \ {p}, !.done = Append(@, p)]
                          ELSE [work EXCEPT !.phase = "undoing"]
    BY <1>7 DEF WorkerSets
  <2>1. p \in Props /\ Append(work.done, p) \in Seq(Props)
    BY SetType DEF WorkTypeOK
  <2>2. WorkTypeOK'
    BY <1>7, <2>1 DEF WorkTypeOK, WorkerSets
  <2>3. world' \subseteq Props /\ doubtful' \subseteq Props
    BY <2>1 DEF SetPose
  <2> QED BY <1>7, <2>2, <2>3 DEF WorkerSets, engineVars, ReadingTypeOK
<1>8. CASE WorkerUndoes
  <2> DEFINE p == work.done[Len(work.done)]
  <2>1. /\ p \in Props /\ SubSeq(work.done, 1, Len(work.done) - 1) \in Seq(Props)
        /\ Range(work.done) \subseteq Props /\ << >> \in Seq(Props)
    BY <1>8, UndoneType, RangeOfSeq, EmptySeq DEF WorkerUndoes, WorkTypeOK
  <2>2. WorkTypeOK' /\ world' \subseteq Props /\ doubtful' \subseteq Props
    BY <1>8, <2>1 DEF WorkerUndoes, WorkTypeOK, SetPose
  <2> QED BY <1>8, <2>2 DEF WorkerUndoes, engineVars, ReadingTypeOK
<1>9. CASE WorkerEnds
  <2>1. work.cmd \in Commands
    BY <1>9 DEF WorkerEnds, WorkTypeOK
  <2>2. WorkTypeOK'
    BY <1>9, NoWorkType DEF WorkerEnds, WorkTypeOK, NoWork
  <2>3. /\ completed' \in Results \cup {Nothing}
        /\ results' \in [Commands -> Results \cup {Nothing}]
        /\ outcomes' \in [Commands -> SUBSET Statuses]
        /\ shown' \in Scenarios /\ revision' \in Nat
    <3> DEFINE c == work.cmd
    <3> HIDE DEF c
    <3>1. CASE Repeated(c) /\ completed' = results[c] /\ UNCHANGED << engineVars, outcomes >>
      BY <2>1, <3>1 DEF engineVars, c
    <3>2. CASE /\ completed' = Result(c, "failed", revision)
               /\ outcomes' = [outcomes EXCEPT ![c] = @ \cup {"failed"}]
               /\ UNCHANGED << shown, revision >>
               /\ results' = results \/ results' = [results EXCEPT ![c] = completed']
      BY <2>1, <3>2 DEF Result, Results, Statuses, c
    <3>3. CASE /\ shown' = Target(c) /\ revision' = revision + 1
               /\ completed' = Result(c, "applied", revision + 1)
               /\ results' = [results EXCEPT ![c] = completed']
               /\ outcomes' = [outcomes EXCEPT ![c] = @ \cup {"applied"}]
      <4>1. Target(c) \in Scenarios /\ revision + 1 \in Nat
        BY <2>1, TargetType DEF c
      <4> QED BY <2>1, <3>3, <4>1 DEF Result, Results, Statuses, c
    <3> QED BY <1>9, <3>1, <3>2, <3>3 DEF WorkerEnds, engineVars, c
  <2> QED BY <1>9, <2>2, <2>3 DEF WorkerEnds, ReadingTypeOK
<1>10. CASE WorkerRaises
  <2>1. work.cmd \in Commands /\ Range(work.done) \subseteq Props
    BY <1>10, RangeOfSeq DEF WorkerRaises, WorkTypeOK
  <2>2. WorkTypeOK' /\ world' \subseteq Props /\ doubtful' \subseteq Props
    BY <1>10, <2>1, NoWorkType DEF WorkerRaises, WorkTypeOK, NoWork
  <2>3. completed' \in Results /\ outcomes' \in [Commands -> SUBSET Statuses]
    BY <1>10, <2>1 DEF WorkerRaises, Result, Results, Statuses
  <2> QED BY <1>10, <2>2, <2>3 DEF WorkerRaises, engineVars, ReadingTypeOK
<1>11. CASE RepeatReads
  <2>1. ReadingTypeOK'
    BY <1>11, RepeatReadsType
  <2> QED BY <1>11, <2>1 DEF RepeatReads, engineVars, WorkTypeOK
<1> QED BY <1>1, <1>2, <1>3, <1>4, <1>5, <1>6, <1>7, <1>8, <1>9, <1>10, <1>11

LEMMA TypeStep == SystemTypeOK /\ [Next]_vars => SystemTypeOK'
<1> SUFFICES ASSUME SystemTypeOK, [Next]_vars PROVE SystemTypeOK'
  OBVIOUS
<1> DEFINE Claims == [Sent -> [state : {"unsent", "asking", "waiting", "refused", "succeeded",
                                        "failed"}, base : Nat]]
<1>1. ASSUME UNCHANGED scenarioVars, claim' \in Claims, projected' \in States
      PROVE  SystemTypeOK'
  BY <1>1 DEF SystemTypeOK, WorkTypeOK, ReadingTypeOK, scenarioVars, engineVars
<1>2. CASE UNCHANGED vars
  BY <1>2, <1>1 DEF vars, SystemTypeOK
<1>3. CASE Read
  BY <1>3, <1>1 DEF Read, SystemTypeOK
<1>4. CASE Call
  <2> PICK c \in Sent :
         /\ claim[c].state = "asking"
         /\ \/ TakeCommand(c) /\ claim' = [claim EXCEPT ![c].state = "waiting"]
            \/ Busy /\ claim' = [claim EXCEPT ![c].state = "refused"] /\ UNCHANGED scenarioVars
    BY <1>4 DEF Call
  <2>1. claim' \in Claims /\ projected' = projected
    BY <1>4 DEF SystemTypeOK, Call
  <2>2. CASE UNCHANGED scenarioVars
    BY <2>1, <2>2, <1>1 DEF SystemTypeOK
  <2>3. CASE TakeCommand(c)
    BY <2>1, <2>3, SentAssumption, ScenarioAssumption
    DEF TakeCommand, engineVars, WorkTypeOK, ReadingTypeOK, States, State, Statuses, SystemTypeOK
  <2> QED BY <2>2, <2>3
<1>5. CASE OtherCall \/ TimerSteps \/ WorkerSteps \/ Repeats \/ ManagerRestarts
  BY <1>5, TypeManager DEF OtherCall, TimerSteps, WorkerSteps, Repeats, ManagerRestarts
<1>6. CASE Ask
  <2>1. claim' \in Claims
    BY <1>6 DEF Ask, SystemTypeOK, States
  <2> QED BY <1>6, <2>1, <1>1 DEF Ask, SystemTypeOK
<1> QED BY <1>2, <1>3, <1>4, <1>5, <1>6 DEF Next

(* Whatever happens to calls, clients and the manager, every variable      *)
(* keeps its type.                                                         *)
THEOREM ScenarioTypeCorrect == Spec => []SystemTypeOK
  BY TypeInit, TypeStep, PTL DEF Spec

(***************************************************************************)
(* The truth about a command travels: from results to completed and        *)
(* finishing, to last, to a publication, to the topic, to the client.  At  *)
(* each station it names the command it is about.                          *)
(***************************************************************************)
TruthInv ==
  /\ \A c \in Commands : results[c] # Nothing =>
       results[c].cmd = c /\ results[c].status \in outcomes[c]
  /\ completed # Nothing => completed.status \in outcomes[completed.cmd]
  /\ \A f \in finishing : f.status \in outcomes[f.cmd]
  /\ last # Nothing => "applied" \in outcomes[last]
  /\ Len(reading) >= 2 /\ reading[2] # Nothing => "applied" \in outcomes[reading[2]]
  /\ topic.cmd # Nothing /\ topic.status # "applying" => topic.status \in outcomes[topic.cmd]
  /\ ToldTruth

LEMMA TruthInit == Init => TruthInv
  BY SentAssumption, NothingRead
  DEF Init, ScenarioInit, ManagerStarted, TruthInv, ToldTruth, State, Unsent

LEMMA TruthStep == SystemTypeOK /\ TruthInv /\ [Next]_vars => TruthInv'
<1> SUFFICES ASSUME SystemTypeOK, TruthInv, [Next]_vars PROVE TruthInv'
  OBVIOUS
<1> USE SentAssumption, ScenarioAssumption DEF TruthInv
<1>1. CASE UNCHANGED vars
  BY <1>1 DEF vars, scenarioVars, engineVars, ToldTruth
<1>2. CASE Ask
  BY <1>2 DEF Ask, scenarioVars, engineVars, ToldTruth, SystemTypeOK
<1>3. CASE Read
  <2>1. UNCHANGED scenarioVars
    BY <1>3 DEF Read
  <2>2. ToldTruth'
    <3> SUFFICES ASSUME NEW c \in Sent
                 PROVE  /\ claim'[c].state = "succeeded" => "applied" \in outcomes[c]
                        /\ claim'[c].state = "failed" => "failed" \in outcomes[c]
      BY <2>1 DEF ToldTruth, scenarioVars
    <3>1. CASE Completes(c)
      <4>1. claim'[c].state = IF topic.status = "applied" THEN "succeeded" ELSE "failed"
        BY <1>3, <3>1 DEF Read, SystemTypeOK
      <4>2. topic.cmd = c /\ topic.status \in {"applied", "failed"} /\ c # Nothing
        BY <3>1 DEF Completes, SystemTypeOK, States
      <4> QED BY <4>1, <4>2
    <3>2. CASE ~Completes(c)
      BY <1>3, <3>2 DEF Read, ToldTruth
    <3> QED BY <3>1, <3>2
  <2> QED BY <2>1, <2>2 DEF scenarioVars, engineVars
<1>4. ASSUME NEW c \in Commands, TakeCommand(c),
             \A s \in Sent : claim'[s].state \in {"succeeded", "failed"} => claim'[s] = claim[s]
      PROVE  TruthInv'
  BY <1>4 DEF TakeCommand, engineVars, State, ToldTruth
<1>5. CASE Call
  <2> PICK c \in Sent :
         /\ claim[c].state = "asking"
         /\ \/ TakeCommand(c) /\ claim' = [claim EXCEPT ![c].state = "waiting"]
            \/ Busy /\ claim' = [claim EXCEPT ![c].state = "refused"] /\ UNCHANGED scenarioVars
    BY <1>5 DEF Call
  <2>1. \A s \in Sent : claim'[s].state \in {"succeeded", "failed"} => claim'[s] = claim[s]
    BY DEF SystemTypeOK
  <2>2. CASE UNCHANGED scenarioVars
    BY <2>1, <2>2 DEF scenarioVars, engineVars, ToldTruth
  <2>3. CASE TakeCommand(c)
    BY <2>1, <2>3, <1>4
  <2> QED BY <2>2, <2>3
<1>6. CASE OtherCall
  BY <1>6, <1>4 DEF OtherCall
<1>7. CASE TimerSteps
  <2>1. CASE StartWorker
    BY <1>7, <2>1 DEF TimerSteps, StartWorker, engineVars, ToldTruth
  <2>2. CASE TakeCompleted
    BY <1>7, <2>2 DEF TimerSteps, TakeCompleted, engineVars, ToldTruth
  <2>3. CASE Finish
    BY <1>7, <2>3 DEF TimerSteps, Finish, engineVars, ToldTruth, State
  <2> QED BY <1>7, <2>1, <2>2, <2>3 DEF TimerSteps
<1>8. CASE WorkerSteps
  <2>1. CASE WorkerSets \/ WorkerUndoes
    BY <1>8, <2>1 DEF WorkerSteps, WorkerSets, WorkerUndoes, engineVars, ToldTruth
  <2>2. CASE WorkerEnds \/ WorkerRaises
    <3> DEFINE c == work.cmd
    <3>1. c \in Commands
      BY <2>2 DEF WorkerEnds, WorkerRaises, SystemTypeOK, WorkTypeOK
    <3>2. \A d \in Commands : outcomes[d] \subseteq outcomes'[d]
      BY <2>2 DEF WorkerEnds, WorkerRaises, engineVars, SystemTypeOK
    <3>3. completed'.status \in outcomes'[c] /\ completed'.cmd = c
      BY <2>2, <3>1 DEF WorkerEnds, WorkerRaises, engineVars, SystemTypeOK, Result, Repeated
    <3>4. \A d \in Commands : results'[d] = results[d] \/ (d = c /\ results'[d] = completed')
      BY <2>2 DEF WorkerEnds, WorkerRaises, engineVars, SystemTypeOK
    <3>5. UNCHANGED << finishing, reading, last, topic, claim >>
      BY <1>8, <2>2 DEF WorkerSteps, WorkerEnds, WorkerRaises
    <3>6. ToldTruth'
      BY <3>2, <3>5 DEF ToldTruth
    <3>7. /\ \A f \in finishing : f.cmd \in Commands
          /\ last # Nothing => last \in Commands
          /\ topic.cmd # Nothing => topic.cmd \in Commands
          /\ Len(reading) >= 2 /\ reading[2] # Nothing => reading[2] \in Commands
      BY DEF SystemTypeOK, ReadingTypeOK, Results, States
    <3> QED BY <3>2, <3>3, <3>4, <3>5, <3>6, <3>7
  <2> QED BY <1>8, <2>1, <2>2 DEF WorkerSteps
<1>9. CASE Repeats
  <2>1. CASE Repeat
    BY <1>9, <2>1, NothingRead DEF Repeats, Repeat, engineVars, ToldTruth, State
  <2>2. CASE RepeatReads
    <3>1. Len(reading') >= 2 /\ reading'[2] # Nothing => "applied" \in outcomes[reading'[2]]
      BY <2>2, RepeatReadsType
    <3> QED BY <1>9, <2>2, <3>1 DEF Repeats, RepeatReads, engineVars, ToldTruth
  <2> QED BY <1>9, <2>1, <2>2 DEF Repeats
<1>10. CASE ManagerRestarts
  BY <1>10, NothingRead DEF ManagerRestarts, ManagerDies, ToldTruth
<1> QED BY <1>1, <1>2, <1>3, <1>5, <1>6, <1>7, <1>8, <1>9, <1>10 DEF Next

(* Nobody is told "succeeded" of a command that was not applied, nor       *)
(* "failed" of one that did not fail, for any number of commands, clients  *)
(* and restarts of the manager.                                            *)
THEOREM ToldTruthAlways == Spec => []ToldTruth
<1>1. TruthInv => ToldTruth
  BY DEF TruthInv
<1> QED BY <1>1, TypeInit, TypeStep, TruthInit, TruthStep, PTL DEF Spec

(***************************************************************************)
(* Gazebo and the manager.  While a command is being applied, a prop is as *)
(* the new scenario has it once it was set, and as the old one before; on  *)
(* the way back it is as the old one has it once it was put back.  Nobody  *)
(* but the one worker sets props.                                          *)
(***************************************************************************)
Shown(p, name) == (p \in world) = (p \in Shows[name])

WorldInv ==
  /\ work.phase # "idle" =>
       /\ applying # Nothing /\ completed = Nothing
       /\ ~IsNew(work.cmd) => work.done = << >>
  /\ work.phase = "idle" => \A p \in Props \ doubtful : Shown(p, shown)
  /\ work.phase = "setting" =>
       /\ Changed(work.cmd) \subseteq work.todo \cup Range(work.done)
       /\ \A p \in Props \ doubtful :
            /\ p \in Range(work.done) => Shown(p, Target(work.cmd))
            /\ p \notin Range(work.done) => Shown(p, shown)
  /\ work.phase = "undoing" =>
       \A p \in Props \ (doubtful \cup Range(work.done)) : Shown(p, shown)

LEMMA NothingDone == Range(<< >>) = {}
  BY DEF Range

LEMMA WorldInit == Init => WorldInv
  BY ScenarioAssumption
  DEF Init, ScenarioInit, ManagerStarted, WorldInv, NoWork, Shown

(* The steps of the worker.                                                *)
LEMMA WorldWorker ==
  ASSUME SystemTypeOK, WorldInv, WorkerSets \/ WorkerUndoes \/ WorkerRaises \/ WorkerEnds
  PROVE  WorldInv'
<1> USE DEF WorldInv, Shown
<1>1. CASE WorkerSets
  <2> PICK p \in work.todo, ok \in BOOLEAN :
         /\ SetPose(p, p \in Shows[Target(work.cmd)], ok)
         /\ work' = IF ok THEN [work EXCEPT !.todo = @ \ {p}, !.done = Append(@, p)]
                          ELSE [work EXCEPT !.phase = "undoing"]
    BY <1>1 DEF WorkerSets
  <2>1. /\ p \in Props
        /\ Append(work.done, p) \in Seq(Props)
        /\ Range(Append(work.done, p)) = Range(work.done) \cup {p}
    BY SetType DEF SystemTypeOK, WorkTypeOK
  <2>2. /\ work.phase = "setting" /\ IsNew(work.cmd)
        /\ UNCHANGED << shown, results, applying, completed >>
    BY <1>1 DEF WorkerSets, engineVars
  <2>3. /\ Changed(work.cmd)' = Changed(work.cmd) /\ work'.cmd = work.cmd
        /\ IsNew(work.cmd)'
    BY <2>2 DEF Changed, SystemTypeOK, WorkTypeOK, IsNew, Repeated, Conflicting
  <2>4. CASE ok
    <3>1. /\ work'.phase = "setting" /\ work'.todo = work.todo \ {p}
          /\ work'.done = Append(work.done, p)
      BY <2>2, <2>4 DEF SystemTypeOK, WorkTypeOK
    <3>2. /\ world' = IF p \in Shows[Target(work.cmd)] THEN world \cup {p} ELSE world \ {p}
          /\ doubtful' = doubtful \ {p}
      BY <2>4 DEF SetPose
    <3> QED BY <2>1, <2>2, <2>3, <3>1, <3>2
  <2>5. CASE ~ok
    <3>1. work'.phase = "undoing" /\ work'.done = work.done
      BY <2>5 DEF SystemTypeOK, WorkTypeOK
    <3>2. /\ \A q \in Props \ {p} : (q \in world') = (q \in world)
          /\ doubtful \subseteq doubtful' /\ (world' = world \/ p \in doubtful')
      BY <2>5 DEF SetPose
    <3> QED BY <2>1, <2>2, <2>3, <3>1, <3>2
  <2> QED BY <2>4, <2>5
<1>2. CASE WorkerUndoes
  <2> DEFINE p == work.done[Len(work.done)]
             rest == SubSeq(work.done, 1, Len(work.done) - 1)
  <2>1. p \in Props /\ rest \in Seq(Props) /\ Range(work.done) \subseteq Range(rest) \cup {p}
    BY <1>2, UndoneType DEF WorkerUndoes, SystemTypeOK, WorkTypeOK
  <2>2. /\ work.phase = "undoing" /\ work.done # << >>
        /\ UNCHANGED << shown, results, applying, completed >>
    BY <1>2 DEF WorkerUndoes, engineVars
  <2>3. work'.phase = "undoing" /\ IsNew(work.cmd)'
    <3>1. work'.cmd = work.cmd /\ work'.phase = "undoing" /\ IsNew(work.cmd)
      BY <1>2, <2>2 DEF WorkerUndoes, SystemTypeOK, WorkTypeOK
    <3> QED BY <2>2, <3>1 DEF IsNew, Repeated, Conflicting
  <2>4. CASE SetPose(p, p \in Shows[shown], TRUE) /\ work' = [work EXCEPT !.done = rest]
    <3>1. /\ world' = IF p \in Shows[shown] THEN world \cup {p} ELSE world \ {p}
          /\ doubtful' = doubtful \ {p} /\ work'.done = rest
      BY <2>4 DEF SetPose, SystemTypeOK, WorkTypeOK
    <3> HIDE DEF p, rest
    <3> QED BY <2>1, <2>2, <2>3, <3>1
  <2>5. CASE /\ doubtful' = doubtful \cup Range(work.done)
             /\ world' \in {world, IF p \in Shows[shown] THEN world \cup {p} ELSE world \ {p}}
    <3> HIDE DEF p, rest
    <3> QED BY <2>1, <2>2, <2>3, <2>5
  <2> QED BY <1>2, <2>4, <2>5 DEF WorkerUndoes
<1>3. CASE WorkerEnds
  <2>1. work' = NoWork /\ work.phase # "idle" /\ UNCHANGED << world, doubtful >>
    BY <1>3 DEF WorkerEnds
  <2>2. work.phase \in {"setting", "undoing"} /\ work.cmd \in Commands
    BY <2>1 DEF SystemTypeOK, WorkTypeOK
  <2>3. \A p \in Props \ doubtful : (p \in world) = (p \in Shows[shown'])
    <3>1. CASE ~IsNew(work.cmd) /\ shown' = shown
      BY <2>1, <2>2, <3>1, NothingDone
    <3>2. CASE work.phase = "setting" /\ work.todo = {} /\ shown' = Target(work.cmd)
      BY <3>2 DEF Changed
    <3>3. CASE work.phase = "undoing" /\ work.done = << >> /\ shown' = shown
      BY <3>3, NothingDone
    <3> QED BY <1>3, <3>1, <3>2, <3>3 DEF WorkerEnds, engineVars, IsNew
  <2> QED BY <2>1, <2>3 DEF NoWork
<1>4. CASE WorkerRaises
  <2> PICK p \in Props :
         /\ \/ work.phase = "setting" /\ IsNew(work.cmd) /\ p \in work.todo
            \/ work.phase = "undoing" /\ work.done # << >> /\ p = work.done[Len(work.done)]
         /\ \A q \in Props \ {p} : (q \in world') = (q \in world)
         /\ doubtful' = doubtful \cup Range(work.done) \cup {p}
    BY <1>4 DEF WorkerRaises
  <2>1. work' = NoWork /\ UNCHANGED shown
    BY <1>4 DEF WorkerRaises, engineVars
  <2>2. \A q \in Props \ doubtful' : (q \in world') = (q \in Shows[shown])
    OBVIOUS
  <2> QED BY <2>1, <2>2 DEF NoWork
<1> QED BY <1>1, <1>2, <1>3, <1>4

LEMMA WorldStep == SystemTypeOK /\ WorldInv /\ [Next]_vars => WorldInv'
<1> SUFFICES ASSUME SystemTypeOK, WorldInv, [Next]_vars PROVE WorldInv'
  OBVIOUS
<1>1. ASSUME UNCHANGED << work, shown, results, world, doubtful >>,
             work.phase # "idle" => UNCHANGED << applying, completed >>
      PROVE  WorldInv'
  BY <1>1 DEF WorldInv, Shown, Changed, IsNew, Repeated, Conflicting
<1>2. CASE UNCHANGED vars \/ Ask \/ Read
  BY <1>2, <1>1 DEF vars, Ask, Read, scenarioVars, engineVars
<1>3. CASE Call \/ OtherCall
  BY <1>3, <1>1 DEF Call, OtherCall, TakeCommand, scenarioVars, engineVars
<1>4. CASE StartWorker
  <2>1. work.phase = "idle" /\ pending \in Commands
    BY <1>4 DEF StartWorker, WorldInv, SystemTypeOK
  <2>2. work' = [cmd |-> pending, todo |-> Changed(pending), done |-> << >>, phase |-> "setting"]
    BY <1>4 DEF StartWorker
  <2> QED BY <1>4, <2>1, <2>2, NothingDone DEF StartWorker, engineVars, WorldInv, Shown, Changed
<1>5. CASE TakeCompleted
  BY <1>5, <1>1 DEF TakeCompleted, engineVars, WorldInv
<1>6. CASE Finish
  BY <1>6, <1>1 DEF Finish, engineVars
<1>7. CASE WorkerSteps
  BY <1>7, WorldWorker DEF WorkerSteps
<1>8. CASE Repeats
  BY <1>8, <1>1 DEF Repeats, RepeatReads, Repeat, engineVars
<1>9. CASE ManagerRestarts
  BY <1>9, ScenarioAssumption DEF ManagerRestarts, ManagerDies, WorldInv, NoWork, Shown
<1> QED BY <1>2, <1>3, <1>4, <1>5, <1>6, <1>7, <1>8, <1>9 DEF Next, TimerSteps

(* Between two commands Gazebo shows the scenario the manager names: what  *)
(* was set half way is undone, for any catalogue, except for props that a  *)
(* failed or lost call may have left anywhere.                             *)
THEOREM WorldShownAlways == Spec => []WorldShown
<1>1. WorldInv => WorldShown
  BY DEF WorldInv, WorldShown, Shown
<1> QED BY <1>1, TypeInit, TypeStep, WorldInit, WorldStep, PTL DEF Spec
=============================================================================
