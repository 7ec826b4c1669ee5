------------------------ MODULE AwarenessSystem_proofs ------------------------
(***************************************************************************)
(* What holds of AwarenessSystem for any number of runs and assets and any *)
(* policy of the engine: its three counters are a hysteresis over all it   *)
(* was given, alerts open and close in turn, and an inspection counts once *)
(* in its run.                                                             *)
(***************************************************************************)
EXTENDS AwarenessSystem, SequenceTheorems, TLAPS

(***************************************************************************)
(* The engine.                                                             *)
(***************************************************************************)
EngineStates ==
  [scores : Seq(Scores), confirmations : Nat, recoveries : Nat, level : Levels, open : BOOLEAN]

LEMMA LevelType == \A scores : Level(scores) \in Levels
<1> TAKE scores
<1> DEFINE a == FoldFunction(+, 0, scores) < 30 * Len(scores)
           b == FoldFunction(+, 0, scores) < 60 * Len(scores)
           c == FoldFunction(+, 0, scores) < 80 * Len(scores)
<1>1. Level(scores) = IF a THEN 0 ELSE IF b THEN 1 ELSE IF c THEN 2 ELSE 3
  BY Zenon DEF Level
<1> HIDE DEF a, b, c
<1> QED BY <1>1 DEF Levels

(* A frame goes in, and the oldest leaves a full window. *)
LEMMA PushedType ==
  ASSUME NEW scores \in Seq(Scores), Len(scores) <= Window, NEW score \in Scores
  PROVE  Pushed(scores, score) \in Seq(Scores) /\ Len(Pushed(scores, score)) <= Window
<1> DEFINE all == Append(scores, score)
<1>1. all \in Seq(Scores) /\ Len(all) = Len(scores) + 1 /\ all # << >>
  BY AppendProperties
<1>2. Tail(all) \in Seq(Scores) /\ Len(Tail(all)) = Len(all) - 1
  BY <1>1, HeadTailProperties
<1>3. Window \in Nat \ {0} /\ Len(scores) \in Nat
  BY PolicyAssumption, LenProperties
<1> HIDE DEF all
<1> QED BY <1>1, <1>2, <1>3 DEF Pushed, all

(* A high frame confirms; enough of them in a row open the alert. *)
LEMMA ConfirmedIs ==
  ASSUME NEW s \in EngineStates, NEW level \in Levels
  PROVE  LET t == Confirmed(s, level)
         IN  /\ t \in EngineStates /\ t.scores = s.scores
             /\ t.confirmations = s.confirmations + 1 /\ t.recoveries = 0
             /\ t.open <=> s.open \/ s.confirmations + 1 >= Confirmation
<1> PICK n \in Nat : n = s.confirmations + 1
  BY DEF EngineStates
<1> DEFINE m == [s EXCEPT !.confirmations = n, !.recoveries = 0]
           u == [m EXCEPT !.level = level, !.open = TRUE]
<1>1. /\ m \in EngineStates /\ m.scores = s.scores /\ m.confirmations = n /\ m.recoveries = 0
      /\ m.open = s.open
  BY DEF EngineStates
<1>2. Confirmed(s, level) = IF m.confirmations >= Confirmation THEN u ELSE m
  BY DEF Confirmed
<1> HIDE DEF m
<1>3. /\ u \in EngineStates /\ u.scores = m.scores /\ u.confirmations = m.confirmations
      /\ u.recoveries = m.recoveries /\ u.open = TRUE
  BY <1>1 DEF EngineStates
<1> HIDE DEF u
<1>4. CASE n >= Confirmation
  BY <1>1, <1>2, <1>3, <1>4
<1>5. CASE ~(n >= Confirmation)
  BY <1>1, <1>2, <1>5
<1> QED BY <1>4, <1>5

(* A low frame ends a row of confirmations; enough of them in a row clear  *)
(* the alert.                                                              *)
LEMMA RecoveredIs ==
  ASSUME NEW s \in EngineStates, NEW level \in Levels
  PROVE  LET t == Recovered(s, level)
         IN  /\ t \in EngineStates /\ t.scores = s.scores /\ t.confirmations = 0
             /\ s.open => t.recoveries = s.recoveries + 1
             /\ t.open <=> s.open /\ s.recoveries + 1 < Recovery
<1> PICK n \in Nat : n = IF s.open THEN s.recoveries + 1 ELSE s.recoveries
  BY DEF EngineStates
<1> DEFINE m == [s EXCEPT !.confirmations = 0, !.recoveries = n]
           u == [m EXCEPT !.level = level, !.open = FALSE]
<1>1. /\ m \in EngineStates /\ m.scores = s.scores /\ m.confirmations = 0 /\ m.recoveries = n
      /\ m.open = s.open
  BY DEF EngineStates
<1>2. Recovered(s, level) = IF ~s.open \/ m.recoveries >= Recovery THEN u ELSE m
  BY DEF Recovered
<1> HIDE DEF m
<1>3. /\ u \in EngineStates /\ u.scores = m.scores /\ u.confirmations = m.confirmations
      /\ u.recoveries = m.recoveries /\ u.open = FALSE
  BY <1>1 DEF EngineStates
<1> HIDE DEF u
<1>4. CASE ~s.open \/ n >= Recovery
  <2>1. Recovered(s, level) = u
    BY <1>1, <1>2, <1>4
  <2>2. ~(s.open /\ s.recoveries + 1 < Recovery)
    BY <1>4, PolicyAssumption DEF EngineStates
  <2> QED BY <1>1, <1>3, <2>1, <2>2
<1>5. CASE s.open /\ ~(n >= Recovery)
  <2>1. Recovered(s, level) = m
    BY <1>1, <1>2, <1>5
  <2>2. s.recoveries + 1 < Recovery
    BY <1>5, PolicyAssumption DEF EngineStates
  <2> QED BY <1>1, <1>5, <2>1, <2>2
<1> QED BY <1>4, <1>5

LEMMA ObserveIs ==
  ASSUME NEW s \in EngineStates, Len(s.scores) <= Window, NEW score \in Scores
  PROVE  LET t == Observe(s, score)
             level == Level(t.scores)
         IN  /\ t \in EngineStates /\ Len(t.scores) <= Window
             /\ level >= 2 =>
                  /\ t.confirmations = s.confirmations + 1 /\ t.recoveries = 0
                  /\ t.open <=> s.open \/ s.confirmations + 1 >= Confirmation
             /\ ~(level >= 2) =>
                  /\ t.confirmations = 0
                  /\ s.open => t.recoveries = s.recoveries + 1
                  /\ t.open <=> s.open /\ s.recoveries + 1 < Recovery
<1> DEFINE q == Pushed(s.scores, score)
           p == [s EXCEPT !.scores = q]
           level == Level(q)
<1>1. q \in Seq(Scores) /\ Len(q) <= Window
  BY PushedType DEF EngineStates
<1> HIDE DEF q
<1>2. /\ p \in EngineStates /\ p.scores = q /\ p.confirmations = s.confirmations
      /\ p.recoveries = s.recoveries /\ p.open = s.open
  BY <1>1 DEF EngineStates
<1>3. level \in Levels
  BY LevelType
<1>4. Observe(s, score) = IF level >= 2 THEN Confirmed(p, level) ELSE Recovered(p, level)
  BY <1>2 DEF Observe, q
<1> HIDE DEF p, level
<1>5. CASE level >= 2
  BY <1>1, <1>2, <1>3, <1>4, <1>5, ConfirmedIs DEF level
<1>6. CASE ~(level >= 2)
  BY <1>1, <1>2, <1>3, <1>4, <1>6, RecoveredIs DEF level
<1> QED BY <1>5, <1>6

(***************************************************************************)
(* Hysteresis: X is the set of the high frames among the first n.          *)
(***************************************************************************)
Held(X, n) ==
  \E i \in Confirmation .. n :
    /\ \A j \in i - Confirmation + 1 .. i : j \in X
    /\ \A k \in i + Recovery .. n : \E j \in k - Recovery + 1 .. k : j \in X

(* The counters of the engine: the frames since the last low one, and,     *)
(* while an alert is open, those since the last high one.                  *)
SinceLow(X, n, count) ==
  /\ count \in 0 .. n
  /\ \A j \in n - count + 1 .. n : j \in X
  /\ count < n => n - count \notin X

SinceHigh(X, n, count) ==
  /\ count \in 0 .. n - 1
  /\ \A j \in n - count + 1 .. n : j \notin X
  /\ n - count \in X

Extends(Y, X, n) == \A j \in 1 .. n : j \in Y <=> j \in X

LEMMA PolicyTypes == Confirmation \in Nat \ {0} /\ Recovery \in Nat \ {0} /\ Window \in Nat \ {0}
  BY PolicyAssumption

LEMMA HighCounts ==
  ASSUME NEW n \in Nat, NEW X, NEW Y, Extends(Y, X, n), n + 1 \in Y,
         NEW count, SinceLow(X, n, count)
  PROVE  SinceLow(Y, n + 1, count + 1) /\ SinceHigh(Y, n + 1, 0)
  BY DEF Extends, SinceLow, SinceHigh

LEMMA LowCounts ==
  ASSUME NEW n \in Nat, NEW X, NEW Y, Extends(Y, X, n), n + 1 \notin Y
  PROVE  /\ SinceLow(Y, n + 1, 0)
         /\ \A count : SinceHigh(X, n, count) => SinceHigh(Y, n + 1, count + 1)
  BY DEF Extends, SinceLow, SinceHigh

(* A frame that completes the confirmation. *)
LEMMA Confirming ==
  ASSUME NEW n \in Nat, NEW Y, NEW count \in Nat, SinceLow(Y, n, count), count >= Confirmation
  PROVE  Held(Y, n)
<1>1. n \in Confirmation .. n
  BY PolicyTypes DEF SinceLow
<1>2. \A j \in n - Confirmation + 1 .. n : j \in Y
  BY PolicyTypes DEF SinceLow
<1>3. \A k \in n + Recovery .. n : FALSE
  BY PolicyTypes
<1> QED BY <1>1, <1>2, <1>3 DEF Held

(* An alert that is held stays so as long as the low frames do not make a  *)
(* recovery.                                                               *)
LEMMA Holding ==
  ASSUME NEW n \in Nat, NEW X, NEW Y, Extends(Y, X, n), Held(X, n),
         NEW count, SinceHigh(Y, n + 1, count), count < Recovery
  PROVE  Held(Y, n + 1)
<1> PICK i \in Confirmation .. n :
      /\ \A j \in i - Confirmation + 1 .. i : j \in X
      /\ \A k \in i + Recovery .. n : \E j \in k - Recovery + 1 .. k : j \in X
  BY DEF Held
<1>1. i \in Confirmation .. n + 1 /\ \A j \in i - Confirmation + 1 .. i : j \in Y
  BY PolicyTypes DEF Extends
<1>2. ASSUME NEW k \in i + Recovery .. n + 1
      PROVE  \E j \in k - Recovery + 1 .. k : j \in Y
  <2>1. CASE k = n + 1
    <3>1. n + 1 - count \in k - Recovery + 1 .. k /\ n + 1 - count \in Y
      BY <2>1, PolicyTypes DEF SinceHigh
    <3> QED BY <3>1
  <2>2. CASE k # n + 1
    <3>1. k \in i + Recovery .. n
      BY <2>2, PolicyTypes
    <3>2. PICK j \in k - Recovery + 1 .. k : j \in X
      BY <3>1
    <3>3. j \in 1 .. n
      BY <3>1, PolicyTypes
    <3> QED BY <3>2, <3>3 DEF Extends
  <2> QED BY <2>1, <2>2
<1> QED BY <1>1, <1>2 DEF Held

(* As many low frames in a row as a recovery takes. *)
LEMMA Recovering ==
  ASSUME NEW n \in Nat, NEW Y, NEW count, SinceHigh(Y, n, count), count >= Recovery
  PROVE  ~Held(Y, n)
<1> SUFFICES ASSUME NEW i \in Confirmation .. n,
                    \A j \in i - Confirmation + 1 .. i : j \in Y,
                    \A k \in i + Recovery .. n : \E j \in k - Recovery + 1 .. k : j \in Y
             PROVE  FALSE
  BY DEF Held
<1>1. i \in Y
  BY PolicyTypes
<1>2. i + Recovery <= n
  BY <1>1, PolicyTypes DEF SinceHigh
<1>3. PICK j \in n - Recovery + 1 .. n : j \in Y
  BY <1>2, PolicyTypes
<1> QED BY <1>3, PolicyTypes DEF SinceHigh

(* An alert that is not held is not held by one more frame either, unless  *)
(* that completes a confirmation.                                          *)
LEMMA NotHolding ==
  ASSUME NEW n \in Nat, NEW X, NEW Y, Extends(Y, X, n), ~Held(X, n),
         NEW count, SinceLow(Y, n + 1, count), count < Confirmation
  PROVE  ~Held(Y, n + 1)
<1> SUFFICES ASSUME NEW i \in Confirmation .. n + 1,
                    \A j \in i - Confirmation + 1 .. i : j \in Y,
                    \A k \in i + Recovery .. n + 1 : \E j \in k - Recovery + 1 .. k : j \in Y
             PROVE  FALSE
  BY DEF Held
<1>1. CASE i = n + 1
  BY <1>1, PolicyTypes DEF SinceLow
<1>2. CASE i # n + 1
  <2>1. i \in Confirmation .. n
    BY <1>2, PolicyTypes
  <2>2. \A j \in i - Confirmation + 1 .. i : j \in X
    BY <2>1, PolicyTypes DEF Extends
  <2>3. ASSUME NEW k \in i + Recovery .. n
        PROVE  \E j \in k - Recovery + 1 .. k : j \in X
    <3>1. k \in i + Recovery .. n + 1
      BY <2>1, <2>3, PolicyTypes
    <3>2. PICK j \in k - Recovery + 1 .. k : j \in Y
      BY <3>1
    <3>3. j \in 1 .. n
      BY <2>1, <2>3, PolicyTypes
    <3> QED BY <3>2, <3>3 DEF Extends
  <2> QED BY <2>1, <2>2, <2>3 DEF Held
<1> QED BY <1>1, <1>2

(***************************************************************************)
(* The counters and all an asset was observed with.                        *)
(***************************************************************************)
Observations == [run : Runs, level : Levels]

HighFrames(o) == {i \in DOMAIN o : o[i].level >= 2}

(* The engine's state s of an asset whose observations are o. *)
Counts(s, o) ==
  /\ s \in EngineStates /\ Len(s.scores) <= Window
  /\ o \in Seq(Observations)
  /\ SinceLow(HighFrames(o), Len(o), s.confirmations)
  /\ ~s.open => s.confirmations < Confirmation
  /\ s.open => SinceHigh(HighFrames(o), Len(o), s.recoveries) /\ s.recoveries < Recovery
  /\ s.open <=> Held(HighFrames(o), Len(o))

LEMMA FreshCounts == Counts(FreshState, << >>)
<1>1. << >> \in Seq(Scores) /\ << >> \in Seq(Observations) /\ Len(<< >>) = 0
  BY EmptySeq
<1>2. FreshState \in EngineStates /\ Len(FreshState.scores) = 0
      /\ FreshState.confirmations = 0 /\ ~FreshState.open
  BY <1>1 DEF FreshState, EngineStates, Levels
<1>3. SinceLow(HighFrames(<< >>), 0, 0) /\ ~Held(HighFrames(<< >>), 0)
  BY PolicyTypes DEF SinceLow, Held
<1> QED BY <1>1, <1>2, <1>3, PolicyTypes DEF Counts

LEMMA FramesExtend ==
  ASSUME NEW o \in Seq(Observations), NEW e \in Observations
  PROVE  LET p == Append(o, e)
         IN  /\ p \in Seq(Observations) /\ Len(p) = Len(o) + 1 /\ Len(o) \in Nat
             /\ Extends(HighFrames(p), HighFrames(o), Len(o))
             /\ Len(o) + 1 \in HighFrames(p) <=> e.level >= 2
<1> DEFINE p == Append(o, e)
<1>1. /\ p \in Seq(Observations) /\ Len(p) = Len(o) + 1 /\ Len(o) \in Nat
      /\ \A i \in 1 .. Len(o) : p[i] = o[i]
      /\ p[Len(o) + 1] = e
  BY AppendProperties, LenProperties
<1>2. DOMAIN p = 1 .. Len(o) + 1 /\ DOMAIN o = 1 .. Len(o)
  BY <1>1, LenProperties
<1> HIDE DEF p
<1>3. Extends(HighFrames(p), HighFrames(o), Len(o))
  BY <1>1, <1>2 DEF Extends, HighFrames
<1>4. Len(o) + 1 \in HighFrames(p) <=> e.level >= 2
  BY <1>1, <1>2 DEF HighFrames
<1> QED BY <1>1, <1>3, <1>4 DEF p

(* An observation keeps the counters true of all observations. *)
LEMMA ObserveCounts ==
  ASSUME NEW s, NEW o, Counts(s, o), NEW score \in Scores, NEW run \in Runs
  PROVE  LET t == Observe(s, score)
         IN  Counts(t, Append(o, [run |-> run, level |-> Level(t.scores)]))
<1> DEFINE t == Observe(s, score)
           level == Level(t.scores)
           e == [run |-> run, level |-> level]
           p == Append(o, e)
           n == Len(o)
           X == HighFrames(o)
           Y == HighFrames(p)
<1>1. s \in EngineStates /\ Len(s.scores) <= Window /\ o \in Seq(Observations)
      /\ SinceLow(X, n, s.confirmations)
      /\ s.confirmations \in Nat /\ s.recoveries \in Nat /\ s.open \in BOOLEAN
  BY DEF Counts, EngineStates
<1>2. /\ t \in EngineStates /\ Len(t.scores) <= Window
      /\ level >= 2 =>
           /\ t.confirmations = s.confirmations + 1 /\ t.recoveries = 0
           /\ t.open <=> s.open \/ s.confirmations + 1 >= Confirmation
      /\ ~(level >= 2) =>
           /\ t.confirmations = 0
           /\ s.open => t.recoveries = s.recoveries + 1
           /\ t.open <=> s.open /\ s.recoveries + 1 < Recovery
  BY <1>1, ObserveIs
<1>3. e \in Observations /\ e.level = level /\ level \in Levels
  BY LevelType DEF Observations
<1> HIDE DEF e, t, level
<1>4. /\ p \in Seq(Observations) /\ Len(p) = n + 1 /\ n \in Nat /\ Extends(Y, X, n)
      /\ n + 1 \in Y <=> level >= 2
  BY <1>1, <1>3, FramesExtend
<1>5. s.open => SinceHigh(X, n, s.recoveries) /\ s.recoveries < Recovery
  BY DEF Counts
<1>6. s.open <=> Held(X, n)
  BY DEF Counts
<1>7. ~s.open => s.confirmations < Confirmation
  BY DEF Counts
<1> HIDE DEF n, X, Y, p
<1>8. CASE level >= 2
  <2>1. SinceLow(Y, n + 1, t.confirmations) /\ SinceHigh(Y, n + 1, 0)
    BY <1>1, <1>2, <1>4, <1>8, HighCounts
  <2>2. t.recoveries = 0 /\ 0 < Recovery
    BY <1>2, <1>8, PolicyTypes
  <2>3. ~t.open => ~s.open /\ t.confirmations < Confirmation
    BY <1>1, <1>2, <1>8, PolicyTypes
  <2>4. t.open => Held(Y, n + 1)
    <3>1. CASE s.open
      BY <1>4, <1>6, <2>1, <2>2, <3>1, Holding
    <3>2. CASE t.confirmations >= Confirmation
      BY <1>1, <1>2, <1>4, <1>8, <2>1, <3>2, Confirming
    <3> QED BY <1>2, <1>8, <3>1, <3>2
  <2>5. ~t.open => ~Held(Y, n + 1)
    BY <1>4, <1>6, <2>1, <2>3, NotHolding
  <2> QED BY <1>2, <1>4, <2>1, <2>2, <2>3, <2>4, <2>5 DEF Counts, Y, e, t, p, level
<1>9. CASE ~(level >= 2)
  <2>1. SinceLow(Y, n + 1, 0) /\ t.confirmations = 0 /\ 0 < Confirmation
    BY <1>2, <1>4, <1>9, LowCounts, PolicyTypes
  <2>2. s.open => SinceHigh(Y, n + 1, s.recoveries + 1) /\ t.recoveries = s.recoveries + 1
    BY <1>2, <1>4, <1>5, <1>9, LowCounts
  <2>3. CASE t.open
    <3>1. s.open /\ s.recoveries + 1 < Recovery
      BY <1>2, <1>9, <2>3
    <3>2. Held(Y, n + 1)
      BY <1>4, <1>6, <2>2, <3>1, Holding
    <3> QED BY <1>2, <1>4, <2>1, <2>2, <2>3, <3>1, <3>2 DEF Counts, Y, e, t, p, level
  <2>4. CASE ~t.open
    <3>1. ~Held(Y, n + 1)
      <4>1. CASE s.open
        <5>1. s.recoveries + 1 >= Recovery
          BY <1>1, <1>2, <1>9, <2>4, <4>1, PolicyTypes
        <5> QED BY <1>4, <2>2, <4>1, <5>1, Recovering
      <4>2. CASE ~s.open
        BY <1>4, <1>6, <2>1, <4>2, NotHolding
      <4> QED BY <4>1, <4>2
    <3> QED BY <1>2, <1>4, <2>1, <2>4, <3>1 DEF Counts, Y, e, t, p, level
  <2> QED BY <2>3, <2>4
<1> QED BY <1>8, <1>9

(***************************************************************************)
(* The alerts of an asset: ids is the one that is open, es its messages.   *)
(***************************************************************************)
AlertEvents ==
  [event : {"OPENED", "CLEARED", "LEVEL_CHANGED"}, id : Nat \ {0}, run : Runs]

Chained(es) ==
  \A i \in DOMAIN es :
    IF i = 1 \/ es[i - 1].event = "CLEARED"
    THEN /\ es[i].event = "OPENED"
         /\ \A j \in 1 .. i - 1 : es[j].id # es[i].id
    ELSE /\ es[i].event # "OPENED"
         /\ es[i].id = es[i - 1].id

Closed(es) == es = << >> \/ es[Len(es)].event = "CLEARED"

Paired(s, alert, es) ==
  /\ es \in Seq(AlertEvents) /\ Chained(es)
  /\ \A i \in DOMAIN es : es[i].id <= Len(es)
  /\ alert \in Nat /\ ((alert # 0) = s.open)
  /\ ~s.open => Closed(es)
  /\ s.open => ~Closed(es) /\ es[Len(es)].id = alert

(* The next message of an asset keeps the order, if it opens a new alert   *)
(* when none is open and goes on with the open one otherwise.              *)
LEMMA ChainGrows ==
  ASSUME NEW es \in Seq(AlertEvents), Chained(es), \A i \in DOMAIN es : es[i].id <= Len(es),
         NEW e \in AlertEvents, e.id <= Len(es) + 1,
         Closed(es) => e.event = "OPENED" /\ e.id = Len(es) + 1,
         ~Closed(es) => e.event # "OPENED" /\ e.id = es[Len(es)].id
  PROVE  LET fs == Append(es, e)
         IN  /\ fs \in Seq(AlertEvents) /\ Chained(fs)
             /\ \A i \in DOMAIN fs : fs[i].id <= Len(fs)
             /\ fs # << >> /\ fs[Len(fs)] = e
<1> DEFINE fs == Append(es, e)
           n == Len(es)
<1>1. /\ fs \in Seq(AlertEvents) /\ Len(fs) = n + 1 /\ n \in Nat
      /\ \A i \in 1 .. n : fs[i] = es[i]
      /\ fs[n + 1] = e
  BY AppendProperties, LenProperties
<1>2. DOMAIN fs = 1 .. n + 1 /\ DOMAIN es = 1 .. n
  BY <1>1, LenProperties
<1>3. es = << >> <=> n = 0
  BY EmptySeq
<1>4. \A i \in 1 .. n : es[i] \in AlertEvents
  BY ElementOfSeq
<1>5. fs # << >>
  BY <1>1, EmptySeq
<1> HIDE DEF fs, n
<1>6. \A i \in DOMAIN fs : fs[i].id <= Len(fs)
  <2>1. \A i \in 1 .. n : es[i].id <= n /\ es[i].id \in Nat
    BY <1>2, <1>4 DEF n, AlertEvents
  <2> QED BY <1>1, <1>2, <2>1 DEF n, AlertEvents
<1>7. Chained(fs)
  <2> SUFFICES ASSUME NEW i \in 1 .. n + 1
               PROVE  IF i = 1 \/ fs[i - 1].event = "CLEARED"
                      THEN fs[i].event = "OPENED" /\ \A j \in 1 .. i - 1 : fs[j].id # fs[i].id
                      ELSE fs[i].event # "OPENED" /\ fs[i].id = fs[i - 1].id
    BY <1>2 DEF Chained
  <2>1. CASE i \in 1 .. n
    <3>1. /\ fs[i] = es[i] /\ (i # 1 => fs[i - 1] = es[i - 1])
          /\ \A j \in 1 .. i - 1 : fs[j] = es[j]
      BY <1>1, <2>1
    <3>2. IF i = 1 \/ es[i - 1].event = "CLEARED"
          THEN es[i].event = "OPENED" /\ \A j \in 1 .. i - 1 : es[j].id # es[i].id
          ELSE es[i].event # "OPENED" /\ es[i].id = es[i - 1].id
      BY <1>2, <2>1 DEF Chained
    <3> QED BY <3>1, <3>2
  <2>2. CASE i = n + 1
    <3>1. fs[i] = e /\ (i # 1 => fs[i - 1] = es[n]) /\ i - 1 = n
      BY <1>1, <2>2
    <3>2. CASE Closed(es)
      <4>1. i = 1 \/ fs[i - 1].event = "CLEARED"
        BY <1>1, <1>3, <2>2, <3>1, <3>2 DEF Closed, n
      <4>2. \A j \in 1 .. n : fs[j].id # n + 1
        BY <1>1, <1>2, <1>4 DEF AlertEvents, n
      <4> QED BY <3>1, <3>2, <4>1, <4>2 DEF n
    <3>3. CASE ~Closed(es)
      <4>1. i # 1 /\ fs[i - 1].event # "CLEARED"
        BY <1>1, <1>3, <2>2, <3>1, <3>3 DEF Closed, n
      <4> QED BY <3>1, <3>3, <4>1 DEF n
    <3> QED BY <3>2, <3>3
  <2> QED BY <1>1, <2>1, <2>2
<1> QED BY <1>1, <1>5, <1>6, <1>7 DEF fs

(* What _publish_alert does for an asset whose engine goes from s to t. *)
LEMMA AlertKeeps ==
  ASSUME NEW s, NEW t, s.open \in BOOLEAN, t.open \in BOOLEAN, NEW alert, NEW es,
         Paired(s, alert, es), NEW run \in Runs
  PROVE  LET event == Event(s, t)
             id    == IF alert # 0 THEN alert ELSE Len(es) + 1
         IN  Paired(t,
                    IF event = "none" THEN alert ELSE IF event = "CLEARED" THEN 0 ELSE id,
                    IF event = "none" THEN es ELSE Append(es, [event |-> event, id |-> id, run |-> run]))
<1> DEFINE event == Event(s, t)
           id == IF alert # 0 THEN alert ELSE Len(es) + 1
           e == [event |-> event, id |-> id, run |-> run]
           fs == Append(es, e)
           next == IF event = "none" THEN alert ELSE IF event = "CLEARED" THEN 0 ELSE id
<1>1. /\ es \in Seq(AlertEvents) /\ Chained(es) /\ Len(es) \in Nat
      /\ \A i \in DOMAIN es : es[i].id <= Len(es)
      /\ alert \in Nat /\ (alert # 0 <=> s.open)
      /\ ~s.open => Closed(es)
      /\ s.open => ~Closed(es) /\ es[Len(es)].id = alert
  BY LenProperties DEF Paired
<1>2. /\ ~s.open /\ t.open => event = "OPENED"
      /\ s.open /\ ~t.open => event = "CLEARED"
      /\ s.open /\ t.open => event \in {"LEVEL_CHANGED", "none"}
      /\ ~s.open /\ ~t.open => event = "none"
  BY DEF Event
<1> HIDE DEF event
<1>3. CASE event = "none"
  <2>1. s.open <=> t.open
    BY <1>2, <1>3
  <2>2. (alert # 0) = t.open
    BY <1>1, <2>1
  <2>3. Paired(t, alert, es)
    BY <1>1, <2>1, <2>2 DEF Paired
  <2> QED BY <1>3, <2>3 DEF event
<1>4. CASE event # "none"
  <2>1. event \in {"OPENED", "CLEARED", "LEVEL_CHANGED"} /\ (event = "OPENED" <=> ~s.open)
    BY <1>2, <1>4
  <2>2. id \in Nat \ {0} /\ id <= Len(es) + 1 /\ (s.open => id = alert)
        /\ (~s.open => id = Len(es) + 1)
    <3>1. CASE s.open
      <4>1. Len(es) \in DOMAIN es
        <5>1. es # << >>
          BY <1>1, <3>1 DEF Closed
        <5> QED BY <1>1, <5>1, EmptySeq, LenProperties
      <4>2. alert <= Len(es)
        BY <1>1, <3>1, <4>1
      <4> QED BY <1>1, <3>1, <4>2
    <3>2. CASE ~s.open
      BY <1>1, <3>2
    <3> QED BY <3>1, <3>2
  <2> HIDE DEF id
  <2>3. e \in AlertEvents /\ e.id = id /\ e.event = event
    BY <2>1, <2>2 DEF AlertEvents
  <2> HIDE DEF e
  <2>4. /\ fs \in Seq(AlertEvents) /\ Chained(fs)
        /\ \A i \in DOMAIN fs : fs[i].id <= Len(fs)
        /\ fs # << >> /\ fs[Len(fs)] = e
    <3>1. Closed(es) => e.event = "OPENED" /\ e.id = Len(es) + 1
      BY <1>1, <2>1, <2>2, <2>3
    <3>2. ~Closed(es) => e.event # "OPENED" /\ e.id = es[Len(es)].id
      BY <1>1, <2>1, <2>2, <2>3
    <3> QED BY <1>1, <2>2, <2>3, <3>1, <3>2, ChainGrows
  <2> HIDE DEF fs
  <2>5. Closed(fs) <=> event = "CLEARED"
    BY <2>3, <2>4 DEF Closed
  <2>6. (event = "CLEARED" <=> ~t.open) /\ next \in Nat /\ (next # 0 <=> t.open)
        /\ (t.open => next = id)
    BY <1>2, <1>4, <2>2
  <2> HIDE DEF next
  <2>7. Paired(t, next, fs)
    BY <2>3, <2>4, <2>5, <2>6 DEF Paired
  <2> QED BY <1>4, <2>7 DEF fs, e, id, event, next
<1> QED BY <1>3, <1>4

(***************************************************************************)
(* The inductive invariant.                                                *)
(***************************************************************************)

(* Each step of a run has its revision; the list is of the run at hand. *)
ManagerInv ==
  /\ ContextTypeOK
  /\ context.life = "STARTING" => context.rev = 1
  /\ context.life = "ACTIVE" => context.rev = 2
  /\ list \in [run : Runs \cup {0}, done : SUBSET Assets] /\ list.run = context.run

TwinInv ==
  /\ {normalizerRun, twinRun} \subseteq Runs \cup {0}
  /\ telemetry \in [Assets -> Scores]
  /\ twinTopic \in [run : Runs \cup {0}, values : [Assets -> Scores]]

(* The risk node is behind the manager, never in another run; in the run   *)
(* at hand it knows of no asset that is not done.                          *)
RunInv ==
  /\ riskRun \in Runs \cup {0} /\ riskRun <= list.run
  /\ riskRun = list.run /\ riskRun # 0 => context.life # "STARTING"
  /\ riskRun = list.run => known \subseteq list.done
  /\ known \subseteq Assets
  /\ available \in [Assets -> Scores \cup {Unknown}]
  /\ latest \in [Assets -> Levels \cup {Unknown}]

(* The observations of an asset are of runs up to the one at hand, each of *)
(* a later one than the one before; an asset observed in the run at hand   *)
(* is known to be done in it.                                              *)
OnceUpTo(o, run, inRun) ==
  /\ \A i \in DOMAIN o : o[i].run <= run /\ (o[i].run = run => inRun)
  /\ \A i, j \in DOMAIN o : i < j => o[i].run < o[j].run

KnownInRun(a) == riskRun = list.run /\ a \in known

AssetInv ==
  /\ engine \in [Assets -> EngineStates]
  /\ observed \in [Assets -> Seq(Observations)]
  /\ DOMAIN events = Assets /\ DOMAIN alerts = Assets
  /\ \A a \in Assets : /\ Counts(engine[a], observed[a])
                       /\ Paired(engine[a], alerts[a], events[a])
                       /\ OnceUpTo(observed[a], list.run, KnownInRun(a))

AwarenessInv == ManagerInv /\ TwinInv /\ RunInv /\ AssetInv

LEMMA RunsAreNumbers ==
  /\ ManagerInv => list.run \in Runs \cup {0} /\ list.run \in Nat
  /\ RunInv => riskRun \in Nat
<1>1. \A r \in Runs \cup {0} : r \in Nat
  BY RunsAssumption
<1>2. ManagerInv => list.run \in Runs \cup {0}
  BY DEF ManagerInv
<1>3. RunInv => riskRun \in Runs \cup {0}
  BY DEF RunInv
<1> QED BY <1>1, <1>2, <1>3

LEMMA AwarenessInit == Init => AwarenessInv
<1> SUFFICES ASSUME Init PROVE AwarenessInv
  OBVIOUS
<1> USE DEF Init
<1>1. ManagerInv
  BY DEF ManagerInv, ContextInit, NoContext, ContextTypeOK, PublishedContexts
<1>2. TwinInv
  BY TwinAssumption DEF TwinInit, TwinInv, NoSnapshot
<1>3. RunInv
  BY DEF RiskInit, RunInv
<1>4. AssetInv
  <2>1. Counts(FreshState, << >>) /\ FreshState \in EngineStates /\ FreshState.open = FALSE
    <3>1. FreshState.open = FALSE
      BY DEF FreshState
    <3> QED BY <3>1, FreshCounts DEF Counts
  <2>2. Paired(FreshState, 0, << >>)
    <3>1. << >> \in Seq(AlertEvents) /\ DOMAIN << >> = {}
      BY EmptySeq
    <3> QED BY <2>1, <3>1 DEF Paired, Chained, Closed
  <2>3. OnceUpTo(<< >>, 0, FALSE) /\ << >> \in Seq(Observations)
    BY EmptySeq DEF OnceUpTo
  <2>4. \A a \in Assets : OnceUpTo(<< >>, 0, KnownInRun(a))
    BY EmptySeq DEF OnceUpTo
  <2> QED BY <2>1, <2>2, <2>3, <2>4 DEF RiskInit, AssetInv
<1> QED BY <1>1, <1>2, <1>3, <1>4 DEF AwarenessInv

(***************************************************************************)
(* The task manager.                                                       *)
(***************************************************************************)
LEMMA RevisedContext ==
  ASSUME NEW c \in PublishedContexts, NEW n \in 0 .. 3, c.rev + 1 = n,
         NEW life \in {"STARTING", "ACTIVE", "ENDED"}
  PROVE  LET revised == [c EXCEPT !.rev = @ + 1, !.life = life]
         IN  /\ revised \in PublishedContexts
             /\ revised.run = c.run /\ revised.rev = n /\ revised.life = life
<1> DEFINE mid == [c EXCEPT !.rev = @ + 1]
<1>1. mid \in PublishedContexts /\ mid.run = c.run /\ mid.rev = n
  BY DEF PublishedContexts
<1>2. [mid EXCEPT !.life = life] = [c EXCEPT !.rev = @ + 1, !.life = life]
  OBVIOUS
<1> HIDE DEF mid
<1>3. LET revised == [mid EXCEPT !.life = life]
      IN  /\ revised \in PublishedContexts
          /\ revised.run = c.run /\ revised.rev = n /\ revised.life = life
  BY <1>1 DEF PublishedContexts
<1> QED BY <1>2, <1>3

LEMMA ActivateRunIs ==
  ASSUME ManagerInv, ActivateRun
  PROVE  /\ context' \in PublishedContexts /\ context'.run = context.run
         /\ context'.rev = 2 /\ context'.life = "ACTIVE"
<1> DEFINE two == 2
<1>1. /\ context' = [context EXCEPT !.rev = @ + 1, !.life = "ACTIVE"]
      /\ context.rev + 1 = two /\ two \in 0 .. 3
  BY DEF ActivateRun, ManagerInv
<1> HIDE DEF two
<1>2. /\ context' \in PublishedContexts /\ context'.run = context.run
      /\ context'.rev = two /\ context'.life = "ACTIVE"
  BY <1>1, RevisedContext, Zenon DEF ManagerInv, ContextTypeOK
<1> QED BY <1>2 DEF two

LEMMA EndRunIs ==
  ASSUME ManagerInv, EndRun
  PROVE  context' \in PublishedContexts /\ context'.run = context.run /\ context'.life = "ENDED"
<1> DEFINE three == 3
<1>1. /\ context' = [context EXCEPT !.rev = @ + 1, !.life = "ENDED"]
      /\ context.rev + 1 = three /\ three \in 0 .. 3
  BY DEF EndRun, ManagerInv
<1> HIDE DEF three
<1> QED BY <1>1, RevisedContext, Zenon DEF ManagerInv, ContextTypeOK

(* What the manager does to run and list leaves the observations in order. *)
LEMMA ManagerLeavesAssets ==
  ASSUME AwarenessInv, UNCHANGED riskVars,
         list'.run = list.run \/ list'.run = list.run + 1
  PROVE  AssetInv'
<1>1. list.run \in Nat /\ riskRun <= list.run /\ riskRun \in Nat
  BY RunsAreNumbers DEF AwarenessInv, RunInv
<1>2. ASSUME NEW a \in Assets PROVE OnceUpTo(observed[a], list'.run, KnownInRun(a)')
  <2>1. OnceUpTo(observed[a], list.run, KnownInRun(a)) /\ observed[a] \in Seq(Observations)
    BY DEF AwarenessInv, AssetInv
  <2>2. \A i \in DOMAIN observed[a] : observed[a][i].run \in Nat
    <3>1. \A i \in DOMAIN observed[a] : observed[a][i] \in Observations
      BY <2>1, ElementOfSeq, LenProperties
    <3> QED BY <3>1, RunsAssumption DEF Observations
  <2>3. CASE list'.run = list.run
    BY <2>1, <2>3 DEF OnceUpTo, KnownInRun, riskVars
  <2>4. CASE list'.run = list.run + 1
    BY <1>1, <2>1, <2>2, <2>4 DEF OnceUpTo
  <2> QED BY <2>3, <2>4
<1> QED BY <1>2 DEF AwarenessInv, AssetInv, riskVars

LEMMA ManagerKeeps ==
  ASSUME AwarenessInv, ManagerStarts \/ ManagerActivates \/ ManagerCompletes
  PROVE  AwarenessInv'
<1> USE DEF AwarenessInv
<1>1. UNCHANGED << twinVars, riskVars >>
  BY DEF ManagerStarts, ManagerActivates, ManagerCompletes
<1>2. TwinInv'
  BY <1>1 DEF TwinInv, twinVars
<1>3. /\ ManagerInv'
      /\ list'.run = list.run \/ list'.run = list.run + 1
      /\ list'.run = list.run => list.done \subseteq list'.done
      /\ list'.run = list.run /\ context.life # "STARTING" => context'.life # "STARTING"
  <2>1. CASE ManagerStarts
    <3> DEFINE new == [run |-> context.run + 1, rev |-> 1, life |-> "STARTING"]
               empty == [run |-> new.run, done |-> {}]
    <3>1. context' = new /\ new.run \in Runs /\ list' = empty /\ new.run = list.run + 1
      BY <2>1 DEF ManagerStarts, StartRun, ManagerInv
    <3>2. new \in PublishedContexts /\ new.life = "STARTING" /\ new.rev = 1
      BY <3>1 DEF PublishedContexts
    <3>3. empty \in [run : Runs \cup {0}, done : SUBSET Assets] /\ empty.run = new.run
      BY <3>1
    <3>4. list.run \in Nat
      BY RunsAreNumbers
    <3> HIDE DEF new, empty
    <3> QED BY <3>1, <3>2, <3>3, <3>4 DEF ManagerInv, ContextTypeOK
  <2>2. CASE ManagerActivates
    BY <2>2, ActivateRunIs DEF ManagerActivates, ManagerInv, ContextTypeOK
  <2>3. CASE ManagerCompletes
    <3> PICK a \in Assets : list' = [list EXCEPT !.done = @ \cup {a}]
      BY <2>3 DEF ManagerCompletes
    <3>1. /\ list' \in [run : Runs \cup {0}, done : SUBSET Assets] /\ list'.run = list.run
          /\ list.done \subseteq list'.done
      BY DEF ManagerInv
    <3>2. EndRun \/ UNCHANGED context
      BY <2>3 DEF ManagerCompletes
    <3> QED BY <3>1, <3>2, EndRunIs DEF ManagerInv, ContextTypeOK
  <2> QED BY <2>1, <2>2, <2>3
<1>4. RunInv'
  <2>1. list.run \in Nat /\ list'.run \in Nat /\ riskRun \in Nat /\ riskRun <= list.run
    BY <1>3, RunsAreNumbers DEF RunInv
  <2> QED BY <1>1, <1>3, <2>1 DEF RunInv, riskVars, ManagerInv
<1>5. AssetInv'
  BY <1>1, <1>3, ManagerLeavesAssets
<1> QED BY <1>2, <1>3, <1>4, <1>5

(***************************************************************************)
(* Sensors, normaliser and twin.                                           *)
(***************************************************************************)
LEMMA TwinKeeps ==
  ASSUME AwarenessInv, Sensors \/ TwinSteps
  PROVE  AwarenessInv'
<1>1. UNCHANGED << context, riskVars, list >>
  BY DEF Sensors, TwinSteps
<1>2. TwinInv'
  <2>1. \A values \in [Assets -> Scores] :
          Publishes(values) => twinTopic' \in [run : Runs \cup {0}, values : [Assets -> Scores]]
    BY TwinAssumption DEF Publishes, NoSnapshot, AwarenessInv, TwinInv
  <2>2. CASE Sensors
    <3> PICK a \in Sensed, v \in Scores : Measure(a, v)
      BY <2>2 DEF Sensors
    <3>1. telemetry' \in [Assets -> Scores]
      BY TwinAssumption DEF Measure, AwarenessInv, TwinInv
    <3> QED BY <2>1, <3>1 DEF Measure, AwarenessInv, TwinInv
  <2>3. CASE TwinSteps
    <3>1. context.run \in Runs \cup {0}
      BY DEF AwarenessInv, ManagerInv, ContextTypeOK, PublishedContexts
    <3>2. CASE NormalizerObserves(context) \/ TwinObserves(context)
      BY <3>1, <3>2 DEF NormalizerObserves, TwinObserves, ActiveRun, AwarenessInv, TwinInv
    <3>3. CASE TwinPublishes
      BY <2>1, <3>3 DEF TwinPublishes, AwarenessInv, TwinInv
    <3> QED BY <2>3, <3>2, <3>3 DEF TwinSteps
  <2> QED BY <2>2, <2>3
<1> QED BY <1>1, <1>2
    DEF AwarenessInv, ManagerInv, RunInv, AssetInv, KnownInRun, ContextTypeOK, riskVars

(***************************************************************************)
(* The risk node.                                                          *)
(***************************************************************************)

(* In the run at hand the node never goes back to another run. *)
LEMMA RiskReadsContextKeeps ==
  ASSUME AwarenessInv, RiskReadsContext
  PROVE  AwarenessInv'
<1> USE DEF AwarenessInv
<1>1. /\ UNCHANGED << context, twinVars, list, engine, alerts, events, observed >>
      /\ context.run # 0 /\ context.run = list.run /\ riskRun' = RunOf(context)
  BY DEF RiskReadsContext, RiskObserves, ManagerInv
<1>2. /\ riskRun' = riskRun => UNCHANGED << available, known, latest >>
      /\ riskRun' # riskRun =>
           /\ available' = [a \in Assets |-> Unknown] /\ known' = {}
           /\ latest' = [a \in Assets |-> Unknown]
  BY DEF RiskReadsContext, RiskObserves
<1>3. /\ riskRun' \in {0, list.run} /\ (riskRun' = list.run => context.life # "STARTING")
      /\ context.life # "STARTING" => riskRun' = list.run
  BY <1>1 DEF RunOf, ManagerInv, ContextTypeOK, PublishedContexts
<1>4. RunInv'
  BY <1>1, <1>2, <1>3, RunsAreNumbers DEF RunInv
<1>5. \A a \in Assets : KnownInRun(a) => KnownInRun(a)'
  BY <1>1, <1>2, <1>3 DEF RunInv, KnownInRun
<1>6. AssetInv'
  BY <1>1, <1>5 DEF AssetInv, OnceUpTo
<1> QED BY <1>1, <1>4, <1>6 DEF ManagerInv, TwinInv, twinVars, ContextTypeOK

LEMMA RiskReadsTopicKeeps ==
  ASSUME AwarenessInv, RiskReadsTopic
  PROVE  AwarenessInv'
<1> USE DEF AwarenessInv
<1>1. /\ UNCHANGED << context, twinVars, list, riskRun, known, latest, engine, alerts, events, observed >>
      /\ available' = twinTopic.values
  BY DEF RiskReadsTopic, RiskReadsTwin
<1>2. available' \in [Assets -> Scores \cup {Unknown}]
  BY <1>1 DEF TwinInv
<1> QED BY <1>1, <1>2
    DEF ManagerInv, TwinInv, RunInv, AssetInv, KnownInRun, twinVars, ContextTypeOK

(* What a list does to a newly completed asset: it is observed, once more  *)
(* and in a later run than before.                                         *)
LEMMA OnceMore ==
  ASSUME NEW o \in Seq(Observations), NEW e \in Observations, OnceUpTo(o, e.run, FALSE)
  PROVE  OnceUpTo(Append(o, e), e.run, TRUE)
<1> DEFINE p == Append(o, e)
           n == Len(o)
<1>1. /\ n \in Nat /\ DOMAIN p = 1 .. n + 1 /\ DOMAIN o = 1 .. n
      /\ \A i \in 1 .. n : p[i] = o[i]
      /\ p[n + 1] = e
  BY AppendProperties, LenProperties
<1>2. e.run \in Nat /\ \A i \in 1 .. n : o[i].run \in Nat
  <2>1. \A i \in 1 .. n : o[i] \in Observations
    BY ElementOfSeq
  <2> QED BY <2>1, RunsAssumption DEF Observations
<1> HIDE DEF p, n
<1>3. \A i \in 1 .. n : o[i].run < e.run
  BY <1>1, <1>2 DEF OnceUpTo
<1>4. \A i, j \in 1 .. n : i < j => o[i].run < o[j].run
  BY <1>1 DEF OnceUpTo
<1>5. \A i \in DOMAIN p : p[i].run <= e.run
  BY <1>1, <1>2, <1>3
<1>6. \A i, j \in DOMAIN p : i < j => p[i].run < p[j].run
  <2> SUFFICES ASSUME NEW i \in 1 .. n + 1, NEW j \in 1 .. n + 1, i < j
               PROVE  p[i].run < p[j].run
    BY <1>1
  <2>1. i \in 1 .. n
    BY <1>1
  <2>2. CASE j = n + 1
    BY <1>1, <1>3, <2>1, <2>2
  <2>3. CASE j # n + 1
    BY <1>1, <1>4, <2>1, <2>3
  <2> QED BY <2>2, <2>3
<1> QED BY <1>5, <1>6 DEF OnceUpTo, p

LEMMA RiskReadsListKeeps ==
  ASSUME AwarenessInv, RiskReadsList
  PROVE  AwarenessInv'
<1> USE DEF AwarenessInv
<1> DEFINE new   == NewlyCompleted(list)
           score(a) == IF available[a] = Unknown THEN 0 ELSE available[a]
           event == [a \in Assets |-> IF a \in new THEN Event(engine[a], engine'[a]) ELSE "none"]
           ids   == [a \in Assets |-> IF alerts[a] # 0 THEN alerts[a] ELSE Len(events[a]) + 1]
           entry(a) == [run |-> riskRun, level |-> Level(engine'[a].scores)]
           message(a) == [event |-> event[a], id |-> ids[a], run |-> riskRun]
<1>1. /\ UNCHANGED << context, twinVars, list, riskRun, available >>
      /\ riskRun # 0 /\ list.run = riskRun /\ known' = list.done
      /\ engine' = [a \in Assets |-> IF a \in new THEN Observe(engine[a], score(a)) ELSE engine[a]]
      /\ latest' = [a \in Assets |-> IF a \in new THEN engine'[a].level ELSE latest[a]]
      /\ observed' = [a \in Assets |-> IF a \in new THEN Append(observed[a], entry(a)) ELSE observed[a]]
      /\ events' = [a \in Assets |-> IF event[a] = "none" THEN events[a]
                                     ELSE Append(events[a], message(a))]
      /\ alerts' = AlertsAfter(event, ids)
  BY DEF RiskReadsList, RiskReadsTasks
<1> HIDE DEF new
<1>2. riskRun \in Runs /\ \A a \in Assets : score(a) \in Scores
  BY <1>1, TwinAssumption DEF RunInv
<1>3. ASSUME NEW a \in Assets
      PROVE  /\ engine'[a] \in EngineStates /\ observed'[a] \in Seq(Observations)
             /\ Counts(engine'[a], observed'[a])
             /\ Paired(engine'[a], alerts'[a], events'[a])
             /\ OnceUpTo(observed'[a], list'.run, KnownInRun(a)')
  <2>1. /\ Counts(engine[a], observed[a]) /\ Paired(engine[a], alerts[a], events[a])
        /\ OnceUpTo(observed[a], list.run, KnownInRun(a))
        /\ engine[a] \in EngineStates /\ observed[a] \in Seq(Observations)
    BY DEF AssetInv
  <2>2. CASE a \notin new
    <3>1. /\ engine'[a] = engine[a] /\ observed'[a] = observed[a]
          /\ alerts'[a] = alerts[a] /\ events'[a] = events[a]
      BY <1>1, <2>2 DEF AlertsAfter
    <3>2. KnownInRun(a) => KnownInRun(a)'
      BY <1>1 DEF RunInv, KnownInRun
    <3>3. list'.run = list.run
      BY <1>1
    <3>4. OnceUpTo(observed'[a], list'.run, KnownInRun(a)')
      BY <2>1, <3>1, <3>2, <3>3, Zenon DEF OnceUpTo
    <3> QED BY <2>1, <3>1, <3>4
  <2>3. CASE a \in new
    <3> DEFINE t == Observe(engine[a], score(a))
    <3>1. engine'[a] = t /\ observed'[a] = Append(observed[a], entry(a))
      BY <1>1, <2>3
    <3>2. entry(a) = [run |-> riskRun, level |-> Level(t.scores)]
      BY <3>1
    <3>3. Counts(t, Append(observed[a], entry(a)))
      BY <1>2, <2>1, <3>2, ObserveCounts, Zenon
    <3>4. t \in EngineStates /\ entry(a) \in Observations /\ entry(a).run = riskRun
      BY <1>2, <3>2, <3>3, LevelType DEF Counts, Observations
    <3>5. /\ event[a] = Event(engine[a], t)
          /\ ids[a] = IF alerts[a] # 0 THEN alerts[a] ELSE Len(events[a]) + 1
      BY <2>3, <3>1
    <3>6. /\ alerts'[a] = IF event[a] = "none" THEN alerts[a]
                          ELSE IF event[a] = "CLEARED" THEN 0 ELSE ids[a]
          /\ events'[a] = IF event[a] = "none" THEN events[a] ELSE Append(events[a], message(a))
      BY <1>1 DEF AlertsAfter
    <3> HIDE DEF t, event, ids, entry
    <3>7. Paired(t, alerts'[a], events'[a])
      <4>1. engine[a].open \in BOOLEAN /\ t.open \in BOOLEAN
        BY <2>1, <3>4 DEF EngineStates
      <4> DEFINE ev == Event(engine[a], t)
                 id == IF alerts[a] # 0 THEN alerts[a] ELSE Len(events[a]) + 1
                 alert == IF ev = "none" THEN alerts[a] ELSE IF ev = "CLEARED" THEN 0 ELSE id
                 es == IF ev = "none" THEN events[a]
                       ELSE Append(events[a], [event |-> ev, id |-> id, run |-> riskRun])
      <4>2. Paired(t, alert, es)
        BY <1>2, <2>1, <4>1, AlertKeeps
      <4>3. event[a] = ev /\ ids[a] = id
        BY <3>5
      <4> HIDE DEF ev, id
      <4>4. alerts'[a] = alert /\ events'[a] = es
        BY <3>6, <4>3
      <4> QED BY <4>2, <4>4, Zenon
    <3>8. ~KnownInRun(a) /\ KnownInRun(a)'
      BY <1>1, <2>3 DEF KnownInRun, new, NewlyCompleted
    <3>9. OnceUpTo(observed'[a], list'.run, KnownInRun(a)')
      <4>1. OnceUpTo(observed[a], riskRun, FALSE)
        BY <1>1, <2>1, <3>8 DEF OnceUpTo
      <4>2. OnceUpTo(Append(observed[a], entry(a)), riskRun, TRUE)
        BY <2>1, <3>4, <4>1, OnceMore
      <4> QED BY <1>1, <3>1, <3>8, <4>2 DEF OnceUpTo
    <3> QED BY <3>1, <3>3, <3>4, <3>7, <3>9 DEF Counts
  <2> QED BY <2>2, <2>3
<1>4. AssetInv'
  <2>1. engine' \in [Assets -> EngineStates] /\ observed' \in [Assets -> Seq(Observations)]
    BY <1>1, <1>3
  <2>2. DOMAIN events' = Assets /\ DOMAIN alerts' = Assets
    BY <1>1 DEF AlertsAfter
  <2> HIDE DEF event, ids, entry, message, score
  <2> QED BY <1>3, <2>1, <2>2 DEF AssetInv
<1>5. RunInv'
  <2>1. known' \subseteq Assets
    BY <1>1 DEF ManagerInv
  <2>2. latest' \in [Assets -> Levels \cup {Unknown}]
    <3>1. \A a \in Assets : engine'[a].level \in Levels
      BY <1>3 DEF EngineStates
    <3> QED BY <1>1, <3>1 DEF RunInv
  <2> QED BY <1>1, <2>1, <2>2 DEF RunInv
<1> QED BY <1>1, <1>4, <1>5 DEF ManagerInv, TwinInv, twinVars, ContextTypeOK

(***************************************************************************)
(* Every step.                                                             *)
(***************************************************************************)
LEMMA AwarenessStep ==
  ASSUME AwarenessInv, [Next]_vars
  PROVE  AwarenessInv'
<1>1. CASE UNCHANGED vars
  BY <1>1 DEF AwarenessInv, ManagerInv, TwinInv, RunInv, AssetInv, KnownInRun, ContextTypeOK,
              vars, twinVars, riskVars
<1> QED BY <1>1, ManagerKeeps, TwinKeeps, RiskReadsContextKeeps, RiskReadsTopicKeeps,
           RiskReadsListKeeps DEF Next

LEMMA AwarenessInvariant == Spec => []AwarenessInv
  BY AwarenessInit, AwarenessStep, PTL DEF Spec

(***************************************************************************)
(* The theorems.                                                           *)
(***************************************************************************)

(* Contexts, snapshots, engine states and levels keep their types, and no  *)
(* window is longer than the policy says.                                  *)
THEOREM AwarenessTypeCorrect == Spec => []TypeOK
<1>1. AwarenessInv => TypeOK
  <2> SUFFICES ASSUME AwarenessInv PROVE TypeOK
    OBVIOUS
  <2>1. \A a \in Assets : engine[a].level \in Levels /\ Len(engine[a].scores) <= Window
    BY DEF AwarenessInv, AssetInv, Counts, EngineStates
  <2>2. available \in [Assets -> Scores \cup {Unknown}] /\ latest \in [Assets -> Levels \cup {Unknown}]
    BY DEF AwarenessInv, RunInv
  <2> QED BY <2>1, <2>2 DEF AwarenessInv, ManagerInv, TwinInv, RunInv, TypeOK
<1> QED BY <1>1, AwarenessInvariant, PTL

(* An alert is opened, changes its level and is cleared under one id; the  *)
(* ids the node keeps are those of the alerts the engine has open.         *)
THEOREM AlertsPairedAlways == Spec => []AlertsPaired
<1>1. AwarenessInv => AlertsPaired
  BY DEF AwarenessInv, AssetInv, Paired, Chained, AlertsPaired
<1> QED BY <1>1, AwarenessInvariant, PTL

(* Three counters and a flag are a hysteresis over everything the engine   *)
(* was ever given, for any confirmation, recovery and window.              *)
THEOREM EngineIsHysteresisAlways == Spec => []EngineIsHysteresis
<1>1. AwarenessInv => EngineIsHysteresis
  <2> SUFFICES ASSUME AwarenessInv, NEW a \in Assets
               PROVE  engine[a].open <=>
                        \E i \in Confirmation .. Len(observed[a]) :
                          /\ \A j \in i - Confirmation + 1 .. i : High(a, j)
                          /\ \A k \in i + Recovery .. Len(observed[a]) :
                               \E j \in k - Recovery + 1 .. k : High(a, j)
    BY DEF EngineIsHysteresis
  <2> DEFINE o == observed[a]
             n == Len(o)
             X == HighFrames(o)
  <2>1. (engine[a].open <=> Held(X, n)) /\ n \in Nat /\ DOMAIN o = 1 .. n
    BY LenProperties DEF AwarenessInv, AssetInv, Counts
  <2>2. \A j \in 1 .. n : j \in X <=> High(a, j)
    BY <2>1 DEF HighFrames, High
  <2> HIDE DEF o, n, X
  <2>3. ASSUME NEW i \in Confirmation .. n
        PROVE  /\ (\A j \in i - Confirmation + 1 .. i : j \in X)
                    <=> (\A j \in i - Confirmation + 1 .. i : High(a, j))
               /\ \A k \in i + Recovery .. n :
                    (\E j \in k - Recovery + 1 .. k : j \in X)
                      <=> (\E j \in k - Recovery + 1 .. k : High(a, j))
    <3>1. \A j \in i - Confirmation + 1 .. i : j \in 1 .. n
      BY <2>1, PolicyTypes
    <3>2. \A k \in i + Recovery .. n : \A j \in k - Recovery + 1 .. k : j \in 1 .. n
      BY <2>1, PolicyTypes
    <3> QED BY <2>2, <3>1, <3>2
  <2>4. Held(X, n) <=>
          \E i \in Confirmation .. n :
            /\ \A j \in i - Confirmation + 1 .. i : High(a, j)
            /\ \A k \in i + Recovery .. n : \E j \in k - Recovery + 1 .. k : High(a, j)
    BY <2>3 DEF Held
  <2> QED BY <2>1, <2>4 DEF n, o
<1> QED BY <1>1, AwarenessInvariant, PTL

(* An asset is observed at most once in a run, however often lists and     *)
(* contexts are published again.                                           *)
THEOREM ObservedOncePerRunAlways == Spec => []ObservedOncePerRun
<1>1. AwarenessInv => ObservedOncePerRun
  BY DEF AwarenessInv, AssetInv, OnceUpTo, ObservedOncePerRun
<1> QED BY <1>1, AwarenessInvariant, PTL
=============================================================================
