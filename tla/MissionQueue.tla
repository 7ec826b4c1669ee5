----------------------------- MODULE MissionQueue -----------------------------
(***************************************************************************)
(* The task queue of MissionEngine (mission_engine.py): priorities, the    *)
(* order they induce, the normal replan and the insertion of an emergency  *)
(* task.  A task is a pair of its asset and its kind: every mission makes  *)
(* one "route" task per asset and the engine adds at most one "emergency"  *)
(* task per asset.                                                         *)
(*                                                                         *)
(* The queue is the sequence of the tasks in execution order; what the     *)
(* code computes by sorting is stated as the set of the sequences that are *)
(* sorted, which has one element.                                          *)
(***************************************************************************)
EXTENDS Integers, SequencesExt

CONSTANTS
  Assets,        (* the registered assets                                  *)
  Registry,      (* the assets in the order of the registry file           *)
  Detour,        (* distance_penalty * path_length_m of each asset's goal  *)
  TieRank,       (* the order of the task ids (uuid4: an arbitrary one)    *)
  EmergencyScore,
  NoTask         (* active_task_id = ""                                    *)

Tasks == Assets \X {"route", "emergency"}

AssetOf(t)       == t[1]
IsEmergency(t)   == t[2] = "emergency"
RouteTask(a)     == <<a, "route">>
EmergencyTask(a) == <<a, "emergency">>

ASSUME QueueAssumption ==
  /\ IsFiniteSet(Assets) /\ Assets # {}
  /\ Registry \in SetToSeqs(Assets)
  /\ Registry \in Seq(Assets)
  /\ Detour \in [Assets -> Nat]
  /\ TieRank \in [Tasks -> Nat]
  /\ EmergencyScore \in Nat
  /\ NoTask \notin Tasks

TaskStates == {"QUEUED", "ACTIVE", "SUCCEEDED", "SKIPPED", "FAILED", "ABSENT"}
Terminal   == {"SUCCEEDED", "SKIPPED", "FAILED"}

RoutePriority     == 10
EmergencyPriority == 1000

(* computed_priority of a task whose asset has this risk score *)
ComputedPriority(t, score) ==
  IF IsEmergency(t) THEN EmergencyPriority + score
                    ELSE RoutePriority + score - Detour[AssetOf(t)]

(* Mutant of Precedes: ascending. *)
PrecedesAscending(t, u, prio) ==
  prio[t] < prio[u] \/ (prio[t] = prio[u] /\ TieRank[t] < TieRank[u])

(* The sort key: computed_priority descending, then task_id. *)
Precedes(t, u, prio) ==
  prio[t] > prio[u] \/ (prio[t] = prio[u] /\ TieRank[t] < TieRank[u])

Orders(S) == SetToSeqs(S) \cap Seq(Tasks)

InitialOrder == [i \in DOMAIN Registry |-> RouteTask(Registry[i])]

InitialState ==
  [t \in Tasks |-> IF IsEmergency(t) THEN "ABSENT" ELSE "QUEUED"]

(***************************************************************************)
(* apply_risk without an emergency: the scores reprioritise the mutable    *)
(* tasks, and the queued ones are sorted within the slots they hold.       *)
(***************************************************************************)
RiskPriorities(prio, state, scores) ==
  [t \in Tasks |-> IF state[t] \in {"QUEUED", "ACTIVE"}
                   THEN ComputedPriority(t, scores[AssetOf(t)]) ELSE prio[t]]

IsReplan(before, after, state, prio) ==
  /\ \A i \in DOMAIN before : state[before[i]] # "QUEUED" => after[i] = before[i]
  /\ \A i, j \in DOMAIN before :
       i < j /\ state[before[i]] = "QUEUED" /\ state[before[j]] = "QUEUED"
         => Precedes(after[i], after[j], prio)

(***************************************************************************)
(* _insert_emergency: the emergency task, new or the one already made for  *)
(* the asset, goes first and every other task, the active and the terminal *)
(* ones included, is sorted behind it.                                     *)
(***************************************************************************)
EmergencyAssets(scores) == {a \in Assets : scores[a] >= EmergencyScore}

IsFirstAsset(a, S) ==
  a \in S /\ \A b \in S \ {a} : TieRank[EmergencyTask(a)] < TieRank[EmergencyTask(b)]

IsEmergencyOrder(before, after, t, prio) ==
  /\ after[1] = t
  /\ \A i, j \in 2 .. Len(after) : i < j => Precedes(after[i], after[j], prio)

(* Mutant of EmergencyQueued: a finished emergency starts again. *)
EmergencyRequeued(t, state) == [state EXCEPT ![t] = "QUEUED"]

(* A new emergency task is queued, one already made keeps its state. *)
EmergencyQueued(t, state) == [state EXCEPT ![t] = IF @ = "ABSENT" THEN "QUEUED" ELSE @]

(* Mutant of Demoted: the preempted task stays ACTIVE. *)
NotDemoted(state) == state

(* The active task, if there is one, goes back to the queue. *)
Demoted(state) ==
  [t \in Tasks |-> IF state[t] = "ACTIVE" THEN "QUEUED" ELSE state[t]]

(* The first queued task: the one a dispatch sends. *)
IsNextQueued(t, order, state) ==
  \E i \in DOMAIN order :
     /\ order[i] = t /\ state[t] = "QUEUED"
     /\ \A j \in 1 .. (i - 1) : state[order[j]] # "QUEUED"
=============================================================================
