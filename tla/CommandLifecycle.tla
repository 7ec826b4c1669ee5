--------------------------- MODULE CommandLifecycle ---------------------------
(***************************************************************************)
(* What the gateway promises of a command (CommandStore, app.py): an       *)
(* accepted command holds its slot, the method, route and idempotency key  *)
(* it came with, for ever; it moves forward only, to one terminal status;  *)
(* and each status is announced to the event stream once, the later ones   *)
(* with their commit.                                                      *)
(***************************************************************************)
EXTENDS Sequences

CONSTANTS
  Commands,      (* command ids                                            *)
  Slots,         (* method, route and idempotency key                      *)
  Nobody         (* no command                                             *)

VARIABLES
  status,        (* of each command; "none" until it is accepted           *)
  holder,        (* the command that holds a slot                          *)
  told           (* the statuses announced of each command, in order       *)

lifecycleVars == << status, holder, told >>

OpenStatuses     == {"accepted", "executing"}
TerminalStatuses == {"succeeded", "failed", "timed_out"}
Statuses         == {"none"} \cup OpenStatuses \cup TerminalStatuses

LifecycleInit ==
  /\ status = [c \in Commands |-> "none"]
  /\ holder = [s \in Slots |-> Nobody]
  /\ told = [c \in Commands |-> << >>]

(* insert_accepted: the slot was free. *)
Accept(c, s) ==
  /\ status[c] = "none" /\ holder[s] = Nobody
  /\ status' = [status EXCEPT ![c] = "accepted"]
  /\ holder' = [holder EXCEPT ![s] = c]
  /\ UNCHANGED told

(* _notify_transition of the insertion comes after its commit and outside  *)
(* the lock, so that a later status can be announced before.               *)
Untold(c, t) == \A i \in DOMAIN told[c] : told[c][i] # t

Tell(c) ==
  /\ status[c] # "none" /\ Untold(c, "accepted")
  /\ told' = [told EXCEPT ![c] = Append(@, "accepted")]
  /\ UNCHANGED << status, holder >>

(* The robot has taken the command up. *)
Execute(c) ==
  /\ status[c] = "accepted"
  /\ status' = [status EXCEPT ![c] = "executing"]
  /\ told' = [told EXCEPT ![c] = Append(@, "executing")]
  /\ UNCHANGED holder

(* Commit a terminal status and announce it; a command whose effect is     *)
(* there already is announced as accepted on the same occasion.            *)
Finish(c, t) ==
  /\ status[c] \in OpenStatuses
  /\ status' = [status EXCEPT ![c] = t]
  /\ \/ told' = [told EXCEPT ![c] = Append(@, t)]
     \/ /\ Untold(c, "accepted")
        /\ told' = [told EXCEPT ![c] = Append(Append(@, "accepted"), t)]
  /\ UNCHANGED holder

(* A restart forgets the event stream, and no more. *)
Restart == told' = [c \in Commands |-> << >>] /\ UNCHANGED << status, holder >>

LifecycleNext ==
  \/ \E c \in Commands, s \in Slots : Accept(c, s)
  \/ \E c \in Commands : Tell(c) \/ Execute(c)
  \/ \E c \in Commands, t \in TerminalStatuses : Finish(c, t)
  \/ Restart

LifecycleSpec == LifecycleInit /\ [][LifecycleNext]_lifecycleVars

(* No status is announced twice, and a terminal one only of a command that *)
(* has it (the events of _notify_transition).                              *)
ToldIsTrue ==
  \A c \in Commands : \A i \in DOMAIN told[c] :
    /\ told[c][i] \in TerminalStatuses => told[c][i] = status[c]
    /\ \A j \in DOMAIN told[c] : told[c][i] = told[c][j] => i = j
=============================================================================
