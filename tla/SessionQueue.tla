---------------------------- MODULE SessionQueue ----------------------------
(***************************************************************************)
(* What a session promises for the messages sent to it, without locks,     *)
(* loops, flags or the order of the queue.  A message that is accepted     *)
(* waits.  A turn first takes messages out of those that wait, then runs   *)
(* with them, and when it is over all of them are served, dead letters, or *)
(* lost to a panic.  A user may take back what waits.                      *)
(*                                                                         *)
(* Turns take place one at a time, unless a user insists: who cancels a    *)
(* run that has been cancelled before gives the session up for the next    *)
(* turn, whether that run is over or not (forced).  From then on only the  *)
(* taking of messages is exclusive.                                        *)
(*                                                                         *)
(* A message never returns: none is served twice, and none is served after *)
(* it was taken back.  Only a turn that is called off before it runs loses *)
(* messages, and never a follow-up.  This holds whatever was forced.       *)
(***************************************************************************)
CONSTANTS Messages,   (* the messages sent to the session                  *)
          Followups,  (* those that ask for a turn, or to be in the next   *)
          Turns,      (* who may have a turn                               *)
          Restored    (* those that wait when the process starts           *)

VARIABLES phase,      (* none, a turn that takes its messages, one that runs *)
          waiting,    (* accepted and queued                               *)
          serving,    (* with each turn                                    *)
          forced,     (* a run was given up while it was under way         *)
          served, dlq, crashed, removed

fates == <<served, dlq, crashed, removed>>
sessionVars == <<phase, waiting, serving, forced, fates>>

Known == waiting \cup (UNION {serving[t] : t \in Turns})
           \cup served \cup dlq \cup crashed \cup removed

QueueInit ==
  /\ phase = [t \in Turns |-> "none"]
  /\ waiting = Restored
  /\ serving = [t \in Turns |-> {}]
  /\ forced = FALSE
  /\ served = {} /\ dlq = {} /\ crashed = {} /\ removed = {}

Accept(m) ==
  /\ m \notin Known
  /\ waiting' = waiting \cup {m}
  /\ UNCHANGED <<phase, serving, forced, fates>>

Withdraw(S) ==
  /\ waiting' = waiting \ S
  /\ removed' = removed \cup S
  /\ UNCHANGED <<phase, serving, forced, served, dlq, crashed>>

(* A turn begins, with some of the injects.                                *)
Begin(t, S) ==
  /\ \A u \in Turns : phase[u] # "taking" /\ (phase[u] = "running" => forced /\ u # t)
  /\ S \cap Followups = {}
  /\ phase' = [phase EXCEPT ![t] = "taking"]
  /\ waiting' = waiting \ S
  /\ serving' = [serving EXCEPT ![t] = S]
  /\ UNCHANGED <<forced, fates>>

Collect(t, S) ==
  /\ phase[t] = "taking"
  /\ waiting' = waiting \ S
  /\ serving' = [serving EXCEPT ![t] = @ \cup S]
  /\ UNCHANGED <<phase, forced, fates>>

(* It is called off.                                                       *)
CallOff(t) ==
  /\ phase[t] = "taking" /\ serving[t] \cap Followups = {}
  /\ phase' = [phase EXCEPT ![t] = "none"]
  /\ serving' = [serving EXCEPT ![t] = {}]
  /\ UNCHANGED <<waiting, forced, fates>>

(* It runs; a chat turn brings its own message along.                      *)
Run(t, S) ==
  /\ phase[t] = "taking" /\ S \cap Known = {}
  /\ phase' = [phase EXCEPT ![t] = "running"]
  /\ serving' = [serving EXCEPT ![t] = @ \cup S]
  /\ UNCHANGED <<waiting, forced, fates>>

(* It is over, one way or another.                                         *)
Over(t) ==
  /\ phase[t] = "running"
  /\ phase' = [phase EXCEPT ![t] = "none"]
  /\ serving' = [serving EXCEPT ![t] = {}]
  /\ \/ served' = served \cup serving[t] /\ UNCHANGED <<dlq, crashed>>
     \/ dlq' = dlq \cup serving[t] /\ UNCHANGED <<served, crashed>>
     \/ crashed' = crashed \cup serving[t] /\ UNCHANGED <<served, dlq>>
  /\ UNCHANGED <<waiting, forced, removed>>

(* A run under way is given up; what it has is still its own.              *)
Force ==
  /\ \E t \in Turns : phase[t] = "running"
  /\ forced' = TRUE
  /\ UNCHANGED <<phase, waiting, serving, fates>>

QueueNext ==
  \/ \E m \in Messages : Accept(m)
  \/ \E S \in SUBSET waiting : Withdraw(S)
  \/ \E t \in Turns :
       \/ \E S \in SUBSET waiting : Begin(t, S) \/ Collect(t, S)
       \/ \E m \in Messages : Run(t, {m})
       \/ Run(t, {}) \/ CallOff(t) \/ Over(t)
  \/ Force

QueueSpec == QueueInit /\ [][QueueNext]_sessionVars
=============================================================================
