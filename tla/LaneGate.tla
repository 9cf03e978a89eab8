------------------------------ MODULE LaneGate ------------------------------
(***************************************************************************)
(* What the lane scheduler promises to its callers, without its queue: a   *)
(* counting gate per lane.  A turn asks for a slot in a lane, is either    *)
(* granted one or refused (its context was cancelled), and gives it back.  *)
(* A lane never has more granted turns than its limit; a limit of zero or  *)
(* less means that the lane is not limited.                                *)
(***************************************************************************)
EXTENDS Integers, FiniteSets

CONSTANTS Turns,    (* the goroutines that run turns                       *)
          Lanes,    (* the lanes                                           *)
          Limit     (* the limit of each lane                              *)

VARIABLES asking,   (* asking[l]: the turns that have asked and wait       *)
          granted   (* granted[l]: the turns that run in lane l            *)

gateVars == <<asking, granted>>

GateInit ==
  /\ asking  = [l \in Lanes |-> {}]
  /\ granted = [l \in Lanes |-> {}]

Busy(t) == \E l \in Lanes : t \in asking[l] \/ t \in granted[l]

Ask(t, l) ==
  /\ ~Busy(t)
  /\ asking' = [asking EXCEPT ![l] = @ \cup {t}]
  /\ UNCHANGED granted

Grant(t, l) ==
  /\ t \in asking[l]
  /\ Limit[l] > 0 => Cardinality(granted[l]) < Limit[l]
  /\ asking'  = [asking  EXCEPT ![l] = @ \ {t}]
  /\ granted' = [granted EXCEPT ![l] = @ \cup {t}]

Refuse(t, l) ==
  /\ t \in asking[l]
  /\ asking' = [asking EXCEPT ![l] = @ \ {t}]
  /\ UNCHANGED granted

GiveBack(t, l) ==
  /\ t \in granted[l]
  /\ granted' = [granted EXCEPT ![l] = @ \ {t}]
  /\ UNCHANGED asking

GateNext ==
  \E t \in Turns, l \in Lanes :
    Ask(t, l) \/ Grant(t, l) \/ Refuse(t, l) \/ GiveBack(t, l)

GateSpec == GateInit /\ [][GateNext]_gateVars
=============================================================================
