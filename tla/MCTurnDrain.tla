----------------------------- MODULE MCTurnDrain -----------------------------
(***************************************************************************)
(* Small sessions for the follow-up queue.  c1 and c2 are chat turns, f1   *)
(* and f2 are follow-ups, i1 and i2 are injects.                           *)
(***************************************************************************)
EXTENDS TurnDrain, TLC

CONSTANTS c1, c2, f1, f2, i1, i2, w1, w2

KindOfMessage == (c1 :> "direct") @@ (c2 :> "direct") @@ (f1 :> "followup")
                   @@ (f2 :> "followup") @@ (i1 :> "inject") @@ (i2 :> "inject")

KindsFor(S) == [m \in S |-> KindOfMessage[m]]

Nothing == {}
NoRows  == <<>>

(* A restart left a full queue, its follow-up behind an inject.            *)
FlowRows       == <<i2, f1>>
FlowMessages   == {c1, f1, f2, i1, i2}
FlowKinds      == KindsFor(FlowMessages)
FlowRemovable  == {f2}
FlowPromotable == {f1, f2}
FlowStoppable  == {c1}
FlowPoison     == {c1}

LateMessages == {c1, c2, f1}
LateKinds    == KindsFor(LateMessages)

TwoLoops == {w1, w2}
=============================================================================
