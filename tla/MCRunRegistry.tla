---------------------------- MODULE MCRunRegistry ----------------------------
(***************************************************************************)
(* Small sessions for the run registry: which turns they have and who      *)
(* cancels.  d1 is a direct turn, q1 comes out of the pending queue, r1 is *)
(* a durable resume.                                                       *)
(***************************************************************************)
EXTENDS RunRegistry, TLC

CONSTANTS d1, q1, r1, stop1, stop2, pause1, unpause1, sweep1

KindOf == (d1 :> "direct") @@ (q1 :> "queued")
            @@ (r1 :> "resume")

KindOfCaller == (stop1 :> "stop") @@ (stop2 :> "stop") @@ (pause1 :> "pause")
                  @@ (unpause1 :> "unpause") @@ (sweep1 :> "sweep")

DirectAndQueued   == {d1, q1}
DirectAndResume   == {d1, r1}
OnlyResume        == {r1}
OneStop           == {stop1}
StopAndPause      == {stop1, pause1, unpause1}
StopsAndSweep     == {stop1, stop2, sweep1}

(* The two stops of a run are alike.                                       *)
AlikeStops == Permutations({stop1, stop2})

(* TurnKind and CallerKind are defined on just the turns and callers of    *)
(* the run.                                                                *)
Kinds(S)       == [t \in S |-> KindOf[t]]
CallerKinds(S) == [c \in S |-> KindOfCaller[c]]

DirectAndQueuedKinds == Kinds(DirectAndQueued)
DirectAndResumeKinds == Kinds(DirectAndResume)
OnlyResumeKinds      == Kinds(OnlyResume)
StopAndPauseKinds    == CallerKinds(StopAndPause)
StopsAndSweepKinds   == CallerKinds(StopsAndSweep)
OneStopKinds         == CallerKinds(OneStop)
=============================================================================
