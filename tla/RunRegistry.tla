----------------------------- MODULE RunRegistry -----------------------------
(***************************************************************************)
(* The run registry of one session and everybody who touches it: the turns *)
(* that claim, upgrade and finish the session's slot, the durable-resume   *)
(* goroutine with its placeholder, the users who stop, pause and unpause,  *)
(* and the stuck-run sweep.                                                *)
(* (internal/runtime/run_registry.go, run_registry_stuck.go and their      *)
(* callers in internal/service.)                                           *)
(*                                                                         *)
(* A call on a ManagedMap or a sync.Map is one step; two calls are two     *)
(* steps unless nobody can tell.  The session lock covers a turn from its  *)
(* check to StoreCancelable; cancelMu covers Cancel and Finish, and only   *)
(* those: the stores and FinishPlaceholder run beside them.                *)
(***************************************************************************)
EXTENDS FiniteSets, RunSlot

CONSTANTS Turns,      (* the turns of the session, each run once           *)
          TurnKind,   (* "direct": a user's message; "queued": started by  *)
                      (* the pending loop; "resume": a durable resume      *)
          Callers,    (* those who call Cancel, each once                  *)
          CallerKind, (* "stop", "pause", "unpause", "sweep"               *)
          GateWired   (* the orchestrator has its admission gate           *)

ASSUME RegistryAssumption ==
  /\ TurnKind \in [Turns -> {"direct", "queued", "resume"}]
  /\ CallerKind \in [Callers -> {"stop", "pause", "unpause", "sweep"}]
  /\ GateWired \in BOOLEAN
  /\ Turns \cap Callers = {}
  /\ NoTurn \notin Turns \cup Callers
  /\ NoRun \notin {"reg", "admit"} \X Turns

(* A turn registers under a fresh id and is later admitted under another:  *)
(* agentRunID (regID in the pending loop) and admit.runID.                 *)
Reg(t)   == <<"reg", t>>
Admit(t) == <<"admit", t>>
IdsOf(t) == {Reg(t), Admit(t)}
RunIds   == {"reg", "admit"} \X Turns

VARIABLES slot,      (* activeRuns[session]                                *)
          status,    (* runStatuses[session]                               *)
          pending,   (* pendingCancels[session]: whose cancel func         *)
          lock,      (* the session lock                                   *)
          cancelMu,  (* RunRegistry.cancelMu                               *)
          pc,        (* where a turn is                                    *)
          fin,       (* where it is inside Finish                          *)
          ctx,       (* its context is cancelled or its runner closed      *)
          cpc,       (* where a caller is                                  *)
          snap,      (* the entry its Cancel loaded                        *)
          seen,      (* the run it acts on: read from the status or swept  *)
          evicted    (* history: turns whose entry a Cancel removed        *)

vars == <<slot, status, pending, lock, cancelMu, pc, fin, ctx, cpc, snap, seen,
          evicted>>

turnVars   == <<pc, fin>>
callerVars == <<cpc, snap, seen, evicted>>

NoStatus == [run |-> NoRun, st |-> "none"]
Terminal == {"completed", "failed", "cancelled"}

-----------------------------------------------------------------------------
(* chatRunStatusTracker.SetRunStatus                                       *)

RunTransitions ==
  {<<"running", "completed">>, <<"running", "failed">>,
   <<"running", "cancelled">>, <<"running", "awaiting_user">>,
   <<"awaiting_user", "running">>, <<"awaiting_user", "cancelled">>,
   <<"awaiting_user", "failed">>}

(* An entry of another run does not count as the current status.           *)
Current(run) ==
  status.st # "none" /\ (status.run = NoRun \/ run = NoRun \/ status.run = run)

(* cancelled -> failed is refused, as is every move the FSM does not list. *)
Accepts(run, to) ==
  Current(run) => status.st = to \/ <<status.st, to>> \in RunTransitions

(* SetRunStatus checks the entry, persists a terminal status, then stores; *)
(* nothing holds the entry in between.  A turn about to store says so in   *)
(* its pc; here is what it stores and where it goes on.                    *)
Store == [writeAdmitted  |-> [st |-> "running",       next |-> "building"],
          writeAwaiting  |-> [st |-> "awaiting_user", next |-> "awaiting"],
          writeAnswered  |-> [st |-> "running",       next |-> "executing"],
          writeSuspended |-> [st |-> "awaiting_user", next |-> "finAdmit"],
          writeCompleted |-> [st |-> "completed",     next |-> "finAdmit"],
          writeFailed    |-> [st |-> "failed",        next |-> "finAdmit"],
          writeRefused   |-> [st |-> "failed",        next |-> "finReg"],
          writeBuild     |-> [st |-> "failed",        next |-> "finReg"]]

RunWasCancelled(t) == status.st = "cancelled" \/ ctx[t]

-----------------------------------------------------------------------------
Init ==
  /\ slot     = Vacant
  /\ status   = NoStatus
  /\ pending  = NoTurn
  /\ lock     = NoTurn
  /\ cancelMu = NoTurn
  /\ pc       = [t \in Turns |-> "idle"]
  /\ fin      = [t \in Turns |-> "no"]
  /\ ctx      = [t \in Turns |-> FALSE]
  /\ cpc      = [c \in Callers |-> "idle"]
  /\ snap     = [c \in Callers |-> Vacant]
  /\ seen     = [c \in Callers |-> NoRun]
  /\ evicted  = {}

Goto(t, where) == pc' = [pc EXCEPT ![t] = where]

(* The check of SetRunStatus, for the store w.                             *)
TrySetStatus(t, w) ==
  Goto(t, IF Accepts(Admit(t), Store[w].st) THEN w ELSE Store[w].next)

(* A resume turn returns to its goroutine, which clears its placeholder;   *)
(* the others are gone.                                                    *)
Left(t) == IF TurnKind[t] = "resume" THEN "leaving" ELSE "done"

-----------------------------------------------------------------------------
(* ResumeDurableSessionRun: the durable claim is won, the slot is vacant,  *)
(* the placeholder keeps it busy until the resume turn registers.          *)
ClaimPlaceholder(t) ==
  /\ pc[t] = "idle" /\ TurnKind[t] = "resume"
  /\ ~Busy(slot)
  /\ slot' = StorePlaceholderIfVacant(slot)
  /\ Goto(t, "claimed")
  /\ UNCHANGED <<status, pending, lock, cancelMu, fin, ctx, callerVars>>

(* Its checkpoint cannot be read or parsed.                                *)
ResumeFails(t) ==
  /\ pc[t] = "claimed"
  /\ Goto(t, "leaving")
  /\ UNCHANGED <<slot, status, pending, lock, cancelMu, fin, ctx, callerVars>>

(* FinishPlaceholder, on every way out of the resume.                      *)
ResumeExit(t) ==
  /\ pc[t] \in {"leaving", "rejected"}
  /\ slot' = FinishPlaceholder(slot)
  /\ Goto(t, "done")
  /\ UNCHANGED <<status, pending, lock, cancelMu, fin, ctx, callerVars>>

(* The admission check in front of the turn, outside the session lock.  A  *)
(* busy session queues a direct turn or rejects it, here the same; a       *)
(* resume turn, which may not queue, is rejected.                          *)
Admission(t) ==
  /\ \/ pc[t] = "idle" /\ TurnKind[t] = "direct"
     \/ pc[t] = "claimed"
  /\ Goto(t, IF ~(GateWired /\ Busy(slot)) THEN "admitted"
               ELSE IF TurnKind[t] = "resume" THEN "rejected" ELSE "done")
  /\ UNCHANGED <<slot, status, pending, lock, cancelMu, fin, ctx, callerVars>>

(* Mutated form: no second look at the registry.                           *)
LockNoRecheck(t) ==
  /\ pc[t] = "admitted"
  /\ lock = NoTurn
  /\ lock' = t /\ Goto(t, "locked")
  /\ UNCHANGED <<slot, status, pending, cancelMu, fin, ctx, callerVars>>

(* The check repeated under the session lock: an active run makes the turn *)
(* busy, except that a resume turn may adopt an untouched placeholder.     *)
Lock(t) ==
  /\ pc[t] = "admitted"
  /\ lock = NoTurn
  /\ IF Busy(slot) /\ ~(TurnKind[t] = "resume" /\ IsPlaceholderOnly(slot))
       THEN UNCHANGED lock /\ Goto(t, Left(t))
       ELSE lock' = t /\ Goto(t, "locked")
  /\ UNCHANGED <<slot, status, pending, cancelMu, fin, ctx, callerVars>>

(* The pending loop found a message and, under the lock, no active run.    *)
LockQueued(t) ==
  /\ pc[t] = "idle" /\ TurnKind[t] = "queued"
  /\ lock = NoTurn
  /\ ~Busy(slot)
  /\ lock' = t
  /\ Goto(t, "locked")
  /\ UNCHANGED <<slot, status, pending, cancelMu, fin, ctx, callerVars>>

(* Ownership, agent hydration or quotas: return before registering.        *)
RejectLocked(t) ==
  /\ pc[t] = "locked" /\ TurnKind[t] # "queued"
  /\ lock' = NoTurn
  /\ Goto(t, Left(t))
  /\ UNCHANGED <<slot, status, pending, cancelMu, fin, ctx, callerVars>>

(* StoreCancelable: the turn owns the slot; an intent recorded on it is    *)
(* applied before the lock is given back.                                  *)
Register(t) ==
  /\ pc[t] = "locked"
  /\ slot' = StoreCancelable(slot, Reg(t), t)
  /\ IF slot.cancelIntent
       THEN UNCHANGED lock /\ Goto(t, "applyReg")
       ELSE lock' = NoTurn /\ Goto(t, "registered")
  /\ pending' = IF TurnKind[t] = "queued" THEN t ELSE pending
  /\ UNCHANGED <<status, cancelMu, fin, ctx, callerVars>>

(* admitTurn succeeded; the early ack publishes "running".                 *)
AdmitTurn(t) ==
  /\ pc[t] = "registered"
  /\ TrySetStatus(t, "writeAdmitted")
  /\ UNCHANGED <<slot, status, pending, lock, cancelMu, fin, ctx, callerVars>>

(* Mutated form: no registration defer.                                    *)
AdmitFailsNoFinish(t) ==
  /\ pc[t] = "registered"
  /\ Goto(t, Left(t))
  /\ UNCHANGED <<slot, status, pending, lock, cancelMu, fin, ctx, callerVars>>

(* admitTurn or the attachment checks fail: Finish(reg) is all there is.   *)
AdmitFails(t) ==
  /\ pc[t] = "registered"
  /\ Goto(t, "finReg")
  /\ UNCHANGED <<slot, status, pending, lock, cancelMu, fin, ctx, callerVars>>

(* buildTurnRunner: the runner lands on the slot under the admitted id.    *)
Build(t) ==
  /\ pc[t] = "building"
  /\ slot' = StoreRunner(slot, Admit(t), t)
  /\ Goto(t, IF slot.cancelIntent THEN "applyRun" ELSE "executing")
  /\ UNCHANGED <<status, pending, lock, cancelMu, fin, ctx, callerVars>>

(* failTurn: Finish(admit) first, then the failed status, unless the run   *)
(* was cancelled before.                                                   *)
BuildFails(t) ==
  /\ pc[t] = "building"
  /\ Goto(t, IF RunWasCancelled(t) THEN "finBuild" ELSE "finBuildFailed")
  /\ UNCHANGED <<slot, status, pending, lock, cancelMu, fin, ctx, callerVars>>

(* failTurn for attachments or a denied input: the failed status at once,  *)
(* and no Finish but the one for the registered id.                        *)
InputRefused(t) ==
  /\ pc[t] = "building"
  /\ IF RunWasCancelled(t) THEN Goto(t, "finReg") ELSE TrySetStatus(t, "writeRefused")
  /\ UNCHANGED <<slot, status, pending, lock, cancelMu, fin, ctx, callerVars>>

(* applyRecordedCancelIntent, without cancelMu: load the entry, cancel     *)
(* what it holds, then mark it.                                            *)
ApplyId(t) == IF pc[t] = "applyReg" THEN Reg(t) ELSE Admit(t)

Applied(t) ==
  IF pc[t] \in {"applyReg", "markReg"}
    THEN lock' = NoTurn /\ Goto(t, "registered")
    ELSE UNCHANGED lock /\ Goto(t, "executing")

(* Mutated form: the wrong one of the two run ids.                         *)
ApplyIntentByAdmit(t) ==
  /\ pc[t] \in {"applyReg", "applyRun"}
  /\ IF slot.present /\ slot.run = Admit(t)
       THEN ctx' = [ctx EXCEPT ![t] = TRUE] /\ UNCHANGED lock
            /\ Goto(t, IF pc[t] = "applyReg" THEN "markReg" ELSE "markRun")
       ELSE Applied(t) /\ UNCHANGED ctx
  /\ UNCHANGED <<slot, status, pending, cancelMu, fin, callerVars>>

ApplyIntent(t) ==
  /\ pc[t] \in {"applyReg", "applyRun"}
  /\ LET hit == {x \in {slot.cancel, slot.runner} :
                   x # NoTurn /\ (slot.cancel # NoTurn => x = slot.cancel)}
     IN  IF slot.present /\ slot.run = ApplyId(t) /\ hit # {}
           THEN /\ ctx' = [x \in Turns |-> ctx[x] \/ x \in hit]
                /\ Goto(t, IF pc[t] = "applyReg" THEN "markReg" ELSE "markRun")
                /\ UNCHANGED lock
           ELSE Applied(t) /\ UNCHANGED ctx
  /\ UNCHANGED <<slot, status, pending, cancelMu, fin, callerVars>>

MarkApplied(t) ==
  /\ pc[t] \in {"markReg", "markRun"}
  /\ slot' = MarkCancelling(slot, IF pc[t] = "markReg" THEN Reg(t) ELSE Admit(t))
  /\ Applied(t)
  /\ UNCHANGED <<status, pending, cancelMu, fin, ctx, callerVars>>

-----------------------------------------------------------------------------
(* The turn executes.  A tool may ask the user and wait for the answer.    *)
AwaitUser(t) ==
  /\ pc[t] = "executing"
  /\ TrySetStatus(t, "writeAwaiting")
  /\ UNCHANGED <<slot, status, pending, lock, cancelMu, fin, ctx, callerVars>>

(* The answer, or the cancellation of the run, ends the wait.              *)
EndWait(t) ==
  /\ pc[t] = "awaiting"
  /\ TrySetStatus(t, "writeAnswered")
  /\ UNCHANGED <<slot, status, pending, lock, cancelMu, fin, ctx, callerVars>>

(* Clarification: the run is left waiting for the user and the turn ends.  *)
Suspend(t) ==
  /\ pc[t] = "executing"
  /\ TrySetStatus(t, "writeSuspended")
  /\ UNCHANGED <<slot, status, pending, lock, cancelMu, fin, ctx, callerVars>>

(* postProcessTurn: completed, unless the run was cancelled meanwhile.     *)
Complete(t) ==
  /\ pc[t] = "executing"
  /\ IF RunWasCancelled(t) THEN Goto(t, "finAdmit") ELSE TrySetStatus(t, "writeCompleted")
  /\ UNCHANGED <<slot, status, pending, lock, cancelMu, fin, ctx, callerVars>>

(* The EXECUTE defer of a turn that did not end well.                      *)
Fail(t) ==
  /\ pc[t] = "executing"
  /\ IF RunWasCancelled(t) THEN Goto(t, "finAdmit") ELSE TrySetStatus(t, "writeFailed")
  /\ UNCHANGED <<slot, status, pending, lock, cancelMu, fin, ctx, callerVars>>

(* The store of SetRunStatus, whatever the entry has become meanwhile.     *)
WriteStatus(t) ==
  /\ pc[t] \in DOMAIN Store
  /\ status' = [run |-> Admit(t), st |-> Store[pc[t]].st]
  /\ Goto(t, Store[pc[t]].next)
  /\ UNCHANGED <<slot, pending, lock, cancelMu, fin, ctx, callerVars>>

(* A terminal status that cannot be persisted is not stored either.        *)
PersistFails(t) ==
  /\ pc[t] \in DOMAIN Store /\ Store[pc[t]].st \in Terminal
  /\ Goto(t, Store[pc[t]].next)
  /\ UNCHANGED <<slot, status, pending, lock, cancelMu, fin, ctx, callerVars>>

-----------------------------------------------------------------------------
(* Finish, under cancelMu: the EXECUTE defer and failTurn call it with the *)
(* admitted id, the registration defer and the pending loop with the       *)
(* registered one.                                                         *)
FinPcs == {"finAdmit", "finBuild", "finBuildFailed", "finReg"}

FinId(t) == IF pc[t] = "finReg" THEN Reg(t) ELSE Admit(t)

(* Where a turn goes after Finish; failTurn publishes its failure then.    *)
AfterFinish(t) ==
  CASE pc[t] = "finReg"         -> Left(t)
    [] pc[t] = "finBuildFailed" -> IF Accepts(Admit(t), "failed")
                                     THEN "writeBuild" ELSE Store["writeBuild"].next
    [] OTHER                    -> "finReg"

LeaveFinish(t) ==
  /\ cancelMu' = NoTurn
  /\ fin' = [fin EXCEPT ![t] = "no"]
  /\ Goto(t, AfterFinish(t))

(* DeleteIf.  The pending loop clears its pending cancel before.           *)
FinishSlot(t) ==
  /\ pc[t] \in FinPcs /\ fin[t] = "no"
  /\ cancelMu = NoTurn
  /\ cancelMu' = t
  /\ IF FinishMatches(slot, FinId(t))
       THEN slot' = Vacant /\ fin' = [fin EXCEPT ![t] = "status"]
       ELSE UNCHANGED slot /\ fin' = [fin EXCEPT ![t] = "check"]
  /\ pending' = IF TurnKind[t] = "queued" /\ pc[t] = "finReg" THEN NoTurn ELSE pending
  /\ UNCHANGED <<status, lock, pc, ctx, callerVars>>

(* Nothing deleted: an entry is there, so this Finish is stale.            *)
FinishCheck(t) ==
  /\ fin[t] = "check"
  /\ IF slot.present
       THEN LeaveFinish(t)
       ELSE fin' = [fin EXCEPT ![t] = "status"] /\ UNCHANGED <<cancelMu, pc>>
  /\ UNCHANGED <<slot, status, pending, lock, ctx, callerVars>>

(* Which status entries outlive Finish.                                    *)
KeepsStatus(run) ==
  \/ status.st \in Terminal \cup {"paused", "none"}
  \/ run # NoRun /\ status.run # NoRun /\ status.run # run

FinishStatus(t) ==
  /\ fin[t] = "status"
  /\ IF KeepsStatus(FinId(t))
       THEN pending' = NoTurn /\ LeaveFinish(t)
       ELSE fin' = [fin EXCEPT ![t] = "drop"] /\ UNCHANGED <<pending, cancelMu, pc>>
  /\ UNCHANGED <<slot, status, lock, ctx, callerVars>>

(* The entry looked at before is deleted by key.                           *)
FinishDrop(t) ==
  /\ fin[t] = "drop"
  /\ status' = NoStatus
  /\ pending' = NoTurn
  /\ LeaveFinish(t)
  /\ UNCHANGED <<slot, lock, ctx, callerVars>>

-----------------------------------------------------------------------------
(* Those who cancel.  PauseSession looks at the status first, and          *)
(* ResumeSession only ever does that.                                      *)
Call(c, where) == cpc' = [cpc EXCEPT ![c] = where]

noTurnMoves == UNCHANGED <<pc, fin, lock>>

StopCalled(c) ==
  /\ cpc[c] = "idle" /\ CallerKind[c] = "stop"
  /\ Call(c, "enter")
  /\ noTurnMoves
  /\ UNCHANGED <<slot, status, pending, cancelMu, ctx, snap, seen, evicted>>

PauseCalled(c) ==
  /\ cpc[c] = "idle" /\ CallerKind[c] = "pause"
  /\ status.st = "running"
  /\ seen' = [seen EXCEPT ![c] = status.run]
  /\ Call(c, "enter")
  /\ noTurnMoves
  /\ UNCHANGED <<slot, status, pending, cancelMu, ctx, snap, evicted>>

UnpauseCalled(c) ==
  /\ cpc[c] = "idle" /\ CallerKind[c] = "unpause"
  /\ status.st = "paused"
  /\ seen' = [seen EXCEPT ![c] = status.run]
  /\ Call(c, "unpausing")
  /\ noTurnMoves
  /\ UNCHANGED <<slot, status, pending, cancelMu, ctx, snap, evicted>>

(* The Range of SweepStuckRuns: a silent run with a runner, not yet        *)
(* cancelled, not waiting for its user and not over.                       *)
SweepFinds(c) ==
  /\ cpc[c] = "idle" /\ CallerKind[c] = "sweep"
  /\ slot.present /\ ~slot.placeholder /\ ~slot.cancelling
  /\ slot.runner # NoTurn
  /\ status.st \notin Terminal \cup {"awaiting_user"}
  /\ seen' = [seen EXCEPT ![c] = slot.run]
  /\ Call(c, "enter")
  /\ noTurnMoves
  /\ UNCHANGED <<slot, status, pending, cancelMu, ctx, snap, evicted>>

(* What follows a Cancel: cancelActiveRun publishes the cancellation of    *)
(* the run Cancel reports, if it reports one; the sweep is done.           *)
AfterCancel(c, stopped) ==
  IF CallerKind[c] = "sweep" THEN "done"
    ELSE IF stopped THEN "publish"
    ELSE IF CallerKind[c] = "pause" THEN "pausing" ELSE "done"

CancelReturns(c) == cancelMu' = NoTurn /\ Call(c, AfterCancel(c, TRUE))

(* Cancel takes cancelMu, fires the pending cancel func and loads the      *)
(* entry; what it finds decides the rest.                                  *)
CancelLoad(c) ==
  /\ cpc[c] = "enter"
  /\ cancelMu = NoTurn
  /\ ctx' = [t \in Turns |-> ctx[t] \/ t = pending]
  /\ pending' = NoTurn
  /\ snap' = [snap EXCEPT ![c] = slot]
  /\ IF ~slot.present
       THEN UNCHANGED cancelMu /\ Call(c, AfterCancel(c, FALSE))
       ELSE /\ cancelMu' = c
            /\ Call(c, CASE slot.cancelling -> "force"
                         [] ~slot.cancelling /\ slot.cancel # NoTurn -> "cancelFunc"
                         [] ~slot.cancelling /\ slot.cancel = NoTurn
                              /\ (slot.placeholder \/ slot.runner = NoTurn) -> "intent"
                         [] OTHER -> "runner")
  /\ noTurnMoves
  /\ UNCHANGED <<slot, status, seen, evicted>>

Owner(run)     == {t \in Turns : run \in IdsOf(t)}
EntryOwners(s) == Owner(s.run) \cup ({s.cancel, s.runner} \ {NoTurn})

(* An entry already cancelling is deleted: the run may be stuck.           *)
ForceDelete(c) ==
  /\ cpc[c] = "force"
  /\ slot' = Vacant
  /\ pending' = NoTurn
  /\ evicted' = evicted \cup EntryOwners(slot)
  /\ CancelReturns(c)
  /\ noTurnMoves
  /\ UNCHANGED <<status, ctx, snap, seen>>

(* Mutated form: nothing is fired once the id has changed.                 *)
CancelFuncIfUnchanged(c) ==
  /\ cpc[c] = "cancelFunc"
  /\ ctx' = IF slot.present /\ slot.run = snap[c].run
              THEN [ctx EXCEPT ![snap[c].cancel] = TRUE] ELSE ctx
  /\ status' = [run |-> snap[c].run, st |-> "cancelled"]
  /\ slot' = MarkCancelling(slot, snap[c].run)
  /\ CancelReturns(c)
  /\ noTurnMoves
  /\ UNCHANGED <<pending, snap, seen, evicted>>

(* Path 1: the cancel func.  The entry stays, marked, until Finish.        *)
CancelByFunc(c) ==
  /\ cpc[c] = "cancelFunc"
  /\ ctx' = [ctx EXCEPT ![snap[c].cancel] = TRUE]
  /\ status' = [run |-> snap[c].run, st |-> "cancelled"]
  /\ slot' = MarkCancelling(slot, snap[c].run)
  /\ CancelReturns(c)
  /\ noTurnMoves
  /\ UNCHANGED <<pending, snap, seen, evicted>>

(* Path 2: nothing to cancel yet, leave the intent on the slot.            *)
CancelByIntent(c) ==
  /\ cpc[c] = "intent"
  /\ slot' = RecordCancelIntent(slot, snap[c])
  /\ Call(c, "intentStatus")
  /\ noTurnMoves
  /\ UNCHANGED <<status, pending, cancelMu, ctx, snap, seen, evicted>>

IntentStatus(c) ==
  /\ cpc[c] = "intentStatus"
  /\ status' = [run |-> snap[c].run, st |-> "cancelled"]
  /\ CancelReturns(c)
  /\ noTurnMoves
  /\ UNCHANGED <<slot, pending, ctx, snap, seen, evicted>>

(* Path 3: the runner is told to stop and its entry marked, or, path 4, it *)
(* declines and is closed, after its entry was looked at once more.        *)
CancelByRunner(c) ==
  /\ cpc[c] = "runner"
  /\ status' = [run |-> snap[c].run, st |-> "cancelled"]
  /\ ctx' = [ctx EXCEPT ![snap[c].runner] = TRUE]
  /\ \/ slot' = MarkCancelling(slot, snap[c].run) /\ CancelReturns(c)
     \/ /\ UNCHANGED slot
        /\ IF slot.present /\ slot.run = snap[c].run
             THEN Call(c, "delete") /\ UNCHANGED cancelMu
             ELSE CancelReturns(c)
  /\ noTurnMoves
  /\ UNCHANGED <<pending, snap, seen, evicted>>

(* Path 4 deletes whatever entry is there by then.                         *)
DeleteRunner(c) ==
  /\ cpc[c] = "delete"
  /\ slot' = Vacant
  /\ evicted' = evicted \cup EntryOwners(slot)
  /\ CancelReturns(c)
  /\ noTurnMoves
  /\ UNCHANGED <<status, pending, ctx, snap, seen>>

(* cancelActiveRun: SetRunStatus(cancelled) for the run Cancel reported,   *)
(* again checked first and stored after it was persisted, if it was.       *)
Published(c) == IF CallerKind[c] = "pause" THEN "pausing" ELSE "done"

PublishCheck(c) ==
  /\ cpc[c] = "publish"
  /\ Call(c, IF Accepts(snap[c].run, "cancelled") THEN "publishWrite" ELSE Published(c))
  /\ noTurnMoves
  /\ UNCHANGED <<slot, status, pending, cancelMu, ctx, snap, seen, evicted>>

PublishWrite(c) ==
  /\ cpc[c] = "publishWrite"
  /\ \/ status' = [run |-> snap[c].run, st |-> "cancelled"]
     \/ UNCHANGED status
  /\ Call(c, Published(c))
  /\ noTurnMoves
  /\ UNCHANGED <<slot, pending, cancelMu, ctx, snap, seen, evicted>>

(* publishPauseResumeStatus marks the session paused, or running again.    *)
MarkPaused(c) ==
  /\ cpc[c] \in {"pausing", "unpausing"}
  /\ status' = [run |-> seen[c],
                st  |-> IF cpc[c] = "pausing" THEN "paused" ELSE "running"]
  /\ Call(c, "done")
  /\ noTurnMoves
  /\ UNCHANGED <<slot, pending, cancelMu, ctx, snap, seen, evicted>>

(* GetStatus drops a terminal or paused entry that outlived its TTL.       *)
StatusExpires ==
  /\ status.st \in Terminal \cup {"paused"}
  /\ status' = NoStatus
  /\ noTurnMoves
  /\ UNCHANGED <<slot, pending, cancelMu, ctx, callerVars>>

-----------------------------------------------------------------------------
TurnStep(t) ==
  \/ ClaimPlaceholder(t) \/ ResumeFails(t) \/ ResumeExit(t)
  \/ Admission(t) \/ Lock(t) \/ LockQueued(t) \/ RejectLocked(t) \/ Register(t)
  \/ AdmitTurn(t) \/ AdmitFails(t) \/ InputRefused(t)
  \/ Build(t) \/ BuildFails(t) \/ ApplyIntent(t) \/ MarkApplied(t)
  \/ AwaitUser(t) \/ EndWait(t) \/ Suspend(t)
  \/ Complete(t) \/ Fail(t) \/ WriteStatus(t) \/ PersistFails(t)
  \/ FinishSlot(t) \/ FinishCheck(t) \/ FinishStatus(t) \/ FinishDrop(t)

CallerStep(c) ==
  \/ StopCalled(c) \/ PauseCalled(c) \/ UnpauseCalled(c) \/ SweepFinds(c)
  \/ CancelLoad(c) \/ ForceDelete(c) \/ CancelByFunc(c)
  \/ CancelByIntent(c) \/ IntentStatus(c) \/ CancelByRunner(c) \/ DeleteRunner(c)
  \/ PublishCheck(c) \/ PublishWrite(c) \/ MarkPaused(c)

Next ==
  \/ \E t \in Turns : TurnStep(t)
  \/ \E c \in Callers : CallerStep(c)
  \/ StatusExpires

Spec == Init /\ [][Next]_vars

-----------------------------------------------------------------------------
SlotType ==
  [present : BOOLEAN, run : RunIds \cup {NoRun}, runner : Turns \cup {NoTurn},
   cancel : Turns \cup {NoTurn}, placeholder : BOOLEAN, cancelling : BOOLEAN,
   cancelIntent : BOOLEAN]

(* An absent entry is all zero.                                            *)
SlotOK == slot \in SlotType /\ (~slot.present => slot = Vacant)

Places ==
  {"idle", "claimed", "admitted", "locked", "applyReg", "markReg",
   "registered", "building", "applyRun", "markRun", "executing", "awaiting",
   "leaving", "rejected", "done"} \cup DOMAIN Store \cup FinPcs

CallerPlaces ==
  {"idle", "enter", "force", "cancelFunc", "intent", "intentStatus", "runner",
   "delete", "publish", "publishWrite", "pausing", "unpausing", "done"}

(* The values the variables take.                                          *)
TypeOK ==
  /\ SlotOK
  /\ status \in [run : RunIds \cup {NoRun},
                 st  : {"none", "running", "awaiting_user", "paused"} \cup Terminal]
  /\ pending \in Turns \cup {NoTurn}
  /\ lock \in Turns \cup {NoTurn}
  /\ cancelMu \in Turns \cup Callers \cup {NoTurn}
  /\ pc \in [Turns -> Places]
  /\ fin \in [Turns -> {"no", "check", "status", "drop"}]
  /\ ctx \in [Turns -> BOOLEAN]
  /\ cpc \in [Callers -> CallerPlaces]
  /\ snap \in [Callers -> SlotType]
  /\ seen \in [Callers -> RunIds \cup {NoRun}]
  /\ evicted \in SUBSET Turns

(* A turn between its StoreCancelable and the Finish that ends its run.    *)
Live(t) ==
  \/ pc[t] \in {"applyReg", "markReg", "registered", "building", "applyRun",
                "markRun", "executing", "awaiting"}
  \/ pc[t] \in DOMAIN Store \ {"writeBuild"}
  \/ pc[t] \in FinPcs \ {"finReg"} /\ fin[t] = "no"

(* Two turns never run on a session at once, from registration to the end  *)
(* of the run, for as long as no Cancel has removed an entry by force: the *)
(* recheck under the session lock and the slot exclude them.               *)
AtMostOneRun ==
  evicted = {} => \A t, u \in Turns : Live(t) /\ Live(u) => t = u

(* Until a forced removal, the slot of a session is the live turn's own:   *)
(* busy, under one of its ids, with its cancel func, so that neither a     *)
(* stale Finish nor a placeholder ever stands in for it.                   *)
SlotCoversLiveRun ==
  evicted = {} =>
    \A t \in Turns : Live(t) =>
      slot.present /\ slot.run \in IdsOf(t) /\ slot.cancel = t

(* Whatever mixture of stops, forced removals and late stores happened,    *)
(* when all turns have returned the slot is free for the next one.  (A     *)
(* turn that panics between StoreRunner and the EXECUTE defer does not     *)
(* return through its second Finish; TurnDrain has that step, Panic.)      *)
QuiescentSlotFree ==
  /\ \A t \in Turns : pc[t] \in {"idle", "done"}
  /\ \A c \in Callers : cpc[c] \in {"idle", "enter", "publish", "publishWrite",
                                    "pausing", "unpausing", "done"}
  => ~slot.present

(* A Cancel that reports a run has really stopped it: the run's turn is    *)
(* cancelled, also when the turn replaced the entry after Cancel had       *)
(* loaded it.                                                              *)
CancelStopsItsRun ==
  evicted = {} =>
    \A c \in Callers : \A t \in Owner(snap[c].run) :
      cpc[c] \in {"publish", "publishWrite", "pausing", "done"} => ctx[t]

(* A turn that holds the session lock to register finds no cancel func in  *)
(* the slot, so no StoreCancelable ever overwrites another run's: that     *)
(* holds through forced removals, late stores and ghost entries too.       *)
NoCancelOverwritten ==
  \A t \in Turns : pc[t] = "locked" => slot.cancel = NoTurn

(* A turn that registers over an entry with a recorded intent takes it up, *)
(* and does not go on before its own context is cancelled, unless a forced *)
(* removal took the entry first.                                           *)
IntentReachesRun ==
  [][\A t \in Turns :
       /\ (slot.cancelIntent /\ slot'.cancel = t /\ slot.cancel # t)
            => pc'[t] = "applyReg"
       /\ (pc[t] \in {"applyReg", "markReg", "applyRun", "markRun"}
             /\ pc'[t] \notin {pc[t], "markReg", "markRun"} /\ evicted = {})
            => ctx'[t]]_vars
=============================================================================
