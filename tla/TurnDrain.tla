------------------------------ MODULE TurnDrain ------------------------------
(***************************************************************************)
(* One session's follow-up queue and the loops that drain it: how a        *)
(* message that arrives while a run is active is accepted, waits, and is   *)
(* dispatched as a turn of its own (internal/service, internal/biz,        *)
(* internal/runtime/pending_queue.go).                                     *)
(*                                                                         *)
(* Three locks meet here.  The session lock covers admission, registration *)
(* and the loop's peek-and-dequeue; the queue's own mutex covers each      *)
(* queue call; the registry covers the slot.  What the code does without   *)
(* the session lock (the end of a run, a user's removal or promotion of a  *)
(* queued message, the exit of a loop) falls between the steps of those    *)
(* that hold it.                                                           *)
(*                                                                         *)
(* A message is a member of Messages, whatever its text.  The slot is      *)
(* RunSlot's.  A turn has one id here, where the code has two: it          *)
(* registers under one and builds under another.  An entry of the first id *)
(* is there only until the turn has built, so Finish means the same with   *)
(* one; where a panic makes a difference, Panic and PanicTaken say so.     *)
(* RunRegistry has both ids, and the durable resume, which is not here.    *)
(***************************************************************************)
EXTENDS RunSlot, SequencesExt

CONSTANTS Messages,      (* the messages users and systems send            *)
          KindOf,        (* how each is sent                               *)
          RestoredRows,  (* the messages found in the store at start-up    *)
          Removable,     (* the queued messages a user may take back       *)
          Promotable,    (* the queued messages a user may "send now"      *)
          Stoppable,     (* the turns somebody may cancel meanwhile        *)
          Workers,       (* goroutines of processPendingQueue              *)
          Poison,        (* the messages whose turn may panic              *)
          MaxPending,    (* MaxPendingPerSession                           *)
          MaxDepth       (* maxPendingQueueDepth                           *)

(* direct: a chat turn, Execute.  auto, followup, inject: the levels of    *)
(* EnqueueUserMessageWithKind.                                             *)
Kinds == {"direct", "auto", "followup", "inject"}

(* The stored rows are those of a queue that kept its limit, one a message *)
(* (their primary key is the session and the message).                     *)
ASSUME DrainAssumption ==
  /\ KindOf \in [Messages -> Kinds]
  /\ RestoredRows \in Seq(Messages) /\ Len(RestoredRows) <= MaxPending
  /\ \A i, j \in DOMAIN RestoredRows : RestoredRows[i] = RestoredRows[j] => i = j
  /\ Removable \cup Promotable \cup Poison \subseteq Messages
  /\ Stoppable \subseteq Messages \cup Workers
  /\ Messages \cap Workers = {}
  /\ MaxPending \in Nat \ {0} /\ MaxDepth \in Nat \ {0}
  /\ NoTurn \notin Messages \cup Workers /\ NoRun \notin Messages \cup Workers

Owners == Messages \cup Workers

VARIABLES queue,     (* PendingMessageQueue.queues[session]                *)
          restored,  (* the session is in PendingMessageQueue.restored     *)
          slot,      (* the session's registry entry                       *)
          forced,    (* history: a Cancel removed the entry of a live run  *)
          lock,      (* who holds the session lock, NoTurn if nobody       *)
          loop,      (* the session is in pendingLoops                     *)
          pc,        (* where each message's sender is                     *)
          wpc,       (* where each loop goroutine is                       *)
          depth,     (* its iterations                                     *)
          lead,      (* leading injects it has still to take               *)
          load,      (* the messages in the input of the turn at hand      *)
          ipc,       (* where each "send now" call is                      *)
          served,    (* messages whose turn has run                        *)
          dlq,       (* messages whose turn failed: the dead letters       *)
          crashed,   (* messages whose turn panicked: in the log only      *)
          removed    (* messages their user took back                      *)

queueVars == <<queue, restored>>
fateVars  == <<served, dlq, crashed, removed>>
loopVars  == <<loop, wpc, depth, lead>>
slotVars == <<slot, forced>>
vars == <<queueVars, slotVars, lock, loopVars, pc, load, ipc, fateVars>>

Dispatchable(e) == e.kind # "inject"

Followups == {m \in Messages : KindOf[m] # "inject"}

Queued(m) == \E i \in DOMAIN queue : m \in queue[i].msgs

At(m) == SelectInSeq(queue, LAMBDA e : e.id = m)

(* SplitLeadingInjects: the position of the first followup, 0 if none.     *)
FirstFollowup == SelectInSeq(queue, Dispatchable)

(* Every queue call that takes entries out drops the restored mark with    *)
(* the last of them.                                                       *)
ShrinkTo(q) ==
  /\ queue' = q
  /\ restored' = (restored /\ q # <<>>)

Free == lock = NoTurn

(* The owners whose turn is under way, from registration to Finish.        *)
Running ==
  {m \in Messages : pc[m] \in {"building", "executing"}} \cup
  {w \in Workers : wpc[w] \in {"building", "executing"}}

-----------------------------------------------------------------------------
Init ==
  /\ queue = [i \in DOMAIN RestoredRows |->
                [id |-> RestoredRows[i], msgs |-> {RestoredRows[i]},
                 kind |-> KindOf[RestoredRows[i]]]]
  /\ restored = (RestoredRows # <<>>)
  /\ slot = Vacant /\ forced = FALSE
  /\ lock = NoTurn
  /\ loop = FALSE
  /\ pc = [m \in Messages |-> IF m \in ToSet(RestoredRows) THEN "queued" ELSE "unsent"]
  /\ wpc = [w \in Workers |-> "idle"]
  /\ depth = [w \in Workers |-> 0]
  /\ lead = [w \in Workers |-> 0]
  /\ load = [o \in Owners |-> {}]
  /\ ipc = [m \in Messages |-> "none"]
  /\ served = {} /\ dlq = {} /\ crashed = {} /\ removed = {}

Goto(m, l)  == pc'  = [pc EXCEPT ![m] = l]
WGoto(w, l) == wpc' = [wpc EXCEPT ![w] = l]

StartLoop ==
  /\ loop' = TRUE
  /\ \E w \in Workers : wpc[w] = "idle" /\ WGoto(w, "top")
                        /\ depth' = [depth EXCEPT ![w] = 0]
  /\ UNCHANGED lead

(* Mutated form: no single-flight flag.                                    *)
ProcessPendingQueueAlways == StartLoop

(* processPendingQueue: LoadOrStore, and a goroutine unless the session    *)
(* has one already.                                                        *)
ProcessPendingQueue ==
  \/ loop /\ UNCHANGED loopVars
  \/ ~loop /\ StartLoop

(* It does nothing on an empty queue, and returns without a word when the  *)
(* session or its agent cannot be read.                                    *)
TriggerPendingDrainFromIdle ==
  \/ queue # <<>> /\ ProcessPendingQueue
  \/ UNCHANGED loopVars

-----------------------------------------------------------------------------
(* Execute: what a chat turn does before it takes the session lock.        *)

CheckActive(m) ==
  /\ pc[m] = "unsent" /\ KindOf[m] = "direct"
  /\ Goto(m, IF Busy(slot) THEN "busy" ELSE "free")
  /\ UNCHANGED <<queueVars, slotVars, lock, loopVars, load, ipc, fateVars>>

(* The session was free: a restored queue goes first.                      *)
CheckRestored(m) ==
  /\ pc[m] = "free"
  /\ Goto(m, IF restored THEN "force" ELSE "admitted")
  /\ UNCHANGED <<queueVars, slotVars, lock, loopVars, load, ipc, fateVars>>

HasActiveRunner == slot.present /\ slot.runner # NoTurn

(* The session was busy: a run that has no runner yet sends the caller     *)
(* away (reject_busy_queue), unless the session's context is under         *)
(* pressure, which the policy looks at first.                              *)
CheckPolicy(m) ==
  /\ pc[m] = "busy"
  /\ \/ Goto(m, "gate")
     \/ ~HasActiveRunner /\ Goto(m, "rejected")
  /\ UNCHANGED <<queueVars, slotVars, lock, loopVars, load, ipc, fateVars>>

(* AdmissionGate.Check reads the registry again, under the session lock.   *)
GateCheck(m) ==
  /\ pc[m] = "gate" /\ Free
  /\ Goto(m, IF ~Busy(slot) THEN "admitted"
             ELSE IF HasActiveRunner THEN "enqueue" ELSE "rejected")
  /\ UNCHANGED <<queueVars, slotVars, lock, loopVars, load, ipc, fateVars>>

-----------------------------------------------------------------------------
(* enqueueWithKind, all of it under the session lock.                      *)

Entry(m, S, k) == [id |-> m, msgs |-> S, kind |-> k]

(* Mutated form: no limit.                                                 *)
EnqueueInjectUncapped(m) ==
  /\ pc[m] = "unsent" /\ KindOf[m] = "inject" /\ Free
  /\ Goto(m, "queued") /\ queue' = Append(queue, Entry(m, {m}, "inject"))
  /\ UNCHANGED <<restored, slotVars, lock, loopVars, load, ipc, fateVars>>

EnqueueInject(m) ==
  /\ pc[m] = "unsent" /\ KindOf[m] = "inject" /\ Free
  /\ IF Len(queue) >= MaxPending
       THEN Goto(m, "rejected") /\ UNCHANGED queue
       ELSE Goto(m, "queued") /\ queue' = Append(queue, Entry(m, {m}, "inject"))
  /\ UNCHANGED <<restored, slotVars, lock, loopVars, load, ipc, fateVars>>

(* No active run: refused, unless a restored queue forces it in.           *)
EnqueueLook(m) ==
  /\ \/ pc[m] = "unsent" /\ KindOf[m] \in {"auto", "followup"}
     \/ pc[m] \in {"enqueue", "force"}
  /\ Free
  /\ IF Busy(slot) \/ pc[m] = "force"
       THEN lock' = m /\ Goto(m, IF pc[m] = "force" THEN "forcing" ELSE "looked")
       ELSE Goto(m, "rejected") /\ UNCHANGED lock
  /\ UNCHANGED <<queueVars, slotVars, loopVars, load, ipc, fateVars>>

(* The message goes to the active runner instead of the queue, or the      *)
(* runner's error goes to the sender.                                      *)
Steer(m) ==
  /\ pc[m] = "looked" /\ KindOf[m] # "followup"
  /\ Len(queue) < MaxPending
  /\ HasActiveRunner
  /\ Goto(m, "steered") \/ Goto(m, "rejected")
  /\ lock' = NoTurn
  /\ UNCHANGED <<queueVars, slotVars, loopVars, load, ipc, fateVars>>

EnqueueAppend(m) ==
  /\ pc[m] \in {"looked", "forcing"}
  /\ Len(queue) < MaxPending
  /\ queue' = Append(queue, Entry(m, {m}, "followup"))
  /\ Goto(m, IF pc[m] = "forcing" THEN "forced" ELSE "queued") /\ lock' = NoTurn
  /\ UNCHANGED <<restored, slotVars, loopVars, load, ipc, fateVars>>

(* The session merges follow-ups: the message joins the last entry, which  *)
(* becomes a followup whatever it was.                                     *)
EnqueueMerge(m) ==
  /\ pc[m] = "looked"
  /\ Len(queue) \in 1 .. MaxPending - 1
  /\ queue' = [queue EXCEPT ![Len(queue)] =
                 Entry(@.id, @.msgs \cup {m}, "followup")]
  /\ Goto(m, "queued") /\ lock' = NoTurn
  /\ UNCHANGED <<restored, slotVars, loopVars, load, ipc, fateVars>>

(* A queue of nothing but injects is flushed, and they ride in on the      *)
(* message.                                                                *)
RescueFullInjectQueue(m) ==
  /\ queue' = <<Entry(m, {m} \cup UNION {e.msgs : e \in ToSet(queue)}, "followup")>>
  /\ restored' = FALSE

(* The queue is full: the message is refused, or rescues it.               *)
EnqueueFull(m) ==
  /\ pc[m] \in {"looked", "forcing"}
  /\ Len(queue) >= MaxPending
  /\ IF FirstFollowup # 0
       THEN Goto(m, "rejected") /\ UNCHANGED queueVars
       ELSE /\ RescueFullInjectQueue(m)
            /\ Goto(m, IF pc[m] = "forcing" THEN "forced" ELSE "queued")
  /\ lock' = NoTurn
  /\ UNCHANGED <<slotVars, loopVars, load, ipc, fateVars>>

(* The message that was forced in starts the drain.                        *)
ForceTrigger(m) ==
  /\ pc[m] = "forced"
  /\ TriggerPendingDrainFromIdle
  /\ Goto(m, "queued")
  /\ UNCHANGED <<queueVars, slotVars, lock, load, ipc, fateVars>>

-----------------------------------------------------------------------------
(* runNativeAgentTurnBody: the chat turn itself.                           *)

(* Mutated form: the whole queue is taken out.                             *)
ConsumeWholeQueue(m) ==
  /\ load' = [load EXCEPT ![m] = {m} \cup UNION {e.msgs : e \in
                 {e \in ToSet(queue) : ~Dispatchable(e)}}]
  /\ ShrinkTo(<<>>)

(* Mutated form: what is returned stays queued.                            *)
PeekLeadingInjects(m) ==
  /\ load' = [load EXCEPT ![m] = {m} \cup UNION {e.msgs : e \in
                 {e \in ToSet(queue) : ~Dispatchable(e)}}]
  /\ UNCHANGED queueVars

(* DequeueLeadingInjects, in one section of the queue's mutex.             *)
ConsumeLeadingInjects(m) ==
  LET n == IF FirstFollowup = 0 THEN Len(queue) ELSE FirstFollowup - 1
  IN  /\ load' = [load EXCEPT ![m] = {m} \cup UNION {queue[i].msgs : i \in 1 .. n}]
      /\ ShrinkTo(SubSeq(queue, n + 1, Len(queue)))

(* The session cannot be read, or the caller leaves while it waits for its *)
(* lane or for the session lock.                                           *)
GiveUp(m) ==
  /\ pc[m] = "admitted"
  /\ Goto(m, "rejected")
  /\ UNCHANGED <<queueVars, slotVars, lock, loopVars, load, ipc, fateVars>>

(* Mutated form: no second look at the registry.                           *)
LockNoRecheck(m) ==
  /\ pc[m] = "admitted" /\ Free
  /\ lock' = m /\ Goto(m, "locked") /\ ConsumeLeadingInjects(m)
  /\ UNCHANGED <<slotVars, loopVars, ipc, fateVars>>

(* Under the session lock: look again, then take the waiting injects.      *)
Lock(m) ==
  /\ pc[m] = "admitted" /\ Free
  /\ IF Busy(slot)
       THEN Goto(m, "rejected") /\ UNCHANGED <<queueVars, lock, load>>
       ELSE lock' = m /\ Goto(m, "locked") /\ ConsumeLeadingInjects(m)
  /\ UNCHANGED <<slotVars, loopVars, ipc, fateVars>>

(* Foreign session, no agent, quota: an error after the injects were       *)
(* taken.                                                                  *)
RejectLocked(m) ==
  /\ pc[m] = "locked"
  /\ lock' = NoTurn /\ Goto(m, "rejected")
  /\ load' = [load EXCEPT ![m] = {}]
  /\ UNCHANGED <<queueVars, slotVars, loopVars, ipc, fateVars>>

(* StoreCancelable, then unlock.                                           *)
Register(m) ==
  /\ pc[m] = "locked"
  /\ slot' = StoreCancelable(slot, m, m)
  /\ lock' = NoTurn /\ Goto(m, "building")
  /\ UNCHANGED <<forced, queueVars, loopVars, load, ipc, fateVars>>

(* StoreRunner, the end of the BUILD phase.                                *)
Build(m) ==
  /\ pc[m] = "building"
  /\ slot' = StoreRunner(slot, m, m) /\ Goto(m, "executing")
  /\ UNCHANGED <<forced, queueVars, lock, loopVars, load, ipc, fateVars>>

Finish(o) ==
  /\ slot' = IF FinishMatches(slot, o) THEN Vacant ELSE slot
  /\ UNCHANGED forced

(* The run is over, completed or failed: Finish comes first.               *)
End(m) ==
  /\ pc[m] \in {"building", "executing"}
  /\ Finish(m) /\ Goto(m, "ended")
  /\ served' = served \cup load[m] /\ load' = [load EXCEPT ![m] = {}]
  /\ UNCHANGED <<queueVars, lock, loopVars, ipc, dlq, crashed, removed>>

(* The turn panics.  Before it has built, the registration's defer         *)
(* finishes the run, and nobody drains the queue; once the EXECUTE defer   *)
(* is there it does both.  In between the registration's id is no longer   *)
(* the entry's: the slot stays taken.                                      *)
Panic(m) ==
  /\ pc[m] \in {"building", "executing"} /\ load[m] \cap Poison # {}
  /\ \/ pc[m] = "building" /\ Finish(m) /\ Goto(m, "over")
     \/ pc[m] = "executing" /\ Finish(m) /\ Goto(m, "ended")
     \/ pc[m] = "executing" /\ UNCHANGED slotVars /\ Goto(m, "over")
  /\ crashed' = crashed \cup load[m]
  /\ load' = [load EXCEPT ![m] = {}]
  /\ UNCHANGED <<queueVars, lock, loopVars, ipc, served, dlq, removed>>

(* After a run that ended the queue is drained.                            *)
Trigger(m) ==
  /\ pc[m] = "ended"
  /\ ProcessPendingQueue
  /\ Goto(m, "over")
  /\ UNCHANGED <<queueVars, slotVars, lock, load, ipc, fateVars>>

-----------------------------------------------------------------------------
(* The loop of processPendingQueue.                                        *)

(* An iteration starts: under the session lock, see what is queued and     *)
(* whether a run is active.                                                *)
Peek(w) ==
  /\ wpc[w] = "top" /\ Free
  /\ IF FirstFollowup = 0 \/ Busy(slot)
       THEN WGoto(w, "leaving") /\ UNCHANGED <<lock, lead>>
       ELSE /\ lock' = w /\ WGoto(w, "taking")
            /\ lead' = [lead EXCEPT ![w] = FirstFollowup - 1]
  /\ UNCHANGED <<queueVars, slotVars, loop, depth, pc, load, ipc, fateVars>>

(* One Dequeue of a leading inject.                                        *)
TakeInject(w) ==
  /\ wpc[w] = "taking" /\ queue # <<>>
  /\ lead[w] > 0 /\ ~Dispatchable(Head(queue))
  /\ load' = [load EXCEPT ![w] = @ \cup Head(queue).msgs]
  /\ lead' = [lead EXCEPT ![w] = @ - 1]
  /\ ShrinkTo(Tail(queue))
  /\ UNCHANGED <<slotVars, lock, loop, wpc, depth, pc, ipc, fateVars>>

(* The Dequeue of the entry to dispatch: whatever heads the queue once     *)
(* the injects seen by Peek are taken.                                     *)
TakeEntry(w) ==
  /\ wpc[w] = "taking" /\ queue # <<>>
  /\ lead[w] = 0 \/ Dispatchable(Head(queue))
  /\ load' = [load EXCEPT ![w] = @ \cup Head(queue).msgs]
  /\ lead' = [lead EXCEPT ![w] = 0]
  /\ ShrinkTo(Tail(queue))
  /\ WGoto(w, "taken")
  /\ UNCHANGED <<slotVars, lock, loop, depth, pc, ipc, fateVars>>

(* Registration before unlock.                                             *)
RegisterTaken(w) ==
  /\ wpc[w] = "taken"
  /\ slot' = StoreCancelable(slot, w, w)
  /\ lock' = NoTurn /\ WGoto(w, "building")
  /\ UNCHANGED <<forced, queueVars, loop, depth, lead, pc, load, ipc, fateVars>>

(* The queue ran empty under the loop: it warns and returns, with the      *)
(* injects it had collected.                                               *)
TakeNothing(w) ==
  /\ wpc[w] = "taking" /\ queue = <<>>
  /\ load' = [load EXCEPT ![w] = {}]
  /\ lead' = [lead EXCEPT ![w] = 0]
  /\ lock' = NoTurn /\ WGoto(w, "leaving")
  /\ UNCHANGED <<queueVars, slotVars, loop, depth, pc, ipc, fateVars>>

BuildTaken(w) ==
  /\ wpc[w] = "building"
  /\ slot' = StoreRunner(slot, w, w) /\ WGoto(w, "executing")
  /\ UNCHANGED <<forced, queueVars, lock, loop, depth, lead, pc, load, ipc, fateVars>>

(* The iteration's turn is over: Finish, a dead letter if it failed, and   *)
(* the next iteration, unless the depth cap is reached.                    *)
EndTaken(w) ==
  /\ wpc[w] \in {"building", "executing"}
  /\ Finish(w)
  /\ \/ served' = served \cup load[w] /\ UNCHANGED dlq
     \/ dlq' = dlq \cup load[w] /\ UNCHANGED served
  /\ load' = [load EXCEPT ![w] = {}]
  /\ depth' = [depth EXCEPT ![w] = @ + 1]
  /\ WGoto(w, IF depth[w] + 1 < MaxDepth THEN "top" ELSE "capped")
  /\ UNCHANGED <<queueVars, lock, loop, lead, pc, ipc, crashed, removed>>

(* The turn panics; nobody files a dead letter.  Before it has built, the  *)
(* loop's deferred function finishes the run, after it has deleted the     *)
(* loop's flag; under the EXECUTE defer the turn does.  In between nobody  *)
(* can: the loop knows the registration's id only.                         *)
PanicTaken(w) ==
  /\ wpc[w] \in {"building", "executing"} /\ load[w] \cap Poison # {}
  /\ \/ wpc[w] = "building" /\ UNCHANGED slotVars /\ WGoto(w, "panicked")
     \/ wpc[w] = "executing" /\ Finish(w) /\ WGoto(w, "panicked")
     \/ wpc[w] = "executing" /\ UNCHANGED slotVars /\ WGoto(w, "stuck")
  /\ crashed' = crashed \cup load[w]
  /\ load' = [load EXCEPT ![w] = {}]
  /\ UNCHANGED <<queueVars, lock, loop, depth, lead, pc, ipc, served, dlq, removed>>

DeleteFlag(w) ==
  /\ wpc[w] \in {"leaving", "capped", "panicked", "stuck"}
  /\ loop' = FALSE
  /\ WGoto(w, CASE wpc[w] \in {"leaving", "stuck"} -> "left"
                [] wpc[w] = "capped"   -> "idle"
                [] wpc[w] = "panicked" -> "recovering")
  /\ UNCHANGED <<queueVars, slotVars, lock, depth, lead, pc, load, ipc, fateVars>>

Recover(w) ==
  /\ wpc[w] = "recovering"
  /\ Finish(w) /\ WGoto(w, "left")
  /\ UNCHANGED <<queueVars, lock, loop, depth, lead, pc, load, ipc, fateVars>>

(* Mutated form: no look at the queue after the flag is gone.              *)
ExitNow(w) ==
  /\ wpc[w] = "left"
  /\ WGoto(w, "idle")
  /\ UNCHANGED <<queueVars, slotVars, lock, loop, depth, lead, pc, load, ipc, fateVars>>

(* Triggers were merged while the loop lived: without the session lock,    *)
(* look for an active run, then for something to dispatch, and start over. *)
ExitCheckActive(w) ==
  /\ wpc[w] = "left"
  /\ WGoto(w, IF Busy(slot) THEN "idle" ELSE "unserved")
  /\ UNCHANGED <<queueVars, slotVars, lock, loop, depth, lead, pc, load, ipc, fateVars>>

ExitRelaunch(w) ==
  /\ wpc[w] = "unserved"
  /\ IF FirstFollowup # 0 /\ ~loop
       THEN loop' = TRUE /\ WGoto(w, "top") /\ depth' = [depth EXCEPT ![w] = 0]
       ELSE WGoto(w, "idle") /\ UNCHANGED <<loop, depth>>
  /\ UNCHANGED <<queueVars, slotVars, lock, lead, pc, load, ipc, fateVars>>

-----------------------------------------------------------------------------
(* What a user does to the queue, without the session lock.                *)

CancelPendingMessage(m) ==
  /\ m \in Removable /\ At(m) # 0
  /\ removed' = removed \cup queue[At(m)].msgs
  /\ ShrinkTo(RemoveAt(queue, At(m)))
  /\ UNCHANGED <<slotVars, lock, loopVars, pc, load, ipc, served, dlq, crashed>>

(* InterruptAndSendMessage                                                 *)
Promote(m) ==
  /\ m \in Promotable /\ ipc[m] = "none" /\ At(m) # 0
  /\ queue' = <<queue[At(m)]>> \o RemoveAt(queue, At(m))
  /\ ipc' = [ipc EXCEPT ![m] = "promoted"]
  /\ UNCHANGED <<restored, slotVars, lock, loopVars, pc, load, fateVars>>

(* RunRegistry.Cancel: the run's context or its runner is cancelled and    *)
(* its entry stays, marked, until its Finish; an entry that is marked      *)
(* already is removed by force, as is one whose runner can only be closed. *)
(* (An entry without cancel func and runner, which only a resume leaves,   *)
(* is not in this model.)                                                  *)
Cancel ==
  \/ ~Busy(slot) /\ UNCHANGED slotVars
  \/ /\ Busy(slot) /\ ~slot.cancelling
     /\ slot' = MarkCancelling(slot, slot.run) /\ UNCHANGED forced
  \/ /\ Busy(slot) /\ (slot.cancelling \/ slot.cancel = NoTurn)
     /\ slot' = Vacant /\ forced' = (forced \/ slot.run \in Running)

(* A user stops or pauses the run, or the stuck-run sweep cancels it.      *)
CancelRun ==
  /\ slot.run \in Stoppable
  /\ Cancel
  /\ UNCHANGED <<queueVars, lock, loopVars, pc, load, ipc, fateVars>>

(* SetPriority fails if the entry is gone; otherwise the run is cancelled. *)
InterruptCancel(m) ==
  /\ ipc[m] = "promoted"
  /\ IF At(m) = 0
       THEN ipc' = [ipc EXCEPT ![m] = "over"] /\ UNCHANGED slotVars
       ELSE ipc' = [ipc EXCEPT ![m] = "cancelled"] /\ Cancel
  /\ UNCHANGED <<queueVars, lock, loopVars, pc, load, fateVars>>

InterruptLook(m) ==
  /\ ipc[m] = "cancelled"
  /\ ipc' = [ipc EXCEPT ![m] = IF Busy(slot) THEN "over" ELSE "idle"]
  /\ UNCHANGED <<queueVars, slotVars, lock, loopVars, pc, load, fateVars>>

InterruptTrigger(m) ==
  /\ ipc[m] = "idle"
  /\ ipc' = [ipc EXCEPT ![m] = "over"]
  /\ TriggerPendingDrainFromIdle
  /\ UNCHANGED <<queueVars, slotVars, lock, pc, load, fateVars>>

-----------------------------------------------------------------------------
(* A sender decides when to send; from then on its call goes on.           *)
Send(m) == CheckActive(m) \/ EnqueueInject(m)

Call(m) ==
  \/ CheckRestored(m) \/ CheckPolicy(m) \/ GateCheck(m)
  \/ EnqueueLook(m) \/ Steer(m) \/ EnqueueAppend(m) \/ EnqueueMerge(m)
  \/ EnqueueFull(m) \/ ForceTrigger(m)
  \/ GiveUp(m) \/ Lock(m) \/ RejectLocked(m) \/ Register(m) \/ Trigger(m)

(* The turn itself takes the time it takes.                                *)
Turn(m) == Build(m) \/ End(m) \/ Panic(m)

Loop(w) ==
  \/ Peek(w) \/ TakeInject(w) \/ TakeEntry(w) \/ RegisterTaken(w) \/ TakeNothing(w)
  \/ DeleteFlag(w) \/ Recover(w) \/ ExitCheckActive(w) \/ ExitRelaunch(w)

TurnTaken(w) == BuildTaken(w) \/ EndTaken(w) \/ PanicTaken(w)

Interrupt(m) == InterruptCancel(m) \/ InterruptLook(m) \/ InterruptTrigger(m)

Next ==
  \/ \E m \in Messages : \/ Send(m) \/ Call(m) \/ Turn(m)
                          \/ CancelPendingMessage(m) \/ Promote(m) \/ Interrupt(m)
  \/ \E w \in Workers : Loop(w) \/ TurnTaken(w)
  \/ CancelRun

Spec == Init /\ [][Next]_vars

(* Goroutines are scheduled.  A mutex that is free again and again while   *)
(* finitely many others use it is obtained.  No turn has to end: there is  *)
(* no timeout (conf/runtime_helpers.go:11-14).                             *)
LiveSpec ==
  /\ Spec
  /\ \A m \in Followups : WF_vars(pc[m] # "unsent" /\ Call(m))
  /\ \A w \in Workers : WF_vars(Loop(w))

-----------------------------------------------------------------------------
TypeOK ==
  /\ queue \in Seq([id : Messages, msgs : SUBSET Messages, kind : Kinds])
  /\ Len(queue) <= MaxPending
  /\ restored \in BOOLEAN /\ loop \in BOOLEAN /\ forced \in BOOLEAN
  /\ slot \in [present : BOOLEAN, run : Owners \cup {NoRun},
               runner : Owners \cup {NoTurn}, cancel : Owners \cup {NoTurn},
               placeholder : BOOLEAN, cancelling : BOOLEAN, cancelIntent : BOOLEAN]
  /\ lock \in Owners \cup {NoTurn}
  /\ pc \in [Messages -> {"unsent", "free", "busy", "gate", "force", "enqueue", "looked",
                          "forcing", "forced", "queued", "steered", "rejected",
                          "admitted", "locked", "building", "executing", "ended", "over"}]
  /\ wpc \in [Workers -> {"idle", "top", "taking", "taken", "building", "executing",
                          "panicked", "recovering", "stuck", "capped", "leaving",
                          "left", "unserved"}]
  /\ depth \in [Workers -> 0 .. MaxDepth]
  /\ lead \in [Workers -> 0 .. MaxPending]
  /\ load \in [Owners -> SUBSET Messages]
  /\ ipc \in [Messages -> {"none", "promoted", "cancelled", "idle", "over"}]
  /\ served \subseteq Messages /\ dlq \subseteq Messages
  /\ crashed \subseteq Messages /\ removed \subseteq Messages

(* A session runs one turn at a time, whether it came through Execute or   *)
(* out of the queue: admission looks before the lock, the turn and the     *)
(* loop look again under it, both register before they unlock, and a run   *)
(* that is cancelled keeps its entry (chat_orchestrator_turn.go:179-192,   *)
(* turn_dispatch.go:300-303, run_registry.go:388-391).  The exception is   *)
(* the valve: who cancels a cancelled run again lets the next turn start   *)
(* beside it (run_registry.go:366-380).                                    *)
OneTurnAtATime == ~forced => Cardinality(Running) <= 1

(* At most one goroutine is between LoadOrStore and the deletion of its    *)
(* flag, whatever merges, panics and restarts itself on the way out        *)
(* (turn_dispatch.go:298-300).                                             *)
SingleFlight ==
  Cardinality({w \in Workers : wpc[w] \notin {"idle", "recovering", "left", "unserved"}}) <= 1

(* How many places know of m: queue entries, turns at hand, and the ways a *)
(* message leaves for good.                                                *)
Places(m) ==
  Cardinality({i \in DOMAIN queue : m \in queue[i].msgs})
  + Cardinality({o \in Owners : m \in load[o]})
  + Cardinality({S \in {<<1, served>>, <<2, dlq>>, <<3, crashed>>, <<4, removed>>} : m \in S[2]})

(* A follow-up its sender was told is queued is in exactly one place until *)
(* it has been run, dead-lettered, taken back or lost to a panic: merging, *)
(* flushing, promoting, removing and dequeuing race under different locks  *)
(* (pending_queue.go:285-289, turn_dispatch.go:392-395).                   *)
FollowupsNeverVanish ==
  \A m \in Followups : pc[m] \in {"forced", "queued"} => Places(m) = 1

(* An inject may go with a turn that is refused, but it is never given to  *)
(* two turns.                                                              *)
NoDoubleDelivery == \A m \in Messages : Places(m) <= 1

(* Some entry that could be dispatched waits, and was not left over by a   *)
(* restart.                                                                *)
Waiting ==
  \E i \in DOMAIN queue : Dispatchable(queue[i]) /\ queue[i].id \notin ToSet(RestoredRows)

(* Somebody will look at the queue again: a run that has still to end, a   *)
(* drain that has still to start, or a loop.                               *)
Driven ==
  \/ Running # {}
  \/ \E m \in Messages : pc[m] \in {"forced", "ended", "admitted", "locked"}
  \/ \E w \in Workers : wpc[w] # "idle"

(* A queued follow-up always has somebody to serve it: when a trigger was  *)
(* merged into a loop that is leaving, the loop takes over                 *)
(* (turn_dispatch.go:335-337).                                             *)
QueueIsDriven == Waiting => Driven

(* A panic between StoreRunner and the EXECUTE defer left the slot taken   *)
(* for nobody: not for a turn, nor for one its loop is about to finish.    *)
Orphaned ==
  /\ slot.present /\ slot.run \notin Running
  /\ \A w \in Workers : slot.run = w => wpc[w] \notin {"panicked", "recovering"}

(* What the code cannot promise: every turn ends, by itself or because it  *)
(* was cancelled.                                                          *)
TurnsEnd == \A o \in Owners : []<>(o \notin Running)

(* Provided that turns end, a turn that ends serves the queue: whatever    *)
(* could be dispatched then leaves the queue, unless a loop reaches its    *)
(* depth cap or a panic orphans the slot first                             *)
(* (turn_dispatch.go:335-337).                                             *)
EndServesQueue ==
  TurnsEnd =>
    \A m \in Followups :
       ((\E i \in DOMAIN queue : Dispatchable(queue[i]) /\ m \in queue[i].msgs)
          /\ \E d \in Messages : pc[d] = "ended")
         ~> (~Queued(m) \/ Orphaned \/ \E w \in Workers : wpc[w] = "capped")

-----------------------------------------------------------------------------
(* An owner has looked and is about to register, or its turn is under way. *)
Phase ==
  [o \in Owners |-> LET l == IF o \in Messages THEN pc[o] ELSE wpc[o]
                    IN  CASE l \in {"locked", "taking", "taken"}  -> "taking"
                          [] l \in {"building", "executing"}     -> "running"
                          [] OTHER                               -> "none"]

Waits == {x \in Messages : Queued(x)}

(* A chat turn's own message is its sender's until the turn runs.          *)
InTurn == [o \in Owners |-> IF o \in Messages /\ pc[o] = "locked" THEN load[o] \ {o}
                                                                 ELSE load[o]]

Session == INSTANCE SessionQueue WITH
  Turns <- Owners, Restored <- ToSet(RestoredRows),
  phase <- Phase, waiting <- Waits, serving <- InTurn

(* All of it together is a queue that serves each message once, in turns   *)
(* that exclude each other from the first dequeue to Finish unless a run   *)
(* was removed by force, and in which only an inject can get lost: three   *)
(* mutexes and a flag, with removals, promotions, cancels and rescues      *)
(* between their sections, implement it (pending_queue.go:285-289,         *)
(* turn_dispatch.go:298-303, :392-395).                                    *)
ImplementsSession == Session!QueueSpec
=============================================================================
