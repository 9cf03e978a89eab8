---------------------------- MODULE LaneScheduler ----------------------------
(***************************************************************************)
(* The process-wide lane gate of the turn runtime                          *)
(* (internal/runtime/lane.go).  Every turn acquires a slot of its lane     *)
(* before it takes its session's lock and releases it when it returns.     *)
(*                                                                         *)
(* Everything done under LaneScheduler.mu is one action; the code outside  *)
(* it is a step of its own, so that a release can fall between a waiter's  *)
(* select, its dropWaiter, the drain of its channel and the hand-over of   *)
(* the wake-up it had been sent.                                           *)
(***************************************************************************)
EXTENDS SequencesExt

CONSTANTS Turns,       (* the goroutines that run turns                    *)
          EntryOf,     (* the entry point each of them comes through       *)
          TeamOwned,   (* whether its session is owned by a team           *)
          Limit        (* LaneLimits: max in-flight turns per lane         *)

Lanes == {"main", "cron", "team", "durable"}

(* EntryPointCron, EntryPointDurable and all the others.                   *)
EntryPoints == {"cron", "durable", "web"}

ASSUME LaneAssumption ==
  /\ IsFiniteSet(Turns)
  /\ EntryOf \in [Turns -> EntryPoints]
  /\ TeamOwned \in [Turns -> BOOLEAN]
  /\ Limit \in [Lanes -> Int]

VARIABLES active,   (* LaneScheduler.active                                *)
          wait,     (* LaneScheduler.wait: a FIFO queue of waiters per     *)
                    (* lane.  A turn has at most one live waiter, so a     *)
                    (* waiter is named by its turn.                        *)
          pc,       (* where the turn is in Acquire                        *)
          ch,       (* laneWaiter.ch holds a signal (buffer of one)        *)
          dropped,  (* laneWaiter.dropped                                  *)
          ctxDone   (* the turn's context is cancelled                     *)

vars == <<active, wait, pc, ch, dropped, ctxDone>>

(* TurnLaneFromEntry: cron and durable turns have lanes of their own,      *)
(* whatever owns the session.                                              *)
TurnLaneFromEntry(t) ==
  CASE EntryOf[t] = "cron"    -> "cron"
    [] EntryOf[t] = "durable" -> "durable"
    [] OTHER                  -> IF TeamOwned[t] THEN "team" ELSE "main"

Limited(l) == Limit[l] > 0

-----------------------------------------------------------------------------
(* The effect of signalNextLocked on the queue q of one lane: pop the      *)
(* waiters at its head up to and including the first one that is not       *)
(* dropped and whose channel is empty, and send to that one.               *)

Signallable(q) == {i \in DOMAIN q : ~dropped[q[i]] /\ ~ch[q[i]]}

SignalNextLocked(l) ==
  LET S == Signallable(wait[l])
  IN  IF S = {}
        THEN /\ wait' = [wait EXCEPT ![l] = <<>>]
             /\ UNCHANGED ch
        ELSE /\ wait' = [wait EXCEPT ![l] = SubSeq(@, Min(S) + 1, Len(@))]
             /\ ch'   = [ch EXCEPT ![wait[l][Min(S)]] = TRUE]

-----------------------------------------------------------------------------
Init ==
  /\ active  = [l \in Lanes |-> 0]
  /\ wait    = [l \in Lanes |-> <<>>]
  /\ pc      = [t \in Turns |-> "idle"]
  /\ ch      = [t \in Turns |-> FALSE]
  /\ dropped = [t \in Turns |-> FALSE]
  /\ ctxDone = [t \in Turns |-> FALSE]

(* A turn calls Acquire with a fresh context.                              *)
Begin(t) ==
  /\ pc[t] = "idle"
  /\ pc' = [pc EXCEPT ![t] = "acquire"]
  /\ UNCHANGED <<active, wait, ch, dropped, ctxDone>>

(* Acquire is about to return: nothing looks at this waiter or, in the     *)
(* gate, at this context again.                                            *)
Return(t, where) ==
  /\ pc'      = [pc EXCEPT ![t] = where]
  /\ dropped' = [dropped EXCEPT ![t] = FALSE]
  /\ ctxDone' = [ctxDone EXCEPT ![t] = FALSE]

(* The lane has no limit: Acquire returns at once and counts nothing.      *)
AcquireUnlimited(t) ==
  /\ pc[t] = "acquire"
  /\ ~Limited(TurnLaneFromEntry(t))
  /\ Return(t, "held")
  /\ UNCHANGED <<active, wait, ch>>

(* Mutated form: one slot too many.                                        *)
AcquireSlotBarging(t) ==
  LET l == TurnLaneFromEntry(t)
  IN  /\ pc[t] = "acquire"
      /\ Limited(l)
      /\ active[l] <= Limit[l]
      /\ active' = [active EXCEPT ![l] = @ + 1]
      /\ Return(t, "held")
      /\ UNCHANGED <<wait, ch>>

(* Top of the loop, with capacity left: take the slot.  A newcomer may     *)
(* take it before a waiter that was woken for it.                          *)
AcquireSlot(t) ==
  LET l == TurnLaneFromEntry(t)
  IN  /\ pc[t] = "acquire"
      /\ Limited(l)
      /\ active[l] < Limit[l]
      /\ active' = [active EXCEPT ![l] = @ + 1]
      /\ Return(t, "held")
      /\ UNCHANGED <<wait, ch>>

(* Top of the loop, lane full: queue a fresh waiter and block in select.   *)
Enqueue(t) ==
  LET l == TurnLaneFromEntry(t)
  IN  /\ pc[t] = "acquire"
      /\ Limited(l)
      /\ active[l] >= Limit[l]
      /\ wait'    = [wait EXCEPT ![l] = Append(@, t)]
      /\ ch'      = [ch EXCEPT ![t] = FALSE]
      /\ dropped' = [dropped EXCEPT ![t] = FALSE]
      /\ pc'      = [pc EXCEPT ![t] = "wait"]
      /\ UNCHANGED <<active, ctxDone>>

(* Mutated form: the woken waiter runs without a slot.                     *)
WokenRuns(t) ==
  /\ pc[t] = "wait"
  /\ ch[t]
  /\ ch' = [ch EXCEPT ![t] = FALSE]
  /\ pc' = [pc EXCEPT ![t] = "held"]
  /\ UNCHANGED <<active, wait, dropped, ctxDone>>

(* case <-w.ch: the waiter goes back to the top of the loop.               *)
Woken(t) ==
  /\ pc[t] = "wait"
  /\ ch[t]
  /\ ch' = [ch EXCEPT ![t] = FALSE]
  /\ pc' = [pc EXCEPT ![t] = "acquire"]
  /\ UNCHANGED <<active, wait, dropped, ctxDone>>

(* Mutated form: the waiter stays in the queue.                            *)
DropWaiterKeepQueued(t) ==
  /\ pc[t] = "wait"
  /\ ctxDone[t]
  /\ dropped' = [dropped EXCEPT ![t] = TRUE]
  /\ pc'      = [pc EXCEPT ![t] = "drain"]
  /\ UNCHANGED <<active, wait, ch, ctxDone>>

(* Mutated form: a cancelled waiter tries again.                           *)
DropWaiterRetry(t) ==
  /\ pc[t] = "wait"
  /\ ctxDone[t]
  /\ wait' = [wait EXCEPT ![TurnLaneFromEntry(t)] = RemoveFirst(@, t)]
  /\ pc'   = [pc EXCEPT ![t] = "acquire"]
  /\ UNCHANGED <<active, ch, dropped, ctxDone>>

(* case <-ctx.Done(): dropWaiter's critical section.  select picks either  *)
(* branch when the signal is there as well.                                *)
DropWaiter(t) ==
  LET l == TurnLaneFromEntry(t)
  IN  /\ pc[t] = "wait"
      /\ ctxDone[t]
      /\ dropped' = [dropped EXCEPT ![t] = TRUE]
      /\ wait'    = [wait EXCEPT ![l] = RemoveFirst(@, t)]
      /\ pc'      = [pc EXCEPT ![t] = "drain"]
      /\ UNCHANGED <<active, ch, ctxDone>>

(* Mutated form: the signal is swallowed.                                  *)
DrainForget(t) ==
  /\ pc[t] = "drain"
  /\ ch' = [ch EXCEPT ![t] = FALSE]
  /\ Return(t, "idle")
  /\ UNCHANGED <<active, wait>>

(* The rest of dropWaiter, after the unlock: a signal that was sent to     *)
(* this waiter is taken out and must be passed on; without one, Acquire    *)
(* returns (no-op, false).                                                 *)
Drain(t) ==
  /\ pc[t] = "drain"
  /\ ch' = [ch EXCEPT ![t] = FALSE]
  /\ Return(t, IF ch[t] THEN "handoff" ELSE "idle")
  /\ UNCHANGED <<active, wait>>

(* signalNext on behalf of the cancelled waiter, then (no-op, false).      *)
HandOff(t) ==
  /\ pc[t] = "handoff"
  /\ pc' = [pc EXCEPT ![t] = "idle"]
  /\ SignalNextLocked(TurnLaneFromEntry(t))
  /\ UNCHANGED <<active, dropped, ctxDone>>

(* Mutated form: nobody is signalled.                                      *)
ReleaseSilently(t) ==
  LET l == TurnLaneFromEntry(t)
  IN  /\ pc[t] = "held"
      /\ pc'     = [pc EXCEPT ![t] = "idle"]
      /\ active' = [active EXCEPT ![l] = IF @ > 0 THEN @ - 1 ELSE @]
      /\ UNCHANGED <<wait, ch, dropped, ctxDone>>

(* Mutated form: every lane is counted down.                               *)
ReleaseUnguarded(t) ==
  LET l == TurnLaneFromEntry(t)
  IN  /\ pc[t] = "held"
      /\ pc'     = [pc EXCEPT ![t] = "idle"]
      /\ active' = [active EXCEPT ![l] = @ - 1]
      /\ SignalNextLocked(l)
      /\ UNCHANGED <<dropped, ctxDone>>

(* The turn calls the release function Acquire returned: release(lane), or *)
(* a no-op when the lane is not limited.                                   *)
Release(t) ==
  LET l == TurnLaneFromEntry(t)
  IN  /\ pc[t] = "held"
      /\ pc' = [pc EXCEPT ![t] = "idle"]
      /\ IF Limited(l)
           THEN /\ active' = [active EXCEPT ![l] = IF @ > 0 THEN @ - 1 ELSE @]
                /\ SignalNextLocked(l)
           ELSE UNCHANGED <<active, wait, ch>>
      /\ UNCHANGED <<dropped, ctxDone>>

(* The caller's context is cancelled while Acquire may still look at it.   *)
CtxCancel(t) ==
  /\ pc[t] \in {"acquire", "wait"}
  /\ ~ctxDone[t]
  /\ ctxDone' = [ctxDone EXCEPT ![t] = TRUE]
  /\ UNCHANGED <<active, wait, pc, ch, dropped>>

(* The steps of a turn that is inside Acquire.                             *)
AcquireStep(t) ==
  \/ AcquireUnlimited(t) \/ AcquireSlot(t) \/ Enqueue(t) \/ Woken(t)
  \/ DropWaiter(t) \/ Drain(t) \/ HandOff(t)

Step(t) == Begin(t) \/ AcquireStep(t) \/ Release(t) \/ CtxCancel(t)

Next == \E t \in Turns : Step(t)

Spec == Init /\ [][Next]_vars

(* What the Go scheduler gives: a goroutine inside Acquire that can run    *)
(* does, and select, which chooses at random among the branches that are   *)
(* ready, takes one that is ready again and again.  No turn has to begin,  *)
(* to be cancelled or to end: a turn has no deadline                       *)
(* (internal/conf/runtime_helpers.go:11-14).                               *)
Fairness == \A t \in Turns : WF_vars(AcquireStep(t)) /\ SF_vars(DropWaiter(t))

FairSpec == Spec /\ Fairness

-----------------------------------------------------------------------------
PCs == {"idle", "acquire", "wait", "drain", "handoff", "held"}

(* Type correctness; the slot counter is never negative.                   *)
TypeOK ==
  /\ active  \in [Lanes -> Nat]
  /\ wait    \in [Lanes -> Seq(Turns)]
  /\ pc      \in [Turns -> PCs]
  /\ ch      \in [Turns -> BOOLEAN]
  /\ dropped \in [Turns -> BOOLEAN]
  /\ ctxDone \in [Turns -> BOOLEAN]

InLane(l) == {t \in Turns : TurnLaneFromEntry(t) = l}

Holders(l) == {t \in InLane(l) : pc[t] = "held"}

(* The slot counter of a limited lane is exactly the number of turns that  *)
(* run in it, and never exceeds the limit: no cancellation, wake-up or     *)
(* hand-over leaks a slot or frees one twice.                              *)
SlotAccounting ==
  \A l \in Lanes : Limited(l) =>
    /\ active[l] = Cardinality(Holders(l))
    /\ active[l] <= Limit[l]

(* The queue of a lane is exactly the set of turns that block in select    *)
(* and have not been sent a signal: a cancelled waiter is gone from it     *)
(* before it drains its channel, and a signalled one is never signalled    *)
(* again.                                                                  *)
QueueIsBlockedTurns ==
  \A l \in Lanes :
    /\ ToSet(wait[l]) = {t \in InLane(l) : pc[t] = "wait" /\ ~ch[t]}
    /\ \A i, j \in DOMAIN wait[l] : wait[l][i] = wait[l][j] => i = j

(* The turns of a lane that will look at its counter or signal again.      *)
Wakers(l) ==
  {t \in InLane(l) : pc[t] \in {"acquire", "handoff"} \/ ch[t]}

(* No lost wake-up: while turns are queued, every free slot has a turn     *)
(* that is on its way to take it or to hand its wake-up over -- also when  *)
(* the waiter that was signalled is cancelled at the same moment.          *)
NoLostWakeup ==
  \A l \in Lanes : (Limited(l) /\ wait[l] # <<>>) =>
    Limit[l] - active[l] <= Cardinality(Wakers(l))

(* Every turn that gets a slot gives it back.  Nothing in the gate makes   *)
(* it: this is what its callers have to bring.                             *)
HoldersRelease == \A t \in Turns : []<>(pc[t] # "held")

(* Provided that the turns that hold slots end, a queued turn does not     *)
(* stay queued: it is signalled, or it leaves because it is cancelled,     *)
(* however many newcomers take slots before it.                            *)
QueueMoves ==
  HoldersRelease =>
    \A t \in Turns : (pc[t] = "wait" /\ ~ch[t]) ~> (pc[t] # "wait" \/ ch[t])

(* A waiter that is cancelled always gets out of Acquire, even when it is  *)
(* woken for slots that newcomers take before it, over and over, and even  *)
(* when no turn that holds a slot ever ends.                               *)
CancelReturns ==
  \A t \in Turns : (pc[t] = "wait" /\ ctxDone[t]) ~> pc[t] \in {"idle", "held"}

(* The scheduler implements the counting gate its callers rely on.         *)
Gate == INSTANCE LaneGate WITH
  asking  <- [l \in Lanes |-> {t \in InLane(l) : pc[t] \notin {"idle", "held"}}],
  granted <- [l \in Lanes |-> Holders(l)]

ImplementsGate == Gate!GateSpec
=============================================================================
