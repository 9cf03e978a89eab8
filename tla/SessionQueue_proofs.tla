------------------------- MODULE SessionQueue_proofs -------------------------
(***************************************************************************)
(* TurnDrain implements SessionQueue, for any messages, senders and loops. *)
(*                                                                         *)
(* The state of each turn can be read off where its owner is (View).  With *)
(* that each step of TurnDrain is one of the queue's, for the owner that   *)
(* takes it, or leaves the queue as it is.                                 *)
(***************************************************************************)
EXTENDS TurnDrain_proofs

-----------------------------------------------------------------------------
(* The abstract state of a state that satisfies the invariant.             *)

View ==
  /\ DOMAIN Phase = Owners /\ DOMAIN InTurn = Owners
  /\ \A m \in Messages :
       /\ Phase[m] = IF pc[m] = "locked" THEN "taking"
                     ELSE IF pc[m] \in {"building", "executing"} THEN "running" ELSE "none"
       /\ InTurn[m] = IF pc[m] = "locked" THEN load[m] \ {m} ELSE load[m]
  /\ \A w \in Workers :
       /\ Phase[w] = IF wpc[w] \in {"taking", "taken"} THEN "taking"
                     ELSE IF wpc[w] \in {"building", "executing"} THEN "running" ELSE "none"
       /\ InTurn[w] = load[w]

LEMMA ViewHolds == IInv => View
<1> SUFFICES ASSUME IInv PROVE View
  OBVIOUS
<1>1. DOMAIN Phase = Owners /\ DOMAIN InTurn = Owners
  BY DEF Phase, InTurn
<1>2. ASSUME NEW m \in Messages
      PROVE  /\ Phase[m] = IF pc[m] = "locked" THEN "taking"
                           ELSE IF pc[m] \in {"building", "executing"} THEN "running" ELSE "none"
             /\ InTurn[m] = IF pc[m] = "locked" THEN load[m] \ {m} ELSE load[m]
  <2>1. m \in Owners /\ pc[m] \notin {"taking", "taken"}
    BY <1>2, Sets DEF IInv, TypeOK
  <2>2. InTurn[m] = IF pc[m] = "locked" THEN load[m] \ {m} ELSE load[m]
    BY <2>1 DEF InTurn
  <2> QED BY <2>1, <2>2 DEF Phase
<1>3. ASSUME NEW w \in Workers
      PROVE  /\ Phase[w] = IF wpc[w] \in {"taking", "taken"} THEN "taking"
                           ELSE IF wpc[w] \in {"building", "executing"} THEN "running" ELSE "none"
             /\ InTurn[w] = load[w]
  <2>1. w \in Owners /\ w \notin Messages /\ wpc[w] # "locked"
    BY <1>3, Sets DEF IInv, TypeOK
  <2>2. InTurn[w] = load[w]
    BY <2>1 DEF InTurn
  <2> QED BY <2>1, <2>2 DEF Phase
<1> QED BY <1>1, <1>2, <1>3 DEF View

LEMMA ViewHoldsNext == IInv' => View'
  BY ViewHolds, PTL

(* What a turn has is in its load.                                         *)
LEMMA InTurnLoaded == IInv => \A o \in Owners : InTurn[o] \subseteq load[o]
  BY ViewHolds DEF View, Owners

(* What one owner does to its turn is no other turn's business.            *)
LEMMA Others ==
  ASSUME IInv, IInv', NEW o,
         \A n \in Messages \ {o} : pc'[n] = pc[n],
         \A v \in Workers \ {o} : wpc'[v] = wpc[v],
         \A p \in Owners \ {o} : load'[p] = load[p]
  PROVE  /\ Phase' = [Phase EXCEPT ![o] = Phase'[o]]
         /\ InTurn' = [InTurn EXCEPT ![o] = InTurn'[o]]
<1>1. View /\ View'
  BY ViewHolds, ViewHoldsNext
<1>2. \A p \in Owners \ {o} : Phase'[p] = Phase[p] /\ InTurn'[p] = InTurn[p]
  BY <1>1, Sets DEF View, Owners
<1>3. /\ Phase' = [p \in Owners |-> Phase'[p]] /\ Phase = [p \in Owners |-> Phase[p]]
      /\ InTurn' = [p \in Owners |-> InTurn'[p]] /\ InTurn = [p \in Owners |-> InTurn[p]]
  BY DEF Phase, InTurn
<1> HIDE DEF View
<1>4. Phase' = [Phase EXCEPT ![o] = Phase'[o]]
  BY <1>2, <1>3
<1>5. InTurn' = [InTurn EXCEPT ![o] = InTurn'[o]]
  BY <1>2, <1>3
<1> QED BY <1>4, <1>5

(* A sender's step, and a loop's.                                          *)
LEMMA SenderOthers ==
  ASSUME IInv, IInv', NEW m \in Messages, NEW l, pc' = [pc EXCEPT ![m] = l], UNCHANGED wpc,
         load' = load \/ \E S : load' = [load EXCEPT ![m] = S]
  PROVE  /\ pc'[m] = l
         /\ Phase' = [Phase EXCEPT ![m] = Phase'[m]]
         /\ InTurn' = [InTurn EXCEPT ![m] = InTurn'[m]]
<1>1. \A n \in Messages : pc'[n] = IF n = m THEN l ELSE pc[n]
  BY DEF IInv, TypeOK
<1>2. \A p \in Owners \ {m} : load'[p] = load[p]
  BY DEF IInv, TypeOK
<1> QED BY <1>1, <1>2, Others

LEMMA LoopOthers ==
  ASSUME IInv, IInv', NEW w \in Workers, UNCHANGED pc,
         wpc' = wpc \/ \E l : wpc' = [wpc EXCEPT ![w] = l],
         load' = load \/ \E S : load' = [load EXCEPT ![w] = S]
  PROVE  /\ Phase' = [Phase EXCEPT ![w] = Phase'[w]]
         /\ InTurn' = [InTurn EXCEPT ![w] = InTurn'[w]]
<1>1. \A v \in Workers \ {w} : wpc'[v] = wpc[v]
  BY DEF IInv, TypeOK
<1>2. \A p \in Owners \ {w} : load'[p] = load[p]
  BY DEF IInv, TypeOK
<1> QED BY <1>1, <1>2, Others

(* While the session lock is free or one's own nobody else takes, and      *)
(* while the slot is free nobody runs whose run was not given up.          *)
LEMMA NobodyTakes ==
  ASSUME IInv, Free
  PROVE  \A o \in Owners : Phase[o] # "taking"
BY ViewHolds, Sets DEF View, IInv, Guarded, LockHeld, Free, Owners

LEMMA NobodyRuns ==
  ASSUME IInv, ~Busy(slot), NEW o \in Owners, Phase[o] = "running"
  PROVE  forced /\ o \in Running
<1>1. o \in Running
  BY ViewHolds DEF View, Running, Owners
<1> QED BY <1>1 DEF IInv, Guarded, SlotOwned, Busy

(* What waits is what the queue holds.                                     *)
LEMMA WaitsHeld ==
  /\ QueueOK(queue) => \A x : x \in Waits <=> x \in Messages /\ Held(queue, x)
  /\ QueueOK(queue') => \A x : x \in Waits' <=> x \in Messages /\ Held(queue', x)
  BY LenProperties DEF Waits, Queued, Held, QueueOK

-----------------------------------------------------------------------------
(* Steps of the queue, from what they do to its state.                     *)

Moves(o, l, S) ==
  /\ Phase' = [Phase EXCEPT ![o] = l]
  /\ InTurn' = [InTurn EXCEPT ![o] = S]

Apart3(x) == x \notin Waits /\ ~InFate(x) /\ \A o \in Owners : x \notin InTurn[o]

LEMMA UnknownToSession ==
  ASSUME NEW x, Apart3(x)
  PROVE  x \notin Session!Known
BY DEF Session!Known, Apart3, InFate

LEMMA AcceptStep ==
  ASSUME NEW m \in Messages, Apart3(m), Waits' = Waits \cup {m},
         UNCHANGED <<Phase, InTurn, forced>>, UNCHANGED fateVars
  PROVE  Session!QueueNext
<1>1. Session!Accept(m)
  BY UnknownToSession DEF Session!Accept, Session!fates, fateVars
<1> QED BY <1>1 DEF Session!QueueNext

LEMMA WithdrawStep ==
  ASSUME NEW S \in SUBSET Waits, Waits' = Waits \ S, removed' = removed \cup S,
         UNCHANGED <<Phase, InTurn, forced, served, dlq, crashed>>
  PROVE  Session!QueueNext
<1>1. Session!Withdraw(S)
  BY DEF Session!Withdraw
<1> QED BY <1>1 DEF Session!QueueNext

LEMMA BeginStep ==
  ASSUME NEW o \in Owners, NEW S \in SUBSET Waits, S \cap Followups = {},
         \A p \in Owners : Phase[p] # "taking" /\ (Phase[p] = "running" => forced /\ p # o),
         Moves(o, "taking", S), Waits' = Waits \ S, UNCHANGED forced, UNCHANGED fateVars
  PROVE  Session!QueueNext
<1>1. Session!Begin(o, S)
  BY DEF Session!Begin, Session!fates, Moves, fateVars
<1> QED BY <1>1 DEF Session!QueueNext

LEMMA CollectStep ==
  ASSUME NEW o \in Owners, NEW S \in SUBSET Waits, Phase[o] = "taking", UNCHANGED Phase,
         InTurn' = [InTurn EXCEPT ![o] = @ \cup S], Waits' = Waits \ S,
         UNCHANGED forced, UNCHANGED fateVars
  PROVE  Session!QueueNext
<1>1. Session!Collect(o, S)
  BY DEF Session!Collect, Session!fates, fateVars
<1> QED BY <1>1 DEF Session!QueueNext

LEMMA CallOffStep ==
  ASSUME NEW o \in Owners, Phase[o] = "taking", InTurn[o] \cap Followups = {},
         Moves(o, "none", {}), UNCHANGED <<Waits, forced>>, UNCHANGED fateVars
  PROVE  Session!QueueNext
<1>1. Session!CallOff(o)
  BY DEF Session!CallOff, Session!fates, Moves, fateVars
<1> QED BY <1>1 DEF Session!QueueNext

LEMMA RunStep ==
  ASSUME NEW o \in Owners, Phase[o] = "taking", UNCHANGED <<Waits, forced>>, UNCHANGED fateVars,
         NEW S, S = {} \/ \E m \in Messages : Apart3(m) /\ S = {m},
         Moves(o, "running", InTurn[o] \cup S)
  PROVE  Session!QueueNext
<1>1. S \cap Session!Known = {}
  BY UnknownToSession
<1>2. Session!Run(o, S)
  BY <1>1 DEF Session!Run, Session!fates, Moves, fateVars
<1> QED BY <1>2 DEF Session!QueueNext

LEMMA OverStep ==
  ASSUME NEW o \in Owners, Phase[o] = "running", Moves(o, "none", {}),
         UNCHANGED <<Waits, forced, removed>>,
         \/ served' = served \cup InTurn[o] /\ UNCHANGED <<dlq, crashed>>
         \/ dlq' = dlq \cup InTurn[o] /\ UNCHANGED <<served, crashed>>
         \/ crashed' = crashed \cup InTurn[o] /\ UNCHANGED <<served, dlq>>
  PROVE  Session!QueueNext
<1>1. Session!Over(o)
  BY DEF Session!Over, Moves
<1> QED BY <1>1 DEF Session!QueueNext

LEMMA ForceStep ==
  ASSUME NEW o \in Owners, Phase[o] = "running", forced' = TRUE,
         UNCHANGED <<Phase, InTurn, Waits>>, UNCHANGED fateVars
  PROVE  Session!QueueNext
<1>1. Session!Force
  BY DEF Session!Force, Session!fates, fateVars
<1> QED BY <1>1 DEF Session!QueueNext

-----------------------------------------------------------------------------
(* A chat turn has its own message as soon as it has the lock.             *)

OwnLoaded == \A m \in Messages : pc[m] = "locked" => m \in load[m]

LEMMA OwnLoadedHolds == Spec => []OwnLoaded
<1>1. Init => OwnLoaded
  BY DEF Init, OwnLoaded
<1>2. IInv /\ OwnLoaded /\ [Next]_vars => OwnLoaded'
  <2> SUFFICES ASSUME IInv, OwnLoaded, [Next]_vars PROVE OwnLoaded'
    OBVIOUS
  <2> USE QueueTypes DEF OwnLoaded, Goto, WGoto, Loading
  <2>0. DOMAIN pc = Messages /\ DOMAIN load = Owners
    BY DEF IInv, TypeOK
  <2> USE <2>0
  <2>1. ASSUME UNCHANGED <<pc, load>> PROVE OwnLoaded'
    BY <2>1
  <2>2. ASSUME NEW m \in Messages, NEW l, l # "locked", pc' = [pc EXCEPT ![m] = l],
               load' = load \/ load' = [load EXCEPT ![m] = {}]
        PROVE  OwnLoaded'
    BY <2>2, Sets
  <2>3. ASSUME NEW m \in Messages, Lock(m) PROVE OwnLoaded'
    BY <2>3, Sets DEF Lock, ConsumeLeadingInjects
  <2>4. ASSUME NEW w \in Workers, UNCHANGED pc, NEW T, load' = [load EXCEPT ![w] = T]
        PROVE  OwnLoaded'
    BY <2>4, Sets
  <2>5. ASSUME NEW m \in Messages, Send(m) \/ Call(m) PROVE OwnLoaded'
    BY <2>2, <2>3, <2>5
       DEF Send, Call, CheckActive, EnqueueInject, CheckRestored, CheckPolicy, GateCheck,
           EnqueueLook, Steer, EnqueueAppend, EnqueueMerge, EnqueueFull, ForceTrigger, GiveUp,
           RejectLocked, Register, Trigger
  <2>6. ASSUME NEW m \in Messages, Turn(m) PROVE OwnLoaded'
    BY <2>2, <2>6 DEF Turn, Build, End, Panic
  <2>7. ASSUME NEW w \in Workers, Loop(w) \/ TurnTaken(w) PROVE OwnLoaded'
    BY <2>1, <2>4, <2>7
       DEF Loop, TurnTaken, Peek, TakeInject, TakeEntry, RegisterTaken, TakeNothing, BuildTaken,
           EndTaken, PanicTaken, DeleteFlag, Recover, ExitCheckActive, ExitRelaunch
  <2>8. ASSUME \/ CancelRun
               \/ \E m \in Messages : CancelPendingMessage(m) \/ Promote(m) \/ Interrupt(m)
        PROVE  OwnLoaded'
    BY <2>1, <2>8 DEF CancelPendingMessage, Promote, Interrupt, InterruptCancel, InterruptLook,
                      InterruptTrigger, CancelRun
  <2>9. CASE UNCHANGED vars
    BY <2>1, <2>9 DEF vars
  <2> QED BY <2>5, <2>6, <2>7, <2>8, <2>9 DEF Next
<1> QED BY <1>1, <1>2, Invariant, PTL DEF Spec

-----------------------------------------------------------------------------
(* Steps of TurnDrain.                                                     *)

(* Every turn is as far as it was.                                         *)
Still ==
  /\ \A m \in Messages : /\ pc'[m] = "locked" <=> pc[m] = "locked"
                         /\ pc'[m] \in {"building", "executing"}
                              <=> pc[m] \in {"building", "executing"}
  /\ \A w \in Workers : /\ wpc'[w] \in {"taking", "taken"} <=> wpc[w] \in {"taking", "taken"}
                        /\ wpc'[w] \in {"building", "executing"}
                             <=> wpc[w] \in {"building", "executing"}

LEMMA StillView ==
  ASSUME IInv, IInv', Still, UNCHANGED load
  PROVE  UNCHANGED <<Phase, InTurn>>
<1>1. View /\ View'
  BY ViewHolds, ViewHoldsNext
<1>2. \A o \in Owners : Phase'[o] = Phase[o] /\ InTurn'[o] = InTurn[o]
  BY <1>1 DEF View, Still, Owners
<1>3. /\ Phase' = [p \in Owners |-> Phase'[p]] /\ Phase = [p \in Owners |-> Phase[p]]
      /\ InTurn' = [p \in Owners |-> InTurn'[p]] /\ InTurn = [p \in Owners |-> InTurn[p]]
  BY DEF Phase, InTurn
<1>4. Phase' = Phase
  BY <1>2, <1>3
<1>5. InTurn' = InTurn
  BY <1>2, <1>3
<1> QED BY <1>4, <1>5

(* A sender goes on before or after its turn, or within it.                *)
LEMMA SenderStill ==
  ASSUME IInv, NEW m \in Messages, NEW l, pc' = [pc EXCEPT ![m] = l],
         \/ /\ pc[m] \notin {"locked", "building", "executing"}
            /\ l \notin {"locked", "building", "executing"}
         \/ pc[m] = "building" /\ l = "executing",
         UNCHANGED wpc \/ \E w \in Workers : wpc[w] = "idle" /\ wpc' = [wpc EXCEPT ![w] = "top"]
  PROVE  Still
<1>1. \A n \in Messages : pc'[n] = IF n = m THEN l ELSE pc[n]
  BY DEF IInv, TypeOK
<1>2. \A v \in Workers : wpc'[v] = wpc[v] \/ (wpc[v] = "idle" /\ wpc'[v] = "top")
  BY DEF IInv, TypeOK
<1> QED BY <1>1, <1>2 DEF Still

(* A loop goes on before or after its turn, or within it.                  *)
LEMMA LoopStill ==
  ASSUME IInv, NEW w \in Workers, NEW l, wpc' = [wpc EXCEPT ![w] = l], UNCHANGED pc,
         \/ /\ wpc[w] \notin {"taking", "taken", "building", "executing"}
            /\ l \notin {"taking", "taken", "building", "executing"}
         \/ wpc[w] = "building" /\ l = "executing"
         \/ wpc[w] = "taking" /\ l = "taken"
  PROVE  Still
<1>1. \A v \in Workers : wpc'[v] = IF v = w THEN l ELSE wpc[v]
  BY DEF IInv, TypeOK
<1> QED BY <1>1 DEF Still

LEMMA SameWaits == UNCHANGED queue => UNCHANGED Waits
  BY DEF Waits, Queued

(* Most steps are none of the queue's.                                     *)
LEMMA NoStep ==
  ASSUME IInv, IInv', Still, UNCHANGED <<queue, load, forced>>, UNCHANGED fateVars
  PROVE  UNCHANGED Session!sessionVars
BY SameWaits, StillView DEF Session!sessionVars, Session!fates, fateVars

LEMMA QuietSenderStep ==
  ASSUME IInv, IInv', NEW m \in Messages,
         \/ CheckActive(m) \/ CheckRestored(m) \/ CheckPolicy(m) \/ GateCheck(m)
         \/ EnqueueLook(m) \/ Steer(m) \/ ForceTrigger(m) \/ GiveUp(m)
         \/ Build(m) \/ Trigger(m)
  PROVE  UNCHANGED Session!sessionVars
<1>1. UNCHANGED <<queue, load, forced>> /\ UNCHANGED fateVars
  BY DEF CheckActive, CheckRestored, CheckPolicy, GateCheck, EnqueueLook, Steer, ForceTrigger,
         GiveUp, Build, Trigger, queueVars, slotVars, fateVars
<1>2. UNCHANGED wpc \/ \E w \in Workers : wpc[w] = "idle" /\ wpc' = [wpc EXCEPT ![w] = "top"]
  <2>1. CASE ForceTrigger(m) \/ Trigger(m)
    BY <2>1, Launch DEF IInv, Guarded, ForceTrigger, Trigger
  <2>2. CASE ~(ForceTrigger(m) \/ Trigger(m))
    BY <2>2 DEF CheckActive, CheckRestored, CheckPolicy, GateCheck, EnqueueLook, Steer, GiveUp,
                Build, loopVars
  <2> QED BY <2>1, <2>2
<1>3. Still
  <2>1. ASSUME NEW l, pc' = [pc EXCEPT ![m] = l],
               pc[m] \notin {"locked", "building", "executing"},
               l \notin {"locked", "building", "executing"}
        PROVE  Still
    BY <1>2, <2>1, SenderStill
  <2> USE DEF Goto
  <2>2. CASE CheckActive(m)
    BY <2>1, <2>2 DEF CheckActive
  <2>3. CASE CheckRestored(m)
    BY <2>1, <2>3 DEF CheckRestored
  <2>4. CASE CheckPolicy(m)
    BY <2>1, <2>4 DEF CheckPolicy
  <2>5. CASE GateCheck(m)
    BY <2>1, <2>5 DEF GateCheck
  <2>6. CASE EnqueueLook(m)
    BY <2>1, <2>6 DEF EnqueueLook
  <2>7. CASE Steer(m)
    BY <2>1, <2>7 DEF Steer
  <2>8. CASE ForceTrigger(m)
    BY <2>1, <2>8 DEF ForceTrigger
  <2>9. CASE GiveUp(m)
    BY <2>1, <2>9 DEF GiveUp
  <2>10. CASE Trigger(m)
    BY <2>1, <2>10 DEF Trigger
  <2>11. CASE Build(m)
    BY <1>2, <2>11, SenderStill DEF Build
  <2> QED BY <2>2, <2>3, <2>4, <2>5, <2>6, <2>7, <2>8, <2>9, <2>10, <2>11
<1> QED BY <1>1, <1>3, NoStep

LEMMA QuietLoopStep ==
  ASSUME IInv, IInv', NEW w \in Workers,
         \/ BuildTaken(w) \/ DeleteFlag(w) \/ Recover(w)
         \/ ExitCheckActive(w) \/ ExitRelaunch(w)
  PROVE  UNCHANGED Session!sessionVars
<1>1. UNCHANGED <<queue, load, forced, pc>> /\ UNCHANGED fateVars
  BY DEF BuildTaken, DeleteFlag, Recover, ExitCheckActive, ExitRelaunch, Finish, queueVars,
         slotVars, fateVars
<1>2. Still
  <2> USE <1>1, LoopStill DEF WGoto
  <2>1. CASE BuildTaken(w)
    BY <2>1 DEF BuildTaken
  <2>2. CASE DeleteFlag(w)
    BY <2>2 DEF DeleteFlag
  <2>3. CASE Recover(w)
    BY <2>3 DEF Recover
  <2>4. CASE ExitCheckActive(w)
    BY <2>4 DEF ExitCheckActive
  <2>5. CASE ExitRelaunch(w)
    BY <2>5 DEF ExitRelaunch
  <2> QED BY <2>1, <2>2, <2>3, <2>4, <2>5
<1> QED BY <1>1, <1>2, NoStep

(* Who cancels a run, or removes its entry.                                *)
LEMMA InterruptStep ==
  ASSUME IInv, IInv', CancelRun \/ \E m \in Messages : Interrupt(m)
  PROVE  Session!QueueNext \/ UNCHANGED Session!sessionVars
<1>1. UNCHANGED <<queue, load, pc>> /\ UNCHANGED fateVars
  BY DEF CancelRun, Interrupt, InterruptCancel, InterruptLook, InterruptTrigger, queueVars,
         fateVars
<1>2. \/ UNCHANGED wpc /\ (UNCHANGED slotVars \/ Cancel)
      \/ UNCHANGED slotVars /\ \E m \in Messages : InterruptTrigger(m)
  BY DEF CancelRun, Interrupt, InterruptCancel, InterruptLook, loopVars, InterruptTrigger
<1>3. UNCHANGED wpc \/ \E w \in Workers : wpc[w] = "idle" /\ wpc' = [wpc EXCEPT ![w] = "top"]
  BY <1>2, Launch DEF IInv, Guarded, InterruptTrigger
<1>4. Still
  <2>1. \A v \in Workers : wpc'[v] = wpc[v] \/ (wpc[v] = "idle" /\ wpc'[v] = "top")
    BY <1>3 DEF IInv, TypeOK
  <2> QED BY <1>1, <2>1 DEF Still
<1>5. CASE UNCHANGED forced
  BY <1>1, <1>4, <1>5, NoStep
<1>6. CASE ~UNCHANGED forced
  <2>1. Cancel
    BY <1>2, <1>6 DEF slotVars
  <2>2. slot.run \in Running /\ forced' = TRUE
    BY <1>6, <2>1, Zenon DEF Cancel, slotVars, IInv, TypeOK
  <2>3. slot.run \in Owners /\ Phase[slot.run] = "running"
    BY <2>2, ViewHolds, Sets DEF View, Running, Owners
  <2>4. UNCHANGED <<Phase, InTurn, Waits>>
    BY <1>1, <1>4, StillView, SameWaits
  <2> QED BY <1>1, <2>2, <2>3, <2>4, ForceStep
<1> QED BY <1>5, <1>6

-----------------------------------------------------------------------------
(* The steps that move messages.                                           *)

(* What a message that is nowhere is to the queue.                         *)
LEMMA Nowhere ==
  ASSUME IInv, NEW m, ~Somewhere(m)
  PROVE  Apart3(m)
<1>1. m \notin Waits
  BY WaitsHeld, QueueTypes DEF Somewhere
<1>2. \A o \in Owners : m \notin InTurn[o]
  BY InTurnLoaded DEF Somewhere, InLoad
<1> QED BY <1>1, <1>2 DEF Apart3, Somewhere

(* The queue loses T, or gains it.                                         *)
LEMMA WaitsSplit ==
  ASSUME IInv, IInv', NEW T
  PROVE  /\ Splits(queue, T, queue') => T \subseteq Waits /\ Waits' = Waits \ T
         /\ T \subseteq Messages /\ Splits(queue', T, queue) => Waits' = Waits \cup T
<1>1. QueueOK(queue) /\ QueueOK(queue')
  BY DEF IInv, Located, Queueing, QueueOK, Once, Clean
<1>2. /\ \A x : x \in Waits <=> x \in Messages /\ Held(queue, x)
      /\ \A x : x \in Waits' <=> x \in Messages /\ Held(queue', x)
  BY <1>1, WaitsHeld
<1>3. \A x : Held(queue, x) => x \in Messages
  BY QueueTypes DEF Held, Entries
<1>4. ASSUME Splits(queue, T, queue') PROVE T \subseteq Waits /\ Waits' = Waits \ T
  <2>1. \A x : x \in T => Held(queue, x) /\ ~Held(queue', x)
    BY <1>4 DEF Splits
  <2>2. \A x : x \notin T => (Held(queue', x) <=> Held(queue, x))
    BY <1>4 DEF Splits
  <2>3. T \subseteq Waits
    BY <1>2, <1>3, <2>1
  <2>4. \A x : x \in Waits' <=> x \in Waits /\ x \notin T
    BY <1>2, <2>1, <2>2
  <2> QED BY <2>3, <2>4
<1>5. ASSUME T \subseteq Messages, Splits(queue', T, queue) PROVE Waits' = Waits \cup T
  <2>1. \A x : Held(queue', x) <=> Held(queue, x) \/ x \in T
    BY <1>5 DEF Splits
  <2>2. \A x : x \in Waits' <=> x \in Waits \/ x \in T
    BY <1>2, <1>5, <2>1
  <2> QED BY <2>2
<1> QED BY <1>4, <1>5

(* A message is accepted.                                                  *)
LEMMA AcceptedStep ==
  ASSUME IInv, IInv', NEW m \in Messages, pc[m] \in FreshPcs,
         NEW l \in {"forced", "queued"}, pc' = [pc EXCEPT ![m] = l],
         Splits(queue', {m}, queue), UNCHANGED <<load, wpc, forced>>, UNCHANGED fateVars
  PROVE  Session!QueueNext
<1>1. Apart3(m)
  BY Nowhere DEF IInv, Located, Fresh
<1>2. Waits' = Waits \cup {m}
  BY WaitsSplit
<1>3. Still
  BY SenderStill DEF FreshPcs
<1> QED BY <1>1, <1>2, <1>3, StillView, AcceptStep

(* A message is refused.                                                   *)
LEMMA RefusedStep ==
  ASSUME IInv, IInv', NEW m \in Messages, pc[m] \in FreshPcs,
         pc' = [pc EXCEPT ![m] = "rejected"],
         UNCHANGED <<queue, load, wpc, forced>>, UNCHANGED fateVars
  PROVE  UNCHANGED Session!sessionVars
<1>1. Still
  BY SenderStill DEF FreshPcs
<1> QED BY <1>1, NoStep

LEMMA EnqueueStep ==
  ASSUME IInv, IInv', NEW m \in Messages,
         \/ EnqueueInject(m) \/ EnqueueAppend(m) \/ EnqueueMerge(m) \/ EnqueueFull(m)
  PROVE  Session!QueueNext \/ UNCHANGED Session!sessionVars
<1> DEFINE e(k) == Entry(m, {m}, k)
<1>1. pc[m] \in FreshPcs /\ UNCHANGED <<load, wpc, forced>> /\ UNCHANGED fateVars
  BY DEF EnqueueInject, EnqueueAppend, EnqueueMerge, EnqueueFull, FreshPcs, loopVars, slotVars
<1>2. ~Held(queue, m)
  BY <1>1 DEF IInv, Located, Fresh, Somewhere
<1>3. CASE EnqueueInject(m)
  <2>1. CASE Len(queue) >= MaxPending
    BY <1>1, <1>3, <2>1, RefusedStep DEF EnqueueInject, Goto
  <2>2. CASE ~(Len(queue) >= MaxPending)
    <3>1. queue' = Append(queue, e("inject")) /\ pc' = [pc EXCEPT ![m] = "queued"]
      BY <1>3, <2>2 DEF EnqueueInject, Goto
    <3>2. m \notin Followups
      BY <1>3 DEF EnqueueInject, Followups
    <3>3. Splits(queue', {m}, queue)
      BY <1>2, <3>1, <3>2, AddLast, QueueTypes DEF Kinds
    <3> QED BY <1>1, <3>1, <3>3, AcceptedStep
  <2> QED BY <2>1, <2>2
<1>4. CASE EnqueueAppend(m)
  <2>1. queue' = Append(queue, e("followup"))
    BY <1>4 DEF EnqueueAppend
  <2>2. \E l \in {"forced", "queued"} : pc' = [pc EXCEPT ![m] = l]
    BY <1>4 DEF EnqueueAppend, Goto
  <2>3. Splits(queue', {m}, queue)
    BY <1>2, <2>1, AddLast, QueueTypes DEF Kinds
  <2> QED BY <1>1, <2>2, <2>3, AcceptedStep
<1>5. CASE EnqueueMerge(m)
  <2>1. /\ queue' = [queue EXCEPT ![Len(queue)] = Entry(@.id, @.msgs \cup {m}, "followup")]
        /\ Len(queue) > 0 /\ pc' = [pc EXCEPT ![m] = "queued"]
    BY <1>5, Sets DEF EnqueueMerge, Goto
  <2>2. Splits(queue', {m}, queue)
    BY <1>2, <2>1, JoinLast, QueueTypes
  <2> QED BY <1>1, <2>1, <2>2, AcceptedStep
<1>6. CASE EnqueueFull(m)
  <2>1. CASE FirstFollowup # 0
    BY <1>1, <1>6, <2>1, RefusedStep DEF EnqueueFull, Goto, queueVars
  <2>2. CASE FirstFollowup = 0
    <3>1. queue' = <<Entry(m, {m} \cup UNION {x.msgs : x \in ToSet(queue)}, "followup")>>
      BY <1>6, <2>2 DEF EnqueueFull, RescueFullInjectQueue
    <3>2. \E l \in {"forced", "queued"} : pc' = [pc EXCEPT ![m] = l]
      BY <1>6, <2>2 DEF EnqueueFull, Goto
    <3>3. Splits(queue', {m}, queue)
      BY <1>2, <3>1, JoinAll, QueueTypes
    <3> QED BY <1>1, <3>2, <3>3, AcceptedStep
  <2> QED BY <2>1, <2>2
<1> QED BY <1>3, <1>4, <1>5, <1>6

(* The chat turn's: lock, leave or register, end.                          *)
LEMMA LockStep ==
  ASSUME IInv, IInv', NEW m \in Messages, Lock(m)
  PROVE  Session!QueueNext \/ UNCHANGED Session!sessionVars
<1>1. /\ pc[m] = "admitted" /\ UNCHANGED <<wpc, forced>> /\ UNCHANGED fateVars /\ Free
      /\ pc[m] \in FreshPcs
  BY DEF Lock, FreshPcs, loopVars, slotVars
<1>2. CASE Busy(slot)
  BY <1>1, <1>2, RefusedStep DEF Lock, Goto, queueVars
<1>3. CASE ~Busy(slot)
  <2> DEFINE n == IF FirstFollowup = 0 THEN Len(queue) ELSE FirstFollowup - 1
             T == UNION {queue[i].msgs : i \in 1..n}
             r == SubSeq(queue, n + 1, Len(queue))
  <2>1. queue' = r /\ load' = [load EXCEPT ![m] = {m} \cup T] /\ pc' = [pc EXCEPT ![m] = "locked"]
    BY <1>3 DEF Lock, ConsumeLeadingInjects, ShrinkTo, Goto
  <2>2. n \in 0..Len(queue) /\ \A i \in 1..n : queue[i].kind = "inject"
    BY FirstFollowupFacts, QueueTypes
  <2>3. Splits(queue, T, r)
    BY <2>2, DropFirst, QueueTypes
  <2>4. T \cap Followups = {}
    BY <2>2, QueueTypes DEF QueueOK, Clean
  <2> HIDE DEF n, T, r
  <2>5. T \subseteq Waits /\ Waits' = Waits \ T
    BY <2>1, <2>3, WaitsSplit
  <2>6. m \notin T
    <3>1. ~Held(queue, m)
      BY <1>1 DEF IInv, Located, Fresh, Somewhere
    <3> QED BY <2>3, <3>1 DEF Splits
  <2>7. \A p \in Owners : Phase[p] # "taking" /\ (Phase[p] = "running" => forced /\ p # m)
    <3>1. Phase[m] = "none"
      BY <1>1, ViewHolds DEF View
    <3> QED BY <1>1, <1>3, <3>1, NobodyTakes, NobodyRuns
  <2>8. /\ pc'[m] = "locked" /\ Phase' = [Phase EXCEPT ![m] = Phase'[m]]
        /\ InTurn' = [InTurn EXCEPT ![m] = InTurn'[m]]
    BY <1>1, <2>1, SenderOthers
  <2>9. load'[m] = {m} \cup T
    BY <2>1, QueueTypes, Sets DEF Loading
  <2>10. Phase'[m] = "taking" /\ InTurn'[m] = T
    BY <2>6, <2>8, <2>9, ViewHoldsNext DEF View
  <2>11. Moves(m, "taking", T)
    BY <2>8, <2>10 DEF Moves
  <2> QED BY <1>1, <2>4, <2>5, <2>7, <2>11, BeginStep, Sets
<1> QED BY <1>2, <1>3

LEMMA RejectStep ==
  ASSUME IInv, IInv', NEW m \in Messages, RejectLocked(m)
  PROVE  Session!QueueNext
<1>1. /\ pc[m] = "locked" /\ UNCHANGED <<queue, wpc, forced>> /\ UNCHANGED fateVars
      /\ pc' = [pc EXCEPT ![m] = "rejected"] /\ load' = [load EXCEPT ![m] = {}]
  BY DEF RejectLocked, loopVars, queueVars, slotVars, Goto
<1>2. Phase[m] = "taking" /\ InTurn[m] = load[m] \ {m}
  BY <1>1, ViewHolds DEF View
<1>3. InTurn[m] \cap Followups = {}
  BY <1>1, <1>2 DEF IInv, Located, Loads
<1>4. Moves(m, "none", {})
  <2>1. /\ pc'[m] = "rejected" /\ Phase' = [Phase EXCEPT ![m] = Phase'[m]]
        /\ InTurn' = [InTurn EXCEPT ![m] = InTurn'[m]]
    BY <1>1, SenderOthers
  <2>2. load'[m] = {}
    BY <1>1, QueueTypes, Sets DEF Loading
  <2>3. Phase'[m] = "none" /\ InTurn'[m] = {}
    BY <2>1, <2>2, ViewHoldsNext DEF View
  <2> QED BY <2>1, <2>3 DEF Moves
<1> QED BY <1>1, <1>2, <1>3, <1>4, SameWaits, CallOffStep, Sets

LEMMA RegisterStep ==
  ASSUME IInv, IInv', OwnLoaded, NEW m \in Messages, Register(m)
  PROVE  Session!QueueNext
<1>1. /\ pc[m] = "locked" /\ UNCHANGED <<queue, load, wpc, forced>> /\ UNCHANGED fateVars
      /\ pc' = [pc EXCEPT ![m] = "building"]
  BY DEF Register, queueVars, loopVars, Goto
<1>2. Phase[m] = "taking" /\ InTurn[m] = load[m] \ {m}
  BY <1>1, ViewHolds DEF View
<1>3. m \in load[m]
  BY <1>1 DEF OwnLoaded
<1>4. Apart3(m)
  <2>1. InLoad(m)
    BY <1>3, Sets DEF InLoad
  <2>2. ~Held(queue, m) /\ ~InFate(m)
    BY <2>1 DEF IInv, Located, Apart
  <2>3. m \notin Waits
    BY <2>2, WaitsHeld, QueueTypes
  <2>4. \A o \in Owners : m \notin InTurn[o]
    <3>1. \A o \in Owners : m \in load[o] => o = m
      BY <1>3, Sets DEF IInv, Located, Apart
    <3> QED BY <1>2, <3>1, InTurnLoaded
  <2> QED BY <2>2, <2>3, <2>4 DEF Apart3
<1>5. Moves(m, "running", InTurn[m] \cup {m})
  <2>1. /\ pc'[m] = "building" /\ Phase' = [Phase EXCEPT ![m] = Phase'[m]]
        /\ InTurn' = [InTurn EXCEPT ![m] = InTurn'[m]]
    BY <1>1, SenderOthers
  <2>2. Phase'[m] = "running" /\ InTurn'[m] = load[m]
    BY <1>1, <2>1, ViewHoldsNext DEF View
  <2>3. load[m] = InTurn[m] \cup {m}
    BY <1>2, <1>3
  <2> QED BY <2>1, <2>2, <2>3 DEF Moves
<1>6. UNCHANGED <<Waits, forced>>
  BY <1>1, SameWaits
<1> QED BY <1>1, <1>2, <1>4, <1>5, <1>6, RunStep, Sets

LEMMA EndStep ==
  ASSUME IInv, IInv', NEW m \in Messages, End(m) \/ Panic(m)
  PROVE  Session!QueueNext
<1>1. /\ pc[m] \in {"building", "executing"} /\ UNCHANGED <<queue, wpc, removed>>
      /\ load' = [load EXCEPT ![m] = {}]
      /\ \E l \in {"ended", "over"} : pc' = [pc EXCEPT ![m] = l]
  BY DEF End, Panic, loopVars, queueVars, Goto
<1>2. \/ served' = served \cup load[m] /\ UNCHANGED <<dlq, crashed>>
      \/ crashed' = crashed \cup load[m] /\ UNCHANGED <<served, dlq>>
  BY DEF End, Panic
<1>3. UNCHANGED forced
  BY DEF End, Panic, Finish, slotVars
<1>4. Phase[m] = "running" /\ InTurn[m] = load[m]
  BY <1>1, ViewHolds DEF View
<1>5. Moves(m, "none", {})
  <2>1. PICK l \in {"ended", "over"} : pc' = [pc EXCEPT ![m] = l]
    BY <1>1
  <2>2. /\ pc'[m] = l /\ Phase' = [Phase EXCEPT ![m] = Phase'[m]]
        /\ InTurn' = [InTurn EXCEPT ![m] = InTurn'[m]]
    BY <1>1, <2>1, SenderOthers
  <2>3. load'[m] = {}
    BY <1>1, QueueTypes, Sets DEF Loading
  <2>4. Phase'[m] = "none" /\ InTurn'[m] = {}
    BY <2>2, <2>3, ViewHoldsNext DEF View
  <2> QED BY <2>2, <2>4 DEF Moves
<1>6. UNCHANGED <<Waits, forced, removed>>
  BY <1>1, <1>3, SameWaits
<1> QED BY <1>2, <1>4, <1>5, <1>6, OverStep, Sets

(* A user takes an entry back, or moves it to the front.                   *)
LEMMA UserStep ==
  ASSUME IInv, IInv', NEW m \in Messages, CancelPendingMessage(m) \/ Promote(m)
  PROVE  Session!QueueNext \/ UNCHANGED Session!sessionVars
<1>1. UNCHANGED <<load, pc, wpc, forced>>
  BY DEF CancelPendingMessage, Promote, loopVars, slotVars
<1>2. UNCHANGED <<Phase, InTurn>>
  BY <1>1, StillView DEF Still
<1>3. CASE CancelPendingMessage(m)
  <2> DEFINE T == queue[At(m)].msgs
             r == RemoveAt(queue, At(m))
  <2>1. At(m) # 0 /\ queue' = r /\ removed' = removed \cup T /\ UNCHANGED <<served, dlq, crashed>>
    BY <1>3 DEF CancelPendingMessage, ShrinkTo
  <2>2. Splits(queue, T, r)
    BY <2>1, AtFacts, DropAt, QueueTypes
  <2> HIDE DEF T, r
  <2>3. T \subseteq Waits /\ Waits' = Waits \ T
    BY <2>1, <2>2, WaitsSplit
  <2> QED BY <1>1, <1>2, <2>1, <2>3, WithdrawStep
<1>4. CASE Promote(m)
  <2>1. /\ At(m) # 0 /\ queue' = <<queue[At(m)]>> \o RemoveAt(queue, At(m))
        /\ UNCHANGED fateVars
    BY <1>4 DEF Promote
  <2>2. Splits(queue, {}, queue')
    BY <2>1, AtFacts, ToFront, QueueTypes
  <2>3. Waits' = Waits
    BY <2>2, WaitsSplit
  <2> QED BY <1>1, <1>2, <2>1, <2>3 DEF Session!sessionVars, Session!fates, fateVars
<1> QED BY <1>3, <1>4

(* The loop's: look, take, register, give up, end.                         *)
LEMMA PeekStep ==
  ASSUME IInv, IInv', NEW w \in Workers, Peek(w)
  PROVE  Session!QueueNext \/ UNCHANGED Session!sessionVars
<1>1. /\ wpc[w] = "top" /\ Free /\ UNCHANGED <<queue, load, pc, forced>> /\ UNCHANGED fateVars
  BY DEF Peek, queueVars, slotVars
<1>2. CASE FirstFollowup = 0 \/ Busy(slot)
  <2>1. wpc' = [wpc EXCEPT ![w] = "leaving"]
    BY <1>2 DEF Peek, WGoto
  <2> QED BY <1>1, <2>1, LoopStill, NoStep
<1>3. CASE ~(FirstFollowup = 0 \/ Busy(slot))
  <2>1. wpc' = [wpc EXCEPT ![w] = "taking"] /\ wpc'[w] = "taking"
    BY <1>3 DEF Peek, WGoto, IInv, TypeOK
  <2>2. \A p \in Owners : Phase[p] # "taking" /\ (Phase[p] = "running" => forced /\ p # w)
    <3>1. Phase[w] = "none"
      BY <1>1, ViewHolds DEF View
    <3> QED BY <1>1, <1>3, <3>1, NobodyTakes, NobodyRuns
  <2>3. load[w] = {}
    BY <1>1 DEF IInv, Located, Loads
  <2>4. Moves(w, "taking", {})
    <3>1. /\ Phase' = [Phase EXCEPT ![w] = Phase'[w]]
          /\ InTurn' = [InTurn EXCEPT ![w] = InTurn'[w]]
      BY <1>1, <2>1, LoopOthers
    <3>2. Phase'[w] = "taking" /\ InTurn'[w] = {}
      BY <1>1, <2>1, <2>3, ViewHoldsNext DEF View
    <3> QED BY <3>1, <3>2 DEF Moves
  <2>5. {} \in SUBSET Waits /\ Waits' = Waits \ {}
    BY <1>1, SameWaits
  <2> QED BY <1>1, <2>2, <2>4, <2>5, BeginStep, Sets
<1> QED BY <1>2, <1>3

LEMMA TakeStep ==
  ASSUME IInv, IInv', NEW w \in Workers, TakeInject(w) \/ TakeEntry(w)
  PROVE  Session!QueueNext
<1> DEFINE T == Head(queue).msgs
<1>1. /\ wpc[w] = "taking" /\ queue # <<>> /\ queue' = Tail(queue)
      /\ load' = [load EXCEPT ![w] = @ \cup T] /\ UNCHANGED <<pc, forced>> /\ UNCHANGED fateVars
      /\ wpc' = wpc \/ wpc' = [wpc EXCEPT ![w] = "taken"]
  BY DEF TakeInject, TakeEntry, ShrinkTo, WGoto, slotVars
<1>2. Splits(queue, T, queue')
  BY <1>1, DropHead, QueueTypes
<1> HIDE DEF T
<1>3. T \subseteq Waits /\ Waits' = Waits \ T
  BY <1>2, WaitsSplit
<1>4. Phase[w] = "taking" /\ InTurn[w] = load[w]
  BY <1>1, ViewHolds DEF View
<1>5. wpc'[w] \in {"taking", "taken"} /\ load'[w] = load[w] \cup T
  BY <1>1, QueueTypes, Sets DEF IInv, TypeOK, Loading
<1>6. Phase'[w] = "taking" /\ InTurn'[w] = InTurn[w] \cup T
  BY <1>4, <1>5, ViewHoldsNext DEF View
<1>7. /\ Phase' = [Phase EXCEPT ![w] = Phase'[w]]
      /\ InTurn' = [InTurn EXCEPT ![w] = InTurn'[w]]
  BY <1>1, LoopOthers
<1>8. Phase' = Phase
  <2>1. Phase = [o \in Owners |-> Phase[o]]
    BY DEF Phase
  <2> QED BY <1>4, <1>6, <1>7, <2>1
<1> QED BY <1>1, <1>3, <1>4, <1>6, <1>7, <1>8, CollectStep, Sets

LEMMA RegisterTakenStep ==
  ASSUME IInv, IInv', NEW w \in Workers, RegisterTaken(w)
  PROVE  Session!QueueNext
<1>1. /\ wpc[w] = "taken" /\ wpc' = [wpc EXCEPT ![w] = "building"] /\ wpc'[w] = "building"
      /\ UNCHANGED <<queue, load, pc, forced>> /\ UNCHANGED fateVars
  BY DEF RegisterTaken, queueVars, WGoto, IInv, TypeOK
<1>2. Phase[w] = "taking" /\ InTurn[w] = load[w]
  BY <1>1, ViewHolds DEF View
<1>3. Moves(w, "running", InTurn[w] \cup {})
  <2>1. /\ Phase' = [Phase EXCEPT ![w] = Phase'[w]]
        /\ InTurn' = [InTurn EXCEPT ![w] = InTurn'[w]]
    BY <1>1, LoopOthers
  <2>2. Phase'[w] = "running" /\ InTurn'[w] = InTurn[w]
    BY <1>1, <1>2, ViewHoldsNext DEF View
  <2> QED BY <2>1, <2>2 DEF Moves
<1>4. UNCHANGED <<Waits, forced>>
  BY <1>1, SameWaits
<1> QED BY <1>1, <1>2, <1>3, <1>4, RunStep, Sets

LEMMA TakeNothingStep ==
  ASSUME IInv, IInv', NEW w \in Workers, TakeNothing(w)
  PROVE  Session!QueueNext
<1>1. /\ wpc[w] = "taking" /\ wpc' = [wpc EXCEPT ![w] = "leaving"] /\ wpc'[w] = "leaving"
      /\ load' = [load EXCEPT ![w] = {}]
      /\ UNCHANGED <<queue, pc, forced>> /\ UNCHANGED fateVars
  BY DEF TakeNothing, queueVars, slotVars, WGoto, IInv, TypeOK
<1>2. Phase[w] = "taking" /\ InTurn[w] = load[w]
  BY <1>1, ViewHolds DEF View
<1>3. InTurn[w] \cap Followups = {}
  BY <1>1, <1>2 DEF IInv, Located, Loads
<1>4. Moves(w, "none", {})
  <2>1. /\ Phase' = [Phase EXCEPT ![w] = Phase'[w]]
        /\ InTurn' = [InTurn EXCEPT ![w] = InTurn'[w]]
    BY <1>1, LoopOthers
  <2>2. load'[w] = {}
    BY <1>1, QueueTypes, Sets DEF Loading
  <2>3. Phase'[w] = "none" /\ InTurn'[w] = {}
    BY <1>1, <2>2, ViewHoldsNext DEF View
  <2> QED BY <2>1, <2>3 DEF Moves
<1>5. UNCHANGED <<Waits, forced>>
  BY <1>1, SameWaits
<1> QED BY <1>1, <1>2, <1>3, <1>4, <1>5, CallOffStep, Sets

LEMMA EndTakenStep ==
  ASSUME IInv, IInv', NEW w \in Workers, EndTaken(w) \/ PanicTaken(w)
  PROVE  Session!QueueNext
<1>1. /\ wpc[w] \in {"building", "executing"} /\ UNCHANGED <<queue, pc, removed>>
      /\ load' = [load EXCEPT ![w] = {}]
      /\ \E l \in {"top", "capped", "panicked", "stuck"} : wpc' = [wpc EXCEPT ![w] = l]
  BY DEF EndTaken, PanicTaken, queueVars, WGoto
<1>2. \/ served' = served \cup load[w] /\ UNCHANGED <<dlq, crashed>>
      \/ dlq' = dlq \cup load[w] /\ UNCHANGED <<served, crashed>>
      \/ crashed' = crashed \cup load[w] /\ UNCHANGED <<served, dlq>>
  BY DEF EndTaken, PanicTaken
<1>3. UNCHANGED forced
  BY DEF EndTaken, PanicTaken, Finish, slotVars
<1>4. Phase[w] = "running" /\ InTurn[w] = load[w]
  BY <1>1, ViewHolds DEF View
<1>5. Moves(w, "none", {})
  <2>1. PICK l \in {"top", "capped", "panicked", "stuck"} : wpc' = [wpc EXCEPT ![w] = l]
    BY <1>1
  <2>2. wpc'[w] = l
    BY <2>1 DEF IInv, TypeOK
  <2>3. /\ Phase' = [Phase EXCEPT ![w] = Phase'[w]]
        /\ InTurn' = [InTurn EXCEPT ![w] = InTurn'[w]]
    BY <1>1, <2>1, LoopOthers
  <2>4. load'[w] = {}
    BY <1>1, QueueTypes, Sets DEF Loading
  <2>5. Phase'[w] = "none" /\ InTurn'[w] = {}
    BY <2>2, <2>4, ViewHoldsNext DEF View
  <2> QED BY <2>3, <2>5 DEF Moves
<1>6. UNCHANGED <<Waits, forced, removed>>
  BY <1>1, <1>3, SameWaits
<1> QED BY <1>2, <1>4, <1>5, <1>6, OverStep, Sets

-----------------------------------------------------------------------------
LEMMA InitSession == Init => Session!QueueInit
<1> SUFFICES ASSUME Init PROVE Session!QueueInit
  OBVIOUS
<1>1. Phase = [o \in Owners |-> "none"] /\ InTurn = [o \in Owners |-> {}]
  <2>1. \A o \in Owners : load[o] = {} /\ (o \in Messages => pc[o] \in {"queued", "unsent"})
    BY DEF Init
  <2>2. \A o \in Owners : o \notin Messages => wpc[o] = "idle"
    BY DEF Init, Owners
  <2>3. \A o \in Owners : Phase[o] = "none"
    BY <2>1, <2>2 DEF Phase
  <2>4. \A o \in Owners : InTurn[o] = {}
    BY <2>1 DEF InTurn
  <2>5. Phase = [o \in Owners |-> Phase[o]] /\ InTurn = [o \in Owners |-> InTurn[o]]
    BY DEF Phase, InTurn
  <2> QED BY <2>3, <2>4, <2>5
<1>2. Waits = ToSet(RestoredRows)
  <2>1. \A i \in DOMAIN RestoredRows : RestoredRows[i] \in Messages
    BY DrainAssumption, LenProperties, ElementOfSeq
  <2>2. /\ DOMAIN queue = DOMAIN RestoredRows
        /\ \A i \in DOMAIN queue : queue[i].msgs = {RestoredRows[i]}
    BY DEF Init
  <2> QED BY <2>1, <2>2 DEF Waits, Queued, ToSet
<1> QED BY <1>1, <1>2 DEF Init, Session!QueueInit

LEMMA StepSession ==
  IInv /\ IInv' /\ OwnLoaded /\ [Next]_vars => [Session!QueueNext]_(Session!sessionVars)
<1> SUFFICES ASSUME IInv, IInv', OwnLoaded, [Next]_vars
             PROVE  Session!QueueNext \/ UNCHANGED Session!sessionVars
  OBVIOUS
<1>1. CASE UNCHANGED vars
  <2>1. UNCHANGED <<queue, load, pc, wpc, forced>> /\ UNCHANGED fateVars
    BY <1>1 DEF vars, queueVars, slotVars, loopVars
  <2> QED BY <2>1, NoStep DEF Still
<1>2. ASSUME NEW m \in Messages, Send(m) \/ Call(m) \/ Turn(m)
      PROVE  Session!QueueNext \/ UNCHANGED Session!sessionVars
  BY <1>2, QuietSenderStep, EnqueueStep, LockStep, RejectStep, RegisterStep, EndStep
     DEF Send, Call, Turn
<1>3. ASSUME NEW m \in Messages, CancelPendingMessage(m) \/ Promote(m)
      PROVE  Session!QueueNext \/ UNCHANGED Session!sessionVars
  BY <1>3, UserStep
<1>4. ASSUME NEW w \in Workers, Loop(w) \/ TurnTaken(w)
      PROVE  Session!QueueNext \/ UNCHANGED Session!sessionVars
  BY <1>4, QuietLoopStep, PeekStep, TakeStep, RegisterTakenStep, TakeNothingStep, EndTakenStep
     DEF Loop, TurnTaken
<1> QED BY <1>1, <1>2, <1>3, <1>4, InterruptStep DEF Next

(* However many senders, loops and users there are, the queue, its three   *)
(* mutexes and the flag serve every message at most once and lose no       *)
(* follow-up, in turns of which one at a time takes its messages; and      *)
(* until a second cancel removes the entry of a live run, one at a time    *)
(* has the session, from the first dequeue to Finish                       *)
(* (pending_queue.go:285-289, turn_dispatch.go:298-303, :392-395,          *)
(* run_registry.go:366-380).                                               *)
THEOREM RefinesSession == Spec => ImplementsSession
<1>1. IInv /\ IInv' /\ OwnLoaded /\ [Next]_vars => [Session!QueueNext]_(Session!sessionVars)
  BY StepSession
<1> QED
  BY <1>1, InitSession, Invariant, OwnLoadedHolds, PTL
     DEF Spec, ImplementsSession, Session!QueueSpec
=============================================================================
