------------------------- MODULE PendingQueue_proofs -------------------------
(***************************************************************************)
(* Nothing that changes is forgotten by the batched flush, a store at rest *)
(* holds what memory holds, and a process that ends after Close has lost   *)
(* nothing: for any sessions, messages, goroutines and bounds.             *)
(*                                                                         *)
(* The invariant is about the flush, whatever the queues hold.  The timer  *)
(* that an operation relies on has not fired, or its goroutine still waits *)
(* for the lock (TimerLives): this makes FlushComing inductive.  The       *)
(* goroutine that is past the lock holds it (LockHeld), so that the        *)
(* snapshot it writes is the last one taken (SnapshotIsLast) and the store *)
(* never goes back (StoreIsLast).  What Close wrote stays current unless a *)
(* queue changes after its snapshot (CloseIsLast).                         *)
(***************************************************************************)
EXTENDS PendingQueue, TLAPS

FlushSteps == {"store", "replace", "take", "save"}

Stages == FlushSteps \cup {"idle", "wait", "closed"}

FlushTypes ==
  /\ arming \in Nat /\ ticking \in Nat
  /\ wpc \in [Writers \cup {Ticker} -> Stages]
  /\ DOMAIN snap = Writers \cup {Ticker}

TimerLives == timerSet => (ticking > 0 \/ \E w \in Flushers : wpc[w] = "wait")

LockHeld == \A w \in Writers : wpc[w] \in FlushSteps => flushMu = w

SnapshotIsLast ==
  \A w \in Writers : wpc[w] = "replace" => (snap[w] = seen /\ ~synced)

StoreIsLast == synced => rows = Entries(seen)

CloserCloses == wpc[Closer] # "idle" => phase = "closing"

CloseIsLast ==
  phase = "closing" /\ ~late /\ wpc[Closer] \in {"replace", "take", "save", "closed"}
    => queues = seen

GoroutinesEnd == ~Running => \A w \in Writers : wpc[w] = "idle"

IInv == /\ FlushTypes /\ TimerLives /\ FlushComing /\ LockHeld
        /\ SnapshotIsLast /\ StoreIsLast
        /\ CloserCloses /\ CloseIsLast /\ GoroutinesEnd /\ CloseIsDurable

LEMMA InitInvariant == Init => IInv
<1> SUFFICES ASSUME Init PROVE IInv
  OBVIOUS
<1> USE DEF Init, Writers, Running
<1>1. FlushTypes /\ TimerLives
  BY DEF FlushTypes, TimerLives, Stages
<1>2. FlushComing /\ LockHeld /\ SnapshotIsLast /\ StoreIsLast
  BY DEF FlushComing, LockHeld, SnapshotIsLast, StoreIsLast, FlushSteps
<1>3. CloserCloses /\ CloseIsLast /\ GoroutinesEnd /\ CloseIsDurable
  BY DEF CloserCloses, CloseIsLast, GoroutinesEnd, CloseIsDurable
<1> QED BY <1>1, <1>2, <1>3 DEF IInv

(* What an operation on a queue does to the flush: one more is arming, and *)
(* a change while Close runs is late.                                      *)
LEMMA ChangeKeeps ==
  ASSUME IInv, NEW s, NEW q, Change(s, q)
  PROVE  IInv'
<1> USE DEF Change, diskVars, Running
<1>1. FlushTypes' /\ TimerLives' /\ LockHeld' /\ SnapshotIsLast' /\ StoreIsLast'
  BY DEF IInv, FlushTypes, TimerLives, LockHeld, SnapshotIsLast, StoreIsLast, Entries
<1>2. FlushComing'
  <2>1. arming' > 0
    BY DEF IInv, FlushTypes
  <2> QED BY <2>1 DEF FlushComing, FlushPending
<1>3. CloserCloses' /\ CloseIsLast' /\ GoroutinesEnd' /\ CloseIsDurable'
  BY DEF IInv, CloserCloses, CloseIsLast, GoroutinesEnd, CloseIsDurable
<1> QED BY <1>1, <1>2, <1>3 DEF IInv

LEMMA SendKeeps ==
  ASSUME IInv, NEW m \in Messages, Send(m)
  PROVE  IInv'
<1>1. \E s, q : Change(s, q)
  BY DEF Send, Enqueue, EnqueueInject, EnqueueFollowup, AppendNew
<1> QED BY <1>1, ChangeKeeps

LEMMA TakeKeeps ==
  ASSUME IInv, NEW s \in Sessions, Take(s)
  PROVE  IInv'
<1>1. \E q : Change(s, q)
  BY DEF Take, FlushLeadingInjects, DequeueLeadingInjects, Dequeue, RemoveEntry,
         FlushSession, Shrink
<1> QED BY <1>1, ChangeKeeps

LEMMA EditKeeps ==
  ASSUME IInv, NEW s \in Sessions, Edit(s)
  PROVE  IInv'
<1>1. \E q : Change(s, q)
  BY DEF Edit, Update, PromoteToFront, Rearrange
<1> QED BY <1>1, ChangeKeeps

(* Of two operations one arms the timer, and the other finds it alive.     *)
LEMMA SchedulePersistKeeps ==
  ASSUME IInv, SchedulePersist
  PROVE  IInv'
<1> USE DEF SchedulePersist, memVars, diskVars, histVars
<1>1. FlushTypes' /\ ticking' >= ticking
  BY DEF IInv, FlushTypes
<1>2. TimerLives'
  BY <1>1 DEF IInv, TimerLives, FlushTypes
<1>3. FlushComing'
  BY <1>2 DEF TimerLives, FlushComing, FlushPending, Writers
<1>4. LockHeld' /\ SnapshotIsLast' /\ StoreIsLast'
  BY DEF IInv, LockHeld, SnapshotIsLast, StoreIsLast, Entries
<1>5. CloserCloses' /\ CloseIsLast' /\ GoroutinesEnd' /\ CloseIsDurable'
  BY DEF IInv, CloserCloses, CloseIsLast, GoroutinesEnd, CloseIsDurable, Running, Durable, Entries
<1> QED BY <1>1, <1>2, <1>3, <1>4, <1>5 DEF IInv

LEMMA FireKeeps ==
  ASSUME IInv, NEW w \in Flushers, Fire(w)
  PROVE  IInv'
<1> USE DEF Fire, Goto, memVars, diskVars, histVars
<1>1. FlushTypes'
  BY DEF IInv, FlushTypes, Stages, FlushSteps, Writers
<1>2. wpc'[w] = "wait" /\ \A x \in Writers : x # w => wpc'[x] = wpc[x]
  BY DEF IInv, FlushTypes, Writers
<1>3. TimerLives' /\ FlushComing'
  BY <1>2 DEF TimerLives, FlushComing, FlushPending, Writers
<1>4. LockHeld' /\ SnapshotIsLast' /\ StoreIsLast'
  BY <1>2 DEF IInv, LockHeld, SnapshotIsLast, StoreIsLast, Entries, FlushSteps
<1>5. CloserCloses' /\ CloseIsLast' /\ GoroutinesEnd' /\ CloseIsDurable'
  BY <1>2, QueueAssumption DEF IInv, CloserCloses, CloseIsLast, GoroutinesEnd, CloseIsDurable,
         Running, Durable, Entries, Writers
<1> QED BY <1>1, <1>3, <1>4, <1>5 DEF IInv

(* The flush that takes the lock has still to look at the queues.          *)
LEMMA BeginFlushKeeps ==
  ASSUME IInv, NEW w \in Writers, BeginFlush(w)
  PROVE  IInv'
<1> USE DEF BeginFlush, Goto, memVars, diskVars, histVars
<1>1. FlushTypes'
  BY DEF IInv, FlushTypes, Stages, FlushSteps, Writers
<1>2. wpc'[w] = "store" /\ \A x \in Writers : x # w => wpc'[x] = wpc[x]
  BY DEF IInv, FlushTypes
<1>3. TimerLives'
  BY <1>2, QueueAssumption DEF IInv, TimerLives, Writers
<1>4. FlushComing'
  BY <1>2 DEF FlushComing, FlushPending
<1>5. LockHeld' /\ SnapshotIsLast' /\ StoreIsLast'
  BY <1>2, QueueAssumption DEF IInv, LockHeld, SnapshotIsLast, StoreIsLast, Entries, FlushSteps
<1>6. CloserCloses' /\ CloseIsLast' /\ GoroutinesEnd' /\ CloseIsDurable'
  BY <1>2 DEF IInv, CloserCloses, CloseIsLast, GoroutinesEnd, CloseIsDurable,
         Running, Durable, Entries, Writers
<1> QED BY <1>1, <1>3, <1>4, <1>5, <1>6 DEF IInv

LEMMA TakeSnapshotKeeps ==
  ASSUME IInv, NEW w \in Writers, TakeSnapshot(w)
  PROVE  IInv'
<1> USE DEF TakeSnapshot, Goto, memVars, diskVars
<1>1. FlushTypes'
  BY DEF IInv, FlushTypes, Stages, FlushSteps, Writers
<1>2. /\ wpc'[w] = "replace" /\ \A x \in Writers : x # w => wpc'[x] = wpc[x]
      /\ snap'[w] = queues
  BY DEF IInv, FlushTypes
<1>3. \A x \in Writers : x # w => wpc[x] \notin FlushSteps
  BY DEF IInv, LockHeld, FlushSteps
<1>4. TimerLives'
  BY <1>2 DEF IInv, TimerLives, Writers
<1>5. FlushComing' /\ StoreIsLast'
  BY DEF FlushComing, StoreIsLast
<1>6. LockHeld' /\ SnapshotIsLast'
  BY <1>2, <1>3 DEF IInv, LockHeld, SnapshotIsLast, FlushSteps
<1>7. CloserCloses' /\ CloseIsLast' /\ GoroutinesEnd' /\ CloseIsDurable'
  BY <1>2 DEF IInv, CloserCloses, CloseIsLast, GoroutinesEnd, CloseIsDurable,
         Running, Durable, Writers
<1> QED BY <1>1, <1>4, <1>5, <1>6, <1>7 DEF IInv

(* What is written is the last snapshot, so the store moves forward only.  *)
LEMMA ReplaceRowsKeeps ==
  ASSUME IInv, NEW w \in Writers, ReplaceRows(w)
  PROVE  IInv'
<1> USE DEF ReplaceRows, Goto, memVars
<1>1. FlushTypes'
  BY DEF IInv, FlushTypes, Stages, FlushSteps, Writers
<1>2. wpc'[w] = "take" /\ \A x \in Writers : x # w => wpc'[x] = wpc[x]
  BY DEF IInv, FlushTypes
<1>3. \A x \in Writers : x # w => wpc[x] \notin FlushSteps
  BY DEF IInv, LockHeld, FlushSteps
<1>4. TimerLives'
  BY <1>2 DEF IInv, TimerLives, Writers
<1>5. FlushComing'
  BY <1>2 DEF IInv, FlushComing, FlushPending, Running
<1>6. LockHeld' /\ SnapshotIsLast'
  BY <1>2, <1>3 DEF IInv, LockHeld, SnapshotIsLast, FlushSteps
<1>7. StoreIsLast'
  BY DEF IInv, StoreIsLast, SnapshotIsLast, Entries
<1>8. CloserCloses' /\ CloseIsLast' /\ GoroutinesEnd' /\ CloseIsDurable'
  BY <1>2 DEF IInv, CloserCloses, CloseIsLast, GoroutinesEnd, CloseIsDurable,
         Running, Durable, Writers
<1> QED BY <1>1, <1>4, <1>5, <1>6, <1>7, <1>8 DEF IInv

LEMMA TakeFileSnapshotKeeps ==
  ASSUME IInv, NEW w \in Writers \cup {Ticker}, TakeFileSnapshot(w)
  PROVE  IInv'
<1> USE DEF TakeFileSnapshot, Goto, memVars, diskVars, histVars
<1>1. FlushTypes'
  BY DEF IInv, FlushTypes, Stages, FlushSteps, Writers
<1>2. wpc'[w] = "save" /\ \A x \in Writers : x # w => wpc'[x] = wpc[x] /\ snap'[x] = snap[x]
  BY DEF IInv, FlushTypes
<1>3. w \in Writers => wpc[w] = "take"
  BY QueueAssumption DEF Writers
<1>4. TimerLives' /\ FlushComing'
  BY <1>2, <1>3 DEF IInv, TimerLives, FlushComing, FlushPending, Running, Writers
<1>5. LockHeld' /\ SnapshotIsLast' /\ StoreIsLast'
  BY <1>2, <1>3 DEF IInv, LockHeld, SnapshotIsLast, StoreIsLast, Entries, FlushSteps
<1>6. CloserCloses' /\ CloseIsLast' /\ GoroutinesEnd' /\ CloseIsDurable'
  BY <1>2, <1>3 DEF IInv, CloserCloses, CloseIsLast, GoroutinesEnd, CloseIsDurable,
         Running, Durable, Entries, Writers
<1> QED BY <1>1, <1>4, <1>5, <1>6 DEF IInv

LEMMA SaveFileKeeps ==
  ASSUME IInv, NEW w \in Writers \cup {Ticker}, SaveFile(w)
  PROVE  IInv'
<1> USE DEF SaveFile, Goto, memVars, histVars
<1>1. FlushTypes'
  BY DEF IInv, FlushTypes, Stages, FlushSteps, Writers
<1>2. /\ wpc'[w] = IF w = Closer THEN "closed" ELSE "idle"
      /\ \A x \in Writers : x # w => wpc'[x] = wpc[x] /\ snap'[x] = snap[x]
  BY DEF IInv, FlushTypes
<1>3. \A x \in Writers : x # w /\ flushMu = x => flushMu' = x
  BY DEF IInv
<1>4. TimerLives' /\ FlushComing'
  BY <1>2 DEF IInv, TimerLives, FlushComing, FlushPending, Running, Writers
<1>5. LockHeld' /\ SnapshotIsLast' /\ StoreIsLast'
  BY <1>2, <1>3 DEF IInv, LockHeld, SnapshotIsLast, StoreIsLast, Entries, FlushSteps
<1>6. CloserCloses' /\ CloseIsLast' /\ GoroutinesEnd' /\ CloseIsDurable'
  BY <1>2 DEF IInv, CloserCloses, CloseIsLast, GoroutinesEnd, CloseIsDurable,
         Running, Durable, Entries, Writers
<1> QED BY <1>1, <1>4, <1>5, <1>6 DEF IInv

LEMMA WriteKeeps ==
  ASSUME IInv, NEW w \in Writers, Write(w)
  PROVE  IInv'
BY BeginFlushKeeps, TakeSnapshotKeeps, ReplaceRowsKeeps, TakeFileSnapshotKeeps,
   SaveFileKeeps DEF Write

(* Close takes the timer away, and waits for the lock itself.              *)
LEMMA CloseKeeps ==
  ASSUME IInv, Close
  PROVE  IInv'
<1> USE DEF Close, Goto, memVars, diskVars, histVars
<1>1. FlushTypes'
  BY DEF IInv, FlushTypes, Stages, FlushSteps, Writers
<1>2. wpc'[Closer] = "wait" /\ \A x \in Writers : x # Closer => wpc'[x] = wpc[x]
  BY DEF IInv, FlushTypes, Writers
<1>3. TimerLives' /\ FlushComing'
  BY <1>2 DEF TimerLives, FlushComing, FlushPending, Writers
<1>4. LockHeld' /\ SnapshotIsLast' /\ StoreIsLast'
  BY <1>2 DEF IInv, LockHeld, SnapshotIsLast, StoreIsLast, Entries, FlushSteps
<1>5. CloserCloses' /\ CloseIsLast' /\ GoroutinesEnd' /\ CloseIsDurable'
  BY <1>2 DEF IInv, CloserCloses, CloseIsLast, GoroutinesEnd, CloseIsDurable, Running
<1> QED BY <1>1, <1>3, <1>4, <1>5 DEF IInv

(* The end of the process leaves the store as it is.                       *)
LEMMA EndKeeps ==
  ASSUME IInv, NEW p \in {"closed", "stopped", "crashed"}, End(p),
         p = "closed" => Durable
  PROVE  IInv'
<1> USE DEF End, memVars, diskVars, histVars
<1>1. FlushTypes' /\ \A w \in Writers : wpc'[w] = "idle"
  BY DEF IInv, FlushTypes, Stages, Writers
<1>2. TimerLives' /\ FlushComing'
  BY DEF TimerLives, FlushComing, Running
<1>3. LockHeld' /\ SnapshotIsLast' /\ StoreIsLast'
  BY <1>1 DEF IInv, LockHeld, SnapshotIsLast, StoreIsLast, Entries, FlushSteps
<1>4. CloserCloses' /\ CloseIsLast' /\ GoroutinesEnd' /\ CloseIsDurable'
  BY <1>1 DEF IInv, CloserCloses, CloseIsLast, GoroutinesEnd, CloseIsDurable,
         Durable, Entries, Writers
<1> QED BY <1>1, <1>2, <1>3, <1>4 DEF IInv

LEMMA ExitClosedKeeps ==
  ASSUME IInv, ExitClosed
  PROVE  IInv'
<1>1. Durable
  BY DEF IInv, ExitClosed, CloseIsLast, StoreIsLast, Durable
<1> QED BY <1>1, EndKeeps DEF ExitClosed

LEMMA StartKeeps ==
  ASSUME IInv, Start
  PROVE  IInv'
<1> USE DEF Start, flushVars
<1>1. FlushTypes' /\ TimerLives'
  BY DEF IInv, FlushTypes, TimerLives
<1>2. FlushComing' /\ CloseIsDurable'
  BY DEF FlushComing, CloseIsDurable
<1>3. \A w \in Writers : wpc'[w] = "idle"
  BY DEF IInv, GoroutinesEnd
<1>4. LockHeld' /\ SnapshotIsLast' /\ CloserCloses' /\ CloseIsLast' /\ GoroutinesEnd'
  BY <1>3 DEF LockHeld, SnapshotIsLast, CloserCloses, CloseIsLast, GoroutinesEnd,
              FlushSteps, Writers
<1>5. synced' => rows' = Entries(queues')
  BY DEF LoadFails, LoadRows, Migrate, diskVars
<1>6. StoreIsLast'
  BY <1>5 DEF StoreIsLast, Entries
<1> QED BY <1>1, <1>2, <1>4, <1>6 DEF IInv

(* The inductive invariant holds in every behaviour.                       *)
THEOREM Invariance == Spec => []IInv
<1>1. IInv /\ [Next]_vars => IInv'
  <2> SUFFICES ASSUME IInv, [Next]_vars PROVE IInv'
    OBVIOUS
  <2>1. ASSUME NEW m \in Messages, Send(m) PROVE IInv'
    BY <2>1, SendKeeps
  <2>2. ASSUME NEW s \in Sessions, Take(s) \/ Edit(s) PROVE IInv'
    BY <2>2, TakeKeeps, EditKeeps
  <2>3. ASSUME SchedulePersist PROVE IInv'
    BY <2>3, SchedulePersistKeeps
  <2>4. ASSUME NEW w \in Flushers, Fire(w) PROVE IInv'
    BY <2>4, FireKeeps
  <2>5. ASSUME NEW w \in Writers, Write(w) PROVE IInv'
    BY <2>5, WriteKeeps
  <2>6. CASE TakeFileSnapshot(Ticker) \/ SaveFile(Ticker)
    BY <2>6, TakeFileSnapshotKeeps, SaveFileKeeps
  <2>7. CASE Close
    BY <2>7, CloseKeeps
  <2>8. CASE ExitClosed
    BY <2>8, ExitClosedKeeps
  <2>9. CASE Stop \/ Crash
    BY <2>9, EndKeeps DEF Stop, Crash
  <2>10. CASE Start
    BY <2>10, StartKeeps
  <2>11. CASE Tick \/ UNCHANGED vars
    <3>1. UNCHANGED <<memVars, flushVars, diskVars, phase, histVars>>
      BY <2>11 DEF Tick, vars
    <3> QED
      BY <3>1 DEF memVars, flushVars, diskVars, histVars, IInv, FlushTypes, TimerLives,
                  FlushComing, FlushPending, LockHeld, SnapshotIsLast, StoreIsLast,
                  CloserCloses, CloseIsLast, GoroutinesEnd, CloseIsDurable, Durable,
                  Running, Entries
  <2> QED
    BY <2>1, <2>2, <2>3, <2>4, <2>5, <2>6, <2>7, <2>8, <2>9, <2>10, <2>11 DEF Next
<1> QED BY InitInvariant, <1>1, PTL DEF Spec

(* A change of a queue is never forgotten by the batched flush.            *)
THEOREM ChangesNotForgotten == Spec => []FlushComing
<1>1. IInv => FlushComing
  BY DEF IInv
<1> QED BY Invariance, <1>1, PTL

(* A store at rest holds what memory holds.                                *)
THEOREM RestIsDurable == Spec => []SettledMeansDurable
<1>1. IInv => SettledMeansDurable
  BY DEF IInv, SettledMeansDurable, FlushComing, StoreIsLast
<1> QED BY Invariance, <1>1, PTL

(* A process that ends after Close has written everything.                 *)
THEOREM CloseLosesNothing == Spec => []CloseIsDurable
<1>1. IInv => CloseIsDurable
  BY DEF IInv
<1> QED BY Invariance, <1>1, PTL
=============================================================================
