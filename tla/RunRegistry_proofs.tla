------------------------- MODULE RunRegistry_proofs -------------------------
(***************************************************************************)
(* Theorems about RunRegistry, for any turns of any kinds, any callers and *)
(* with or without the admission gate.                                     *)
(*                                                                         *)
(* That two turns never run at once follows from the slot: the live turn's *)
(* cancel func is in it (SlotCoversLiveRun), and whoever holds the session *)
(* lock to register has found none there (NoCancelOverwritten).  The two   *)
(* hold each other up; beside the types they need that the lock is held by *)
(* exactly the turn between its check and its registration, and that a     *)
(* turn is inside Finish only where it calls it.                           *)
(*                                                                         *)
(* On that rest three more: a Cancel that reports a run has stopped it,    *)
(* because the entry and what Cancel loaded of it hold their owner's       *)
(* cancel func (CancelInv); a recorded intent reaches the turn that        *)
(* registers over it; and the slot is free when all turns are over,        *)
(* because every entry has a Finish or a FinishPlaceholder still to come   *)
(* that matches it (Kept), unless a Cancel put back one that was gone      *)
(* (Haunts).                                                               *)
(***************************************************************************)
EXTENDS RunRegistry, TLAPS

(* The session lock belongs to the turn between recheck and registration.  *)
LockHeld ==
  \A t \in Turns : lock = t <=> pc[t] \in {"locked", "applyReg", "markReg"}

FinishInside == \A t \in Turns : fin[t] # "no" => pc[t] \in FinPcs

IInv ==
  TypeOK /\ FinishInside /\ LockHeld /\ NoCancelOverwritten /\ SlotCoversLiveRun

-----------------------------------------------------------------------------
(* What a turn may store and where it goes on.                             *)
LEMMA StoreFacts ==
  /\ DOMAIN Store = {"writeAdmitted", "writeAwaiting", "writeAnswered",
                     "writeSuspended", "writeCompleted", "writeFailed",
                     "writeRefused", "writeBuild"}
  /\ \A w \in DOMAIN Store :
       /\ Store[w].st \in {"running", "awaiting_user", "completed", "failed"}
       /\ Store[w].next \in {"building", "awaiting", "executing", "finAdmit", "finReg"}
  /\ Store["writeBuild"].next = "finReg"
BY DEF Store

(* The check of SetRunStatus leads to a place.                             *)
LEMMA TryPlace ==
  ASSUME NEW t \in Turns, pc \in [Turns -> Places],
         NEW w \in DOMAIN Store, TrySetStatus(t, w)
  PROVE  pc' \in [Turns -> Places]
<1>1. w \in Places /\ Store[w].next \in Places
  BY StoreFacts DEF Places, FinPcs
<1>2. QED BY <1>1 DEF TrySetStatus, Goto

(* Every operation on a slot yields a slot.                                *)
LEMMA StoredOK ==
  ASSUME SlotOK, NEW run \in RunIds, NEW t \in Turns, RegistryAssumption
  PROVE  /\ slot' = StoreCancelable(slot, run, t) => SlotOK'
         /\ slot' = StoreRunner(slot, run, t) => SlotOK'
<1>1. ASSUME slot' = StoreCancelable(slot, run, t) PROVE SlotOK'
  BY <1>1 DEF SlotOK, SlotType, StoreCancelable, StoreLocked, ZeroRun
<1>2. ASSUME slot' = StoreRunner(slot, run, t) PROVE SlotOK'
  BY <1>2 DEF SlotOK, SlotType, StoreRunner, StoreLocked, ZeroRun
<1>3. QED BY <1>1, <1>2

(* So do the operations that only mark or remove an entry.                 *)
LEMMA MarkedOK ==
  ASSUME SlotOK, NEW run, NEW l
  PROVE  /\ UNCHANGED slot => SlotOK'
         /\ slot' = MarkCancelling(slot, run) => SlotOK'
         /\ slot' = RecordCancelIntent(slot, l) => SlotOK'
         /\ slot' = StorePlaceholderIfVacant(slot) => SlotOK'
         /\ slot' = FinishPlaceholder(slot) => SlotOK'
         /\ slot' = Vacant => SlotOK'
<1>1. ASSUME slot' = MarkCancelling(slot, run) PROVE SlotOK'
  BY <1>1 DEF SlotOK, SlotType, MarkCancelling, StoreLocked
<1>2. ASSUME slot' = RecordCancelIntent(slot, l) PROVE SlotOK'
  BY <1>2 DEF SlotOK, SlotType, RecordCancelIntent, StoreLocked
<1>3. ASSUME slot' = StorePlaceholderIfVacant(slot) PROVE SlotOK'
  BY <1>3 DEF SlotOK, SlotType, StorePlaceholderIfVacant, StoreLocked, ZeroRun
<1>4. slot' = Vacant => SlotOK'
  BY DEF SlotOK, SlotType, Vacant, ZeroRun
<1>5. slot' = FinishPlaceholder(slot) => SlotOK'
  BY <1>4 DEF FinishPlaceholder, SlotOK
<1>6. QED BY <1>1, <1>2, <1>3, <1>4, <1>5 DEF SlotOK


(* Run ids are fresh: no two turns share one, and none is empty.           *)
LEMMA Ids ==
  ASSUME RegistryAssumption, NEW t \in Turns, NEW u \in Turns
  PROVE  /\ Reg(t) # NoRun /\ Admit(t) # NoRun
         /\ Reg(t) # Admit(u)
         /\ Reg(t) = Reg(u) => t = u
         /\ Admit(t) = Admit(u) => t = u
         /\ IdsOf(t) \cap IdsOf(u) # {} => t = u
BY DEF RegistryAssumption, Reg, Admit, IdsOf

(* StoreCancelable puts its cancel func in, StoreRunner keeps the old one. *)
LEMMA StoreEffects ==
  ASSUME NEW s, NEW run, NEW t
  PROVE  /\ StoreCancelable(s, run, t).cancel = t
         /\ run # NoRun => StoreCancelable(s, run, t).run = run
         /\ StoreCancelable(s, run, t).present
         /\ StoreRunner(s, run, t).cancel = s.cancel
         /\ run # NoRun => StoreRunner(s, run, t).run = run
         /\ StoreRunner(s, run, t).present
BY DEF StoreCancelable, StoreRunner, StoreLocked, ZeroRun

(* Marking an entry changes neither its run nor its cancel func, and       *)
(* leaves an entry even where there was none.                              *)
LEMMA MarkEffects ==
  ASSUME NEW s \in SlotType, NEW run
  PROVE  /\ MarkCancelling(s, run).cancel = s.cancel
         /\ MarkCancelling(s, run).run = s.run
         /\ MarkCancelling(s, run).present
BY DEF SlotType, MarkCancelling, StoreLocked

(* Nor does recording an intent on it.                                     *)
LEMMA IntentEffects ==
  ASSUME NEW s \in SlotType, NEW l
  PROVE  /\ RecordCancelIntent(s, l).cancel = s.cancel
         /\ RecordCancelIntent(s, l).run = s.run
         /\ RecordCancelIntent(s, l).present
BY DEF SlotType, RecordCancelIntent, StoreLocked

(* A placeholder holds no cancel func, and only an entry without a run is  *)
(* removed as a placeholder.                                               *)
LEMMA PlaceholderEffects ==
  ASSUME NEW s
  PROVE  /\ Vacant.cancel = NoTurn
         /\ ~s.present => StorePlaceholderIfVacant(s).cancel = NoTurn
         /\ FinishPlaceholder(s) \in {Vacant, s}
         /\ FinishPlaceholder(s) # s => s.run = NoRun
BY DEF Vacant, ZeroRun, StorePlaceholderIfVacant, FinishPlaceholder,
       IsPlaceholderOnly, StoreLocked

(* What the steps that mark an entry make of it.                           *)
LEMMA MarkingStep ==
  ASSUME SlotOK,
         \/ \E t \in Turns : MarkApplied(t)
         \/ \E c \in Callers : CancelByFunc(c) \/ CancelByIntent(c) \/ CancelByRunner(c)
  PROVE  /\ slot'.cancel = slot.cancel
         /\ slot'.run = slot.run
         /\ slot.present => slot'.present
<1>1. slot \in SlotType
  BY DEF SlotOK
<1>2. ASSUME NEW run, slot' = MarkCancelling(slot, run)
      PROVE  slot'.cancel = slot.cancel /\ slot'.run = slot.run /\ slot'.present
  BY <1>1, <1>2, MarkEffects
<1>3. ASSUME NEW l, slot' = RecordCancelIntent(slot, l)
      PROVE  slot'.cancel = slot.cancel /\ slot'.run = slot.run /\ slot'.present
  BY <1>1, <1>3, IntentEffects
<1>4. QED
  BY <1>2, <1>3 DEF MarkApplied, CancelByFunc, CancelByIntent, CancelByRunner

(* Applying an intent leaves the slot alone and goes on or starts marking. *)
LEMMA ApplyStep ==
  ASSUME NEW t \in Turns, ApplyIntent(t), ctx \in [Turns -> BOOLEAN]
  PROVE  /\ UNCHANGED <<slot, status, pending, cancelMu, fin, callerVars>>
         /\ pc[t] \in {"applyReg", "applyRun"}
         /\ ctx' \in [Turns -> BOOLEAN]
         /\ \/ UNCHANGED lock /\ pc[t] = "applyReg" /\ Goto(t, "markReg")
            \/ UNCHANGED lock /\ pc[t] = "applyRun" /\ Goto(t, "markRun")
            \/ Applied(t)
<1> DEFINE hit == {x \in {slot.cancel, slot.runner} :
                     x # NoTurn /\ (slot.cancel # NoTurn => x = slot.cancel)}
           found == slot.present /\ slot.run = ApplyId(t) /\ hit # {}
<1>1. /\ pc[t] \in {"applyReg", "applyRun"}
      /\ UNCHANGED <<slot, status, pending, cancelMu, fin, callerVars>>
      /\ IF found
           THEN /\ ctx' = [x \in Turns |-> ctx[x] \/ x \in hit]
                /\ Goto(t, IF pc[t] = "applyReg" THEN "markReg" ELSE "markRun")
                /\ UNCHANGED lock
           ELSE Applied(t) /\ UNCHANGED ctx
  BY DEF ApplyIntent
<1> HIDE DEF hit, found
<1>2. CASE found
  <2>1. ctx' = [x \in Turns |-> ctx[x] \/ x \in hit] /\ UNCHANGED lock
    BY <1>1, <1>2
  <2>2. ctx' \in [Turns -> BOOLEAN]
    BY <2>1
  <2>3. QED
    BY <1>1, <1>2, <2>1, <2>2
<1>3. CASE ~found
  BY <1>1, <1>3
<1>4. QED
  BY <1>2, <1>3

-----------------------------------------------------------------------------
(* Every step keeps the types.                                             *)
LEMMA TypeStep ==
  ASSUME RegistryAssumption, TypeOK, [Next]_vars
  PROVE  TypeOK'
<1> USE RegistryAssumption, StoreFacts, MarkedOK
    DEF TypeOK, Goto, Call, turnVars, callerVars, noTurnMoves, Places,
        CallerPlaces, FinPcs, Terminal
<1>0. ASSUME NEW t \in Turns PROVE Reg(t) \in RunIds /\ Admit(t) \in RunIds
  BY DEF Reg, Admit, RunIds
<1> USE <1>0
<1>1. ASSUME NEW t \in Turns, ClaimPlaceholder(t) PROVE TypeOK'
  BY <1>1 DEF ClaimPlaceholder
<1>2. ASSUME NEW t \in Turns, ResumeFails(t) PROVE TypeOK'
  BY <1>2 DEF ResumeFails
<1>3. ASSUME NEW t \in Turns, ResumeExit(t) PROVE TypeOK'
  BY <1>3 DEF ResumeExit
<1>4. ASSUME NEW t \in Turns, Admission(t) PROVE TypeOK'
  BY <1>4 DEF Admission
<1>5. ASSUME NEW t \in Turns, Lock(t) PROVE TypeOK'
  BY <1>5 DEF Lock, Left
<1>6. ASSUME NEW t \in Turns, LockQueued(t) PROVE TypeOK'
  BY <1>6 DEF LockQueued
<1>7. ASSUME NEW t \in Turns, RejectLocked(t) PROVE TypeOK'
  BY <1>7 DEF RejectLocked, Left
<1>8. ASSUME NEW t \in Turns, Register(t) PROVE TypeOK'
  BY <1>8, StoredOK DEF Register
<1>9. ASSUME NEW t \in Turns, AdmitTurn(t) PROVE TypeOK'
  BY <1>9, TryPlace DEF AdmitTurn
<1>10. ASSUME NEW t \in Turns, AdmitFails(t) PROVE TypeOK'
  BY <1>10 DEF AdmitFails
<1>11. ASSUME NEW t \in Turns, InputRefused(t) PROVE TypeOK'
  BY <1>11, TryPlace DEF InputRefused
<1>12. ASSUME NEW t \in Turns, Build(t) PROVE TypeOK'
  BY <1>12, StoredOK DEF Build
<1>13. ASSUME NEW t \in Turns, BuildFails(t) PROVE TypeOK'
  BY <1>13 DEF BuildFails
<1>14. ASSUME NEW t \in Turns, ApplyIntent(t) PROVE TypeOK'
  <2>1. /\ UNCHANGED <<slot, status, pending, cancelMu, fin, cpc, snap, seen, evicted>>
        /\ ctx' \in [Turns -> BOOLEAN]
    BY <1>14, ApplyStep
  <2>2. lock' \in Turns \cup {NoTurn} /\ pc' \in [Turns -> Places]
    BY <1>14, ApplyStep DEF Applied
  <2>3. QED
    BY <2>1, <2>2
<1>15. ASSUME NEW t \in Turns, MarkApplied(t) PROVE TypeOK'
  BY <1>15 DEF MarkApplied, Applied
<1>16. ASSUME NEW t \in Turns, AwaitUser(t) PROVE TypeOK'
  BY <1>16, TryPlace DEF AwaitUser
<1>17. ASSUME NEW t \in Turns, EndWait(t) PROVE TypeOK'
  BY <1>17, TryPlace DEF EndWait
<1>18. ASSUME NEW t \in Turns, Suspend(t) PROVE TypeOK'
  BY <1>18, TryPlace DEF Suspend
<1>19. ASSUME NEW t \in Turns, Complete(t) PROVE TypeOK'
  BY <1>19, TryPlace DEF Complete
<1>20. ASSUME NEW t \in Turns, Fail(t) PROVE TypeOK'
  BY <1>20, TryPlace DEF Fail
<1>21. ASSUME NEW t \in Turns, WriteStatus(t) PROVE TypeOK'
  BY <1>21 DEF WriteStatus
<1>22. ASSUME NEW t \in Turns, PersistFails(t) PROVE TypeOK'
  BY <1>22 DEF PersistFails
<1>23. ASSUME NEW t \in Turns, FinishSlot(t) PROVE TypeOK'
  BY <1>23 DEF FinishSlot, FinId
<1>24. ASSUME NEW t \in Turns, FinishCheck(t) PROVE TypeOK'
  BY <1>24 DEF FinishCheck, LeaveFinish, AfterFinish, Left
<1>25. ASSUME NEW t \in Turns, FinishStatus(t) PROVE TypeOK'
  BY <1>25 DEF FinishStatus, FinId, LeaveFinish, AfterFinish, Left
<1>26. ASSUME NEW t \in Turns, FinishDrop(t) PROVE TypeOK'
  BY <1>26 DEF FinishDrop, LeaveFinish, NoStatus, AfterFinish, Left
<1>27. ASSUME NEW c \in Callers, StopCalled(c) PROVE TypeOK'
  BY <1>27 DEF StopCalled, SlotType, SlotOK
<1>28. ASSUME NEW c \in Callers, PauseCalled(c) PROVE TypeOK'
  BY <1>28 DEF PauseCalled, SlotType, SlotOK
<1>29. ASSUME NEW c \in Callers, UnpauseCalled(c) PROVE TypeOK'
  BY <1>29 DEF UnpauseCalled, SlotType, SlotOK
<1>30. ASSUME NEW c \in Callers, SweepFinds(c) PROVE TypeOK'
  BY <1>30 DEF SweepFinds, SlotType, SlotOK
<1>31. ASSUME NEW c \in Callers, CancelLoad(c) PROVE TypeOK'
  <2>1. cpc' \in [Callers -> CallerPlaces] /\ snap' \in [Callers -> SlotType]
    BY <1>31 DEF CancelLoad, AfterCancel, SlotOK
  <2>2. ctx' \in [Turns -> BOOLEAN] /\ cancelMu' \in Turns \cup Callers \cup {NoTurn}
    BY <1>31 DEF CancelLoad
  <2>3. QED
    BY <1>31, <2>1, <2>2 DEF CancelLoad
<1>32. ASSUME NEW c \in Callers, ForceDelete(c) PROVE TypeOK'
  <2>1. cpc' \in [Callers -> CallerPlaces]
    BY <1>32 DEF ForceDelete, CancelReturns, AfterCancel
  <2>2. evicted' \in SUBSET Turns
    BY <1>32 DEF ForceDelete, EntryOwners, Owner, SlotOK, SlotType
  <2>3. QED
    BY <1>32, <2>1, <2>2 DEF ForceDelete, CancelReturns
<1>33. ASSUME NEW c \in Callers, CancelByFunc(c) PROVE TypeOK'
  BY <1>33 DEF CancelByFunc, CancelReturns, AfterCancel, SlotType, SlotOK
<1>34. ASSUME NEW c \in Callers, CancelByIntent(c) PROVE TypeOK'
  BY <1>34 DEF CancelByIntent, SlotType, SlotOK
<1>35. ASSUME NEW c \in Callers, IntentStatus(c) PROVE TypeOK'
  BY <1>35 DEF IntentStatus, CancelReturns, AfterCancel, SlotType, SlotOK
<1>36. ASSUME NEW c \in Callers, CancelByRunner(c) PROVE TypeOK'
  <2>1. cpc' \in [Callers -> CallerPlaces] /\ cancelMu' \in Turns \cup Callers \cup {NoTurn}
    BY <1>36 DEF CancelByRunner, CancelReturns, AfterCancel
  <2>2. SlotOK'
    BY <1>36 DEF CancelByRunner
  <2>3. /\ ctx' \in [Turns -> BOOLEAN]
        /\ status' \in [run : RunIds \cup {NoRun},
                        st  : {"none", "running", "awaiting_user", "paused"} \cup Terminal]
    BY <1>36 DEF CancelByRunner, SlotType
  <2>4. QED
    BY <1>36, <2>1, <2>2, <2>3 DEF CancelByRunner
<1>37. ASSUME NEW c \in Callers, DeleteRunner(c) PROVE TypeOK'
  <2>1. cpc' \in [Callers -> CallerPlaces]
    BY <1>37 DEF DeleteRunner, CancelReturns, AfterCancel
  <2>2. evicted' \in SUBSET Turns
    BY <1>37 DEF DeleteRunner, EntryOwners, Owner, SlotOK, SlotType
  <2>3. QED
    BY <1>37, <2>1, <2>2 DEF DeleteRunner, CancelReturns
<1>38. ASSUME NEW c \in Callers, PublishCheck(c) PROVE TypeOK'
  BY <1>38 DEF PublishCheck, Published, SlotType, SlotOK
<1>39. ASSUME NEW c \in Callers, PublishWrite(c) PROVE TypeOK'
  BY <1>39 DEF PublishWrite, Published, SlotType, SlotOK
<1>40. ASSUME NEW c \in Callers, MarkPaused(c) PROVE TypeOK'
  BY <1>40 DEF MarkPaused, SlotType, SlotOK
<1>41. ASSUME StatusExpires PROVE TypeOK'
  BY <1>41 DEF StatusExpires, NoStatus
<1>42. ASSUME UNCHANGED vars PROVE TypeOK'
  BY <1>42 DEF vars
<1>43. QED
  BY <1>1, <1>2, <1>3, <1>4, <1>5, <1>6, <1>7, <1>8, <1>9, <1>10, <1>11,
        <1>12, <1>13, <1>14, <1>15, <1>16, <1>17, <1>18, <1>19, <1>20,
        <1>21, <1>22, <1>23, <1>24, <1>25, <1>26, <1>27, <1>28, <1>29,
        <1>30, <1>31, <1>32, <1>33, <1>34, <1>35, <1>36, <1>37, <1>38,
        <1>39, <1>40, <1>41, <1>42
  DEF Next, TurnStep, CallerStep

-----------------------------------------------------------------------------
(* A turn that registers finds no cancel func: only registering brings one *)
(* into the slot, and the lock excludes that between check and store.      *)
LEMMA LockStep ==
  ASSUME RegistryAssumption, IInv, TypeOK', [Next]_vars
  PROVE  FinishInside' /\ LockHeld' /\ NoCancelOverwritten'
<1> USE RegistryAssumption, StoreFacts, StoreEffects, PlaceholderEffects
    DEF IInv, TypeOK, FinishInside, FinPcs, LockHeld, NoCancelOverwritten,
        SlotOK, Goto, Call, turnVars, callerVars, noTurnMoves
<1>1. ASSUME NEW t \in Turns, ClaimPlaceholder(t) PROVE FinishInside' /\ LockHeld' /\ NoCancelOverwritten'
  BY <1>1 DEF ClaimPlaceholder, Busy
<1>2. ASSUME NEW t \in Turns, ResumeFails(t) PROVE FinishInside' /\ LockHeld' /\ NoCancelOverwritten'
  BY <1>2 DEF ResumeFails
<1>3. ASSUME NEW t \in Turns, ResumeExit(t) PROVE FinishInside' /\ LockHeld' /\ NoCancelOverwritten'
  BY <1>3 DEF ResumeExit
<1>4. ASSUME NEW t \in Turns, Admission(t) PROVE FinishInside' /\ LockHeld' /\ NoCancelOverwritten'
  BY <1>4 DEF Admission, Busy
<1>5. ASSUME NEW t \in Turns, Lock(t) PROVE FinishInside' /\ LockHeld' /\ NoCancelOverwritten'
  BY <1>5 DEF Lock, Busy, IsPlaceholderOnly, Left
<1>6. ASSUME NEW t \in Turns, LockQueued(t) PROVE FinishInside' /\ LockHeld' /\ NoCancelOverwritten'
  BY <1>6 DEF LockQueued, Busy
<1>7. ASSUME NEW t \in Turns, RejectLocked(t) PROVE FinishInside' /\ LockHeld' /\ NoCancelOverwritten'
  BY <1>7 DEF RejectLocked, Left
<1>8. ASSUME NEW t \in Turns, Register(t) PROVE FinishInside' /\ LockHeld' /\ NoCancelOverwritten'
  BY <1>8 DEF Register
<1>9. ASSUME NEW t \in Turns, AdmitTurn(t) PROVE FinishInside' /\ LockHeld' /\ NoCancelOverwritten'
  BY <1>9 DEF AdmitTurn, TrySetStatus
<1>10. ASSUME NEW t \in Turns, AdmitFails(t) PROVE FinishInside' /\ LockHeld' /\ NoCancelOverwritten'
  BY <1>10 DEF AdmitFails
<1>11. ASSUME NEW t \in Turns, InputRefused(t) PROVE FinishInside' /\ LockHeld' /\ NoCancelOverwritten'
  BY <1>11 DEF InputRefused, TrySetStatus
<1>12. ASSUME NEW t \in Turns, Build(t) PROVE FinishInside' /\ LockHeld' /\ NoCancelOverwritten'
  BY <1>12 DEF Build
<1>13. ASSUME NEW t \in Turns, BuildFails(t) PROVE FinishInside' /\ LockHeld' /\ NoCancelOverwritten'
  BY <1>13 DEF BuildFails
<1>14. ASSUME NEW t \in Turns, ApplyIntent(t) PROVE FinishInside' /\ LockHeld' /\ NoCancelOverwritten'
  BY <1>14, ApplyStep DEF Applied
<1>15. ASSUME NEW t \in Turns, MarkApplied(t) PROVE FinishInside' /\ LockHeld' /\ NoCancelOverwritten'
  <2>1. /\ slot'.cancel = slot.cancel
        /\ slot'.run = slot.run
        /\ slot.present => slot'.present
    BY <1>15, MarkingStep
  <2>2. QED
    BY <1>15, <2>1 DEF MarkApplied, Applied
<1>16. ASSUME NEW t \in Turns, AwaitUser(t) PROVE FinishInside' /\ LockHeld' /\ NoCancelOverwritten'
  BY <1>16 DEF AwaitUser, TrySetStatus
<1>17. ASSUME NEW t \in Turns, EndWait(t) PROVE FinishInside' /\ LockHeld' /\ NoCancelOverwritten'
  BY <1>17 DEF EndWait, TrySetStatus
<1>18. ASSUME NEW t \in Turns, Suspend(t) PROVE FinishInside' /\ LockHeld' /\ NoCancelOverwritten'
  BY <1>18 DEF Suspend, TrySetStatus
<1>19. ASSUME NEW t \in Turns, Complete(t) PROVE FinishInside' /\ LockHeld' /\ NoCancelOverwritten'
  BY <1>19 DEF Complete, TrySetStatus
<1>20. ASSUME NEW t \in Turns, Fail(t) PROVE FinishInside' /\ LockHeld' /\ NoCancelOverwritten'
  BY <1>20 DEF Fail, TrySetStatus
<1>21. ASSUME NEW t \in Turns, WriteStatus(t) PROVE FinishInside' /\ LockHeld' /\ NoCancelOverwritten'
  BY <1>21 DEF WriteStatus
<1>22. ASSUME NEW t \in Turns, PersistFails(t) PROVE FinishInside' /\ LockHeld' /\ NoCancelOverwritten'
  BY <1>22 DEF PersistFails
<1>23. ASSUME NEW t \in Turns, FinishSlot(t) PROVE FinishInside' /\ LockHeld' /\ NoCancelOverwritten'
  BY <1>23 DEF FinishSlot, FinId
<1>24. ASSUME NEW t \in Turns, FinishCheck(t) PROVE FinishInside' /\ LockHeld' /\ NoCancelOverwritten'
  BY <1>24 DEF FinishCheck, LeaveFinish, AfterFinish, Left
<1>25. ASSUME NEW t \in Turns, FinishStatus(t) PROVE FinishInside' /\ LockHeld' /\ NoCancelOverwritten'
  BY <1>25 DEF FinishStatus, FinId, LeaveFinish, AfterFinish, Left
<1>26. ASSUME NEW t \in Turns, FinishDrop(t) PROVE FinishInside' /\ LockHeld' /\ NoCancelOverwritten'
  BY <1>26 DEF FinishDrop, LeaveFinish, AfterFinish, Left
<1>27. ASSUME NEW c \in Callers, StopCalled(c) PROVE FinishInside' /\ LockHeld' /\ NoCancelOverwritten'
  BY <1>27 DEF StopCalled
<1>28. ASSUME NEW c \in Callers, PauseCalled(c) PROVE FinishInside' /\ LockHeld' /\ NoCancelOverwritten'
  BY <1>28 DEF PauseCalled
<1>29. ASSUME NEW c \in Callers, UnpauseCalled(c) PROVE FinishInside' /\ LockHeld' /\ NoCancelOverwritten'
  BY <1>29 DEF UnpauseCalled
<1>30. ASSUME NEW c \in Callers, SweepFinds(c) PROVE FinishInside' /\ LockHeld' /\ NoCancelOverwritten'
  BY <1>30 DEF SweepFinds
<1>31. ASSUME NEW c \in Callers, CancelLoad(c) PROVE FinishInside' /\ LockHeld' /\ NoCancelOverwritten'
  BY <1>31 DEF CancelLoad
<1>32. ASSUME NEW c \in Callers, ForceDelete(c) PROVE FinishInside' /\ LockHeld' /\ NoCancelOverwritten'
  BY <1>32 DEF ForceDelete, CancelReturns
<1>33. ASSUME NEW c \in Callers, CancelByFunc(c) PROVE FinishInside' /\ LockHeld' /\ NoCancelOverwritten'
  <2>1. /\ slot'.cancel = slot.cancel
        /\ slot'.run = slot.run
        /\ slot.present => slot'.present
    BY <1>33, MarkingStep
  <2>2. QED
    BY <1>33, <2>1 DEF CancelByFunc, CancelReturns
<1>34. ASSUME NEW c \in Callers, CancelByIntent(c) PROVE FinishInside' /\ LockHeld' /\ NoCancelOverwritten'
  <2>1. /\ slot'.cancel = slot.cancel
        /\ slot'.run = slot.run
        /\ slot.present => slot'.present
    BY <1>34, MarkingStep
  <2>2. QED
    BY <1>34, <2>1 DEF CancelByIntent
<1>35. ASSUME NEW c \in Callers, IntentStatus(c) PROVE FinishInside' /\ LockHeld' /\ NoCancelOverwritten'
  BY <1>35 DEF IntentStatus, CancelReturns
<1>36. ASSUME NEW c \in Callers, CancelByRunner(c) PROVE FinishInside' /\ LockHeld' /\ NoCancelOverwritten'
  <2>1. /\ slot'.cancel = slot.cancel
        /\ slot'.run = slot.run
        /\ slot.present => slot'.present
    BY <1>36, MarkingStep
  <2>2. QED
    BY <1>36, <2>1 DEF CancelByRunner, CancelReturns
<1>37. ASSUME NEW c \in Callers, DeleteRunner(c) PROVE FinishInside' /\ LockHeld' /\ NoCancelOverwritten'
  BY <1>37 DEF DeleteRunner, CancelReturns
<1>38. ASSUME NEW c \in Callers, PublishCheck(c) PROVE FinishInside' /\ LockHeld' /\ NoCancelOverwritten'
  BY <1>38 DEF PublishCheck, Published
<1>39. ASSUME NEW c \in Callers, PublishWrite(c) PROVE FinishInside' /\ LockHeld' /\ NoCancelOverwritten'
  BY <1>39 DEF PublishWrite, Published
<1>40. ASSUME NEW c \in Callers, MarkPaused(c) PROVE FinishInside' /\ LockHeld' /\ NoCancelOverwritten'
  BY <1>40 DEF MarkPaused
<1>41. ASSUME StatusExpires PROVE FinishInside' /\ LockHeld' /\ NoCancelOverwritten'
  BY <1>41 DEF StatusExpires
<1>42. ASSUME UNCHANGED vars PROVE FinishInside' /\ LockHeld' /\ NoCancelOverwritten'
  BY <1>42 DEF vars
<1>43. QED
  BY <1>1, <1>2, <1>3, <1>4, <1>5, <1>6, <1>7, <1>8, <1>9, <1>10, <1>11,
        <1>12, <1>13, <1>14, <1>15, <1>16, <1>17, <1>18, <1>19, <1>20,
        <1>21, <1>22, <1>23, <1>24, <1>25, <1>26, <1>27, <1>28, <1>29,
        <1>30, <1>31, <1>32, <1>33, <1>34, <1>35, <1>36, <1>37, <1>38,
        <1>39, <1>40, <1>41, <1>42
  DEF Next, TurnStep, CallerStep


(* Until a forced removal, nothing takes the slot from the live turn: no   *)
(* other registers, and no Finish or placeholder removal matches its entry *)
LEMMA CoverStep ==
  ASSUME RegistryAssumption, IInv, TypeOK', [Next]_vars
  PROVE  SlotCoversLiveRun'
<1> USE RegistryAssumption, StoreFacts, Ids, StoreEffects, PlaceholderEffects
    DEF IInv, TypeOK, FinishInside, FinPcs, LockHeld, NoCancelOverwritten,
        SlotCoversLiveRun, Live, SlotOK, Goto, Call, turnVars, callerVars,
        noTurnMoves
<1>1. ASSUME NEW t \in Turns, ClaimPlaceholder(t) PROVE SlotCoversLiveRun'
  BY <1>1 DEF ClaimPlaceholder, Busy
<1>2. ASSUME NEW t \in Turns, ResumeFails(t) PROVE SlotCoversLiveRun'
  BY <1>2 DEF ResumeFails
<1>3. ASSUME NEW t \in Turns, ResumeExit(t) PROVE SlotCoversLiveRun'
  <2>1. ASSUME NEW u \in Turns, Live(u), evicted = {} PROVE slot' = slot
    BY <1>3, <2>1, Ids DEF ResumeExit, IdsOf
  <2>2. QED
    BY <1>3, <2>1 DEF ResumeExit
<1>4. ASSUME NEW t \in Turns, Admission(t) PROVE SlotCoversLiveRun'
  BY <1>4 DEF Admission, Busy
<1>5. ASSUME NEW t \in Turns, Lock(t) PROVE SlotCoversLiveRun'
  BY <1>5 DEF Lock, Busy, IsPlaceholderOnly, Left
<1>6. ASSUME NEW t \in Turns, LockQueued(t) PROVE SlotCoversLiveRun'
  BY <1>6 DEF LockQueued, Busy
<1>7. ASSUME NEW t \in Turns, RejectLocked(t) PROVE SlotCoversLiveRun'
  BY <1>7 DEF RejectLocked, Left
<1>8. ASSUME NEW t \in Turns, Register(t) PROVE SlotCoversLiveRun'
  BY <1>8 DEF Register, IdsOf
<1>9. ASSUME NEW t \in Turns, AdmitTurn(t) PROVE SlotCoversLiveRun'
  BY <1>9 DEF AdmitTurn, TrySetStatus
<1>10. ASSUME NEW t \in Turns, AdmitFails(t) PROVE SlotCoversLiveRun'
  BY <1>10 DEF AdmitFails
<1>11. ASSUME NEW t \in Turns, InputRefused(t) PROVE SlotCoversLiveRun'
  BY <1>11 DEF InputRefused, TrySetStatus
<1>12. ASSUME NEW t \in Turns, Build(t) PROVE SlotCoversLiveRun'
  BY <1>12 DEF Build, IdsOf
<1>13. ASSUME NEW t \in Turns, BuildFails(t) PROVE SlotCoversLiveRun'
  BY <1>13 DEF BuildFails
<1>14. ASSUME NEW t \in Turns, ApplyIntent(t) PROVE SlotCoversLiveRun'
  BY <1>14, ApplyStep DEF Applied
<1>15. ASSUME NEW t \in Turns, MarkApplied(t) PROVE SlotCoversLiveRun'
  <2>1. /\ slot'.cancel = slot.cancel
        /\ slot'.run = slot.run
        /\ slot.present => slot'.present
    BY <1>15, MarkingStep
  <2>2. QED
    BY <1>15, <2>1 DEF MarkApplied, Applied
<1>16. ASSUME NEW t \in Turns, AwaitUser(t) PROVE SlotCoversLiveRun'
  BY <1>16 DEF AwaitUser, TrySetStatus
<1>17. ASSUME NEW t \in Turns, EndWait(t) PROVE SlotCoversLiveRun'
  BY <1>17 DEF EndWait, TrySetStatus
<1>18. ASSUME NEW t \in Turns, Suspend(t) PROVE SlotCoversLiveRun'
  BY <1>18 DEF Suspend, TrySetStatus
<1>19. ASSUME NEW t \in Turns, Complete(t) PROVE SlotCoversLiveRun'
  BY <1>19 DEF Complete, TrySetStatus
<1>20. ASSUME NEW t \in Turns, Fail(t) PROVE SlotCoversLiveRun'
  BY <1>20 DEF Fail, TrySetStatus
<1>21. ASSUME NEW t \in Turns, WriteStatus(t) PROVE SlotCoversLiveRun'
  BY <1>21 DEF WriteStatus
<1>22. ASSUME NEW t \in Turns, PersistFails(t) PROVE SlotCoversLiveRun'
  BY <1>22 DEF PersistFails
<1>23. ASSUME NEW t \in Turns, FinishSlot(t) PROVE SlotCoversLiveRun'
  BY <1>23 DEF FinishSlot, FinId, FinishMatches, IdsOf
<1>24. ASSUME NEW t \in Turns, FinishCheck(t) PROVE SlotCoversLiveRun'
  BY <1>24 DEF FinishCheck, LeaveFinish, AfterFinish, Left
<1>25. ASSUME NEW t \in Turns, FinishStatus(t) PROVE SlotCoversLiveRun'
  BY <1>25 DEF FinishStatus, FinId, LeaveFinish, AfterFinish, Left
<1>26. ASSUME NEW t \in Turns, FinishDrop(t) PROVE SlotCoversLiveRun'
  BY <1>26 DEF FinishDrop, LeaveFinish, AfterFinish, Left
<1>27. ASSUME NEW c \in Callers, StopCalled(c) PROVE SlotCoversLiveRun'
  BY <1>27 DEF StopCalled
<1>28. ASSUME NEW c \in Callers, PauseCalled(c) PROVE SlotCoversLiveRun'
  BY <1>28 DEF PauseCalled
<1>29. ASSUME NEW c \in Callers, UnpauseCalled(c) PROVE SlotCoversLiveRun'
  BY <1>29 DEF UnpauseCalled
<1>30. ASSUME NEW c \in Callers, SweepFinds(c) PROVE SlotCoversLiveRun'
  BY <1>30 DEF SweepFinds
<1>31. ASSUME NEW c \in Callers, CancelLoad(c) PROVE SlotCoversLiveRun'
  BY <1>31 DEF CancelLoad
<1>32. ASSUME NEW c \in Callers, ForceDelete(c) PROVE SlotCoversLiveRun'
  BY <1>32 DEF ForceDelete, CancelReturns, EntryOwners, Owner
<1>33. ASSUME NEW c \in Callers, CancelByFunc(c) PROVE SlotCoversLiveRun'
  <2>1. /\ slot'.cancel = slot.cancel
        /\ slot'.run = slot.run
        /\ slot.present => slot'.present
    BY <1>33, MarkingStep
  <2>2. QED
    BY <1>33, <2>1 DEF CancelByFunc, CancelReturns
<1>34. ASSUME NEW c \in Callers, CancelByIntent(c) PROVE SlotCoversLiveRun'
  <2>1. /\ slot'.cancel = slot.cancel
        /\ slot'.run = slot.run
        /\ slot.present => slot'.present
    BY <1>34, MarkingStep
  <2>2. QED
    BY <1>34, <2>1 DEF CancelByIntent
<1>35. ASSUME NEW c \in Callers, IntentStatus(c) PROVE SlotCoversLiveRun'
  BY <1>35 DEF IntentStatus, CancelReturns
<1>36. ASSUME NEW c \in Callers, CancelByRunner(c) PROVE SlotCoversLiveRun'
  <2>1. /\ slot'.cancel = slot.cancel
        /\ slot'.run = slot.run
        /\ slot.present => slot'.present
    BY <1>36, MarkingStep
  <2>2. QED
    BY <1>36, <2>1 DEF CancelByRunner, CancelReturns
<1>37. ASSUME NEW c \in Callers, DeleteRunner(c) PROVE SlotCoversLiveRun'
  BY <1>37 DEF DeleteRunner, CancelReturns, EntryOwners, Owner
<1>38. ASSUME NEW c \in Callers, PublishCheck(c) PROVE SlotCoversLiveRun'
  BY <1>38 DEF PublishCheck, Published
<1>39. ASSUME NEW c \in Callers, PublishWrite(c) PROVE SlotCoversLiveRun'
  BY <1>39 DEF PublishWrite, Published
<1>40. ASSUME NEW c \in Callers, MarkPaused(c) PROVE SlotCoversLiveRun'
  BY <1>40 DEF MarkPaused
<1>41. ASSUME StatusExpires PROVE SlotCoversLiveRun'
  BY <1>41 DEF StatusExpires
<1>42. ASSUME UNCHANGED vars PROVE SlotCoversLiveRun'
  BY <1>42 DEF vars
<1>43. QED
  BY <1>1, <1>2, <1>3, <1>4, <1>5, <1>6, <1>7, <1>8, <1>9, <1>10, <1>11,
        <1>12, <1>13, <1>14, <1>15, <1>16, <1>17, <1>18, <1>19, <1>20,
        <1>21, <1>22, <1>23, <1>24, <1>25, <1>26, <1>27, <1>28, <1>29,
        <1>30, <1>31, <1>32, <1>33, <1>34, <1>35, <1>36, <1>37, <1>38,
        <1>39, <1>40, <1>41, <1>42
  DEF Next, TurnStep, CallerStep

-----------------------------------------------------------------------------
(* The invariant holds from the start and in every step.                   *)
THEOREM Invariance == Spec => []IInv
<1> USE RegistryAssumption
<1>1. Init => IInv
  <2> SUFFICES ASSUME Init PROVE IInv
    OBVIOUS
  <2>1. TypeOK
    BY DEF Init, TypeOK, SlotOK, SlotType, Vacant, ZeroRun, NoStatus, Places,
           CallerPlaces
  <2>2. FinishInside /\ LockHeld /\ NoCancelOverwritten /\ SlotCoversLiveRun
    BY StoreFacts DEF Init, FinishInside, LockHeld, NoCancelOverwritten,
           SlotCoversLiveRun, Live, FinPcs
  <2>3. QED
    BY <2>1, <2>2 DEF IInv
<1>2. IInv /\ [Next]_vars => IInv'
  <2> SUFFICES ASSUME IInv, [Next]_vars PROVE IInv'
    OBVIOUS
  <2>1. TypeOK'
    BY TypeStep DEF IInv
  <2>2. QED
    BY <2>1, LockStep, CoverStep DEF IInv
<1>3. QED
  BY <1>1, <1>2, PTL DEF Spec

(* The slot, the status, the lock and the places stay of their types, and  *)
(* an absent entry has no leftovers.                                       *)
THEOREM TypeCorrect == Spec => []TypeOK
<1>1. IInv => TypeOK
  BY DEF IInv
<1>2. QED
  BY <1>1, Invariance, PTL

(* No StoreCancelable ever overwrites another run's cancel func, not even  *)
(* after forced removals and late stores.                                  *)
THEOREM RegistrationSafe == Spec => []NoCancelOverwritten
<1>1. IInv => NoCancelOverwritten
  BY DEF IInv
<1>2. QED
  BY <1>1, Invariance, PTL

(* Short of a forced removal the slot is the live turn's own.              *)
THEOREM SlotIsLiveRuns == Spec => []SlotCoversLiveRun
<1>1. IInv => SlotCoversLiveRun
  BY DEF IInv
<1>2. QED
  BY <1>1, Invariance, PTL

(* Short of a forced removal no two turns of a session run at once: both   *)
(* would have to own the one cancel func in the slot.                      *)
THEOREM MutualExclusion == Spec => []AtMostOneRun
<1>1. IInv => AtMostOneRun
  BY DEF IInv, SlotCoversLiveRun, AtMostOneRun
<1>2. QED
  BY <1>1, Invariance, PTL

-----------------------------------------------------------------------------
(* A Cancel that reports a run stopped it.  Short of a forced removal an   *)
(* entry under a turn's id holds that turn's cancel func, and is marked    *)
(* only once the turn is cancelled; so is what a Cancel has loaded, which  *)
(* may be older than the slot.  The path it takes follows from that entry. *)
Owned(s) == \A t \in Owner(s.run) : s.cancel = t /\ (s.cancelling => ctx[t])

MarkedLate == \A t \in Turns : pc[t] \in {"markReg", "markRun"} => ctx[t]

ApplyingOwn ==
  \A t \in Turns : pc[t] \in {"applyReg", "applyRun"} => slot.run = ApplyId(t)

PathFits(c) ==
  /\ cpc[c] \in {"idle", "enter", "unpausing"} => snap[c].run = NoRun
  /\ cpc[c] = "force" => snap[c].cancelling
  /\ cpc[c] \in {"intent", "intentStatus", "runner", "delete"} => snap[c].cancel = NoTurn
  /\ cpc[c] \in {"publish", "publishWrite", "pausing", "done"}
       => \A t \in Owner(snap[c].run) : ctx[t]

CancelInv ==
  evicted = {} =>
    /\ Owned(slot)
    /\ MarkedLate
    /\ ApplyingOwn
    /\ \A c \in Callers : Owned(snap[c]) /\ PathFits(c)

(* No step takes a turn back from being cancelled, or an eviction away.    *)
LEMMA OnlyMore ==
  ASSUME TypeOK, [Next]_vars
  PROVE  /\ \A t \in Turns : ctx[t] => ctx'[t]
         /\ evicted \subseteq evicted'
<1> USE DEF callerVars, noTurnMoves
<1>1. ASSUME NEW t \in Turns, TurnStep(t)
      PROVE  evicted' = evicted /\ (ctx' = ctx \/ ApplyIntent(t))
  BY <1>1
  DEF TurnStep, ClaimPlaceholder, ResumeFails, ResumeExit, Admission, Lock,
      LockQueued, RejectLocked, Register, AdmitTurn, AdmitFails, InputRefused,
      Build, BuildFails, ApplyIntent, MarkApplied, AwaitUser, EndWait, Suspend,
      Complete, Fail, WriteStatus, PersistFails, FinishSlot, FinishCheck,
      FinishStatus, FinishDrop
<1>2. ASSUME NEW t \in Turns, ApplyIntent(t), NEW u \in Turns, ctx[u] PROVE ctx'[u]
  <2> DEFINE hit == {x \in {slot.cancel, slot.runner} :
                       x # NoTurn /\ (slot.cancel # NoTurn => x = slot.cancel)}
  <2>1. ctx' = [x \in Turns |-> ctx[x] \/ x \in hit] \/ ctx' = ctx
    BY <1>2 DEF ApplyIntent
  <2> HIDE DEF hit
  <2>2. QED
    BY <1>2, <2>1
<1>3. ASSUME NEW c \in Callers, CallerStep(c)
      PROVE  evicted \subseteq evicted' /\ \A u \in Turns : ctx[u] => ctx'[u]
  <2>1. CASE CancelLoad(c)
    BY <2>1 DEF CancelLoad
  <2>2. CASE CancelByFunc(c) \/ CancelByRunner(c)
    <3>1. \E x : ctx' = [ctx EXCEPT ![x] = TRUE]
      BY <2>2 DEF CancelByFunc, CancelByRunner
    <3>2. evicted' = evicted
      BY <2>2 DEF CancelByFunc, CancelByRunner
    <3>3. QED
      BY <3>1, <3>2 DEF TypeOK
  <2>3. CASE ForceDelete(c) \/ DeleteRunner(c)
    BY <2>3 DEF ForceDelete, DeleteRunner
  <2>4. ASSUME ~CancelLoad(c), ~CancelByFunc(c), ~CancelByRunner(c),
               ~ForceDelete(c), ~DeleteRunner(c)
        PROVE  evicted' = evicted /\ ctx' = ctx
    BY <1>3, <2>4
    DEF CallerStep, StopCalled, PauseCalled, UnpauseCalled, SweepFinds,
        CancelByIntent, IntentStatus, PublishCheck, PublishWrite, MarkPaused
  <2>5. QED
    BY <2>1, <2>2, <2>3, <2>4
<1>4. CASE StatusExpires
  BY <1>4 DEF StatusExpires
<1>5. CASE UNCHANGED vars
  BY <1>5 DEF vars
<1>6. ASSUME NEW t \in Turns, TurnStep(t), NEW u \in Turns
      PROVE  evicted \subseteq evicted' /\ (ctx[u] => ctx'[u])
  BY <1>1, <1>2, <1>6
<1>7. CASE \E t \in Turns : TurnStep(t)
  BY <1>6, <1>7
<1>8. CASE \E c \in Callers : CallerStep(c)
  BY <1>3, <1>8
<1>9. Next \/ UNCHANGED vars
  OBVIOUS
<1>10. QED
  BY <1>4, <1>5, <1>7, <1>8, <1>9 DEF Next

(* The steps of a turn that touch neither the slot nor a context, and      *)
(* start no marking.                                                       *)
LEMMA QuietTurn ==
  ASSUME TypeOK, FinishInside, NEW t \in Turns,
         \/ ResumeFails(t) \/ Admission(t) \/ Lock(t) \/ LockQueued(t)
         \/ RejectLocked(t) \/ AdmitTurn(t) \/ AdmitFails(t) \/ InputRefused(t)
         \/ BuildFails(t) \/ AwaitUser(t) \/ EndWait(t) \/ Suspend(t)
         \/ Complete(t) \/ Fail(t) \/ WriteStatus(t) \/ PersistFails(t)
         \/ FinishCheck(t) \/ FinishStatus(t) \/ FinishDrop(t)
  PROVE  /\ UNCHANGED <<slot, ctx, callerVars>>
         /\ \E place \in Places \ {"applyReg", "applyRun", "markReg", "markRun"} :
              pc' = [pc EXCEPT ![t] = place] \/ pc' = pc
<1> USE StoreFacts DEF TypeOK, FinishInside, Goto, Places, FinPcs, turnVars
<1>1. CASE ResumeFails(t) \/ Admission(t) \/ Lock(t) \/ LockQueued(t) \/ RejectLocked(t)
  BY <1>1 DEF ResumeFails, Admission, Lock, LockQueued, RejectLocked, Left
<1>2. CASE AdmitTurn(t) \/ AdmitFails(t) \/ InputRefused(t) \/ BuildFails(t)
  BY <1>2 DEF AdmitTurn, AdmitFails, InputRefused, BuildFails, TrySetStatus
<1>3. CASE AwaitUser(t) \/ EndWait(t) \/ Suspend(t)
  BY <1>3 DEF AwaitUser, EndWait, Suspend, TrySetStatus
<1>4. CASE Complete(t) \/ Fail(t)
  BY <1>4 DEF Complete, Fail, TrySetStatus
<1>5. CASE WriteStatus(t) \/ PersistFails(t)
  BY <1>5 DEF WriteStatus, PersistFails
<1>6. CASE FinishCheck(t) \/ FinishStatus(t) \/ FinishDrop(t)
  <2>1. AfterFinish(t) \in Places \ {"applyReg", "applyRun", "markReg", "markRun"}
    BY <1>6 DEF FinishCheck, FinishStatus, FinishDrop, AfterFinish, Left
  <2>2. pc' = pc \/ pc' = [pc EXCEPT ![t] = AfterFinish(t)]
    BY <1>6 DEF FinishCheck, FinishStatus, FinishDrop, LeaveFinish
  <2>3. UNCHANGED <<slot, ctx, callerVars>>
    BY <1>6 DEF FinishCheck, FinishStatus, FinishDrop
  <2>4. QED
    BY <2>1, <2>2, <2>3
<1>7. QED
  BY <1>1, <1>2, <1>3, <1>4, <1>5, <1>6

(* An entry that no turn owns, and the one an operation makes.             *)
LEMMA NobodyOwns ==
  ASSUME RegistryAssumption
  PROVE  Owner(NoRun) = {} /\ \A t \in Turns : Owner(Reg(t)) = {t} /\ Owner(Admit(t)) = {t}
<1>1. ASSUME NEW t \in Turns PROVE Owner(Reg(t)) = {t} /\ Owner(Admit(t)) = {t}
  BY <1>1, Ids DEF Owner, IdsOf
<1>2. Owner(NoRun) = {}
  BY Ids DEF Owner, IdsOf
<1>3. QED
  BY <1>1, <1>2

(* Fresh entries are not marked, and marking touches nothing else that     *)
(* counts here.                                                            *)
LEMMA Marks ==
  ASSUME NEW s \in SlotType, NEW run, NEW t, NEW l
  PROVE  /\ ~StoreCancelable(s, run, t).cancelling
         /\ ~StoreRunner(s, run, t).cancelling
         /\ MarkCancelling(s, run).cancelling => s.cancelling \/ s.run = run
         /\ RecordCancelIntent(s, l).cancelling = s.cancelling
         /\ Vacant.run = NoRun /\ ~Vacant.cancelling
         /\ ~s.present => StorePlaceholderIfVacant(s).run = NoRun
BY DEF SlotType, StoreCancelable, StoreRunner, MarkCancelling, Vacant,
       RecordCancelIntent, StorePlaceholderIfVacant, StoreLocked, ZeroRun

(* What callers have loaded stays fit while they stand still.              *)
LEMMA CallersKeep ==
  ASSUME \A t \in Turns : ctx[t] => ctx'[t],
         NEW c, cpc'[c] = cpc[c], snap'[c] = snap[c],
         Owned(snap[c]), PathFits(c)
  PROVE  Owned(snap[c])' /\ PathFits(c)'
BY DEF Owned, PathFits, Owner

(* A turn applying an intent finds its own entry and is the one it hits.   *)
LEMMA ApplyHits ==
  ASSUME RegistryAssumption, IInv, CancelInv, evicted = {},
         NEW t \in Turns, ApplyIntent(t)
  PROVE  ctx'[t] /\ UNCHANGED slot
         /\ \E place \in {"markReg", "markRun"} : pc' = [pc EXCEPT ![t] = place]
<1>1. /\ slot.present /\ slot.cancel = t
      /\ slot.run = ApplyId(t)
  BY DEF ApplyIntent, IInv, SlotCoversLiveRun, Live, CancelInv, ApplyingOwn
<1> DEFINE hit == {x \in {slot.cancel, slot.runner} :
                     x # NoTurn /\ (slot.cancel # NoTurn => x = slot.cancel)}
<1>2. t \in hit
  BY <1>1 DEF RegistryAssumption
<1>3. /\ UNCHANGED slot
      /\ ctx' = [x \in Turns |-> ctx[x] \/ x \in hit]
      /\ Goto(t, IF pc[t] = "applyReg" THEN "markReg" ELSE "markRun")
  BY <1>1, <1>2 DEF ApplyIntent
<1> HIDE DEF hit
<1>4. QED
  BY <1>2, <1>3 DEF Goto

(* A caller moves alone, and no turn with it.                              *)
LEMMA OneCallerMoves ==
  ASSUME NEW c \in Callers, CallerStep(c)
  PROVE  /\ \E place : cpc' = [cpc EXCEPT ![c] = place]
         /\ \E entry : snap' = [snap EXCEPT ![c] = entry] \/ snap' = snap
         /\ UNCHANGED <<pc, fin, lock>>
<1> USE DEF Call, noTurnMoves
<1>1. CASE CancelLoad(c)
  BY <1>1 DEF CancelLoad
<1>2. CASE StopCalled(c) \/ PauseCalled(c) \/ UnpauseCalled(c) \/ SweepFinds(c)
  BY <1>2 DEF StopCalled, PauseCalled, UnpauseCalled, SweepFinds
<1>3. CASE ForceDelete(c) \/ CancelByFunc(c) \/ IntentStatus(c) \/ DeleteRunner(c)
  BY <1>3 DEF ForceDelete, CancelByFunc, IntentStatus, DeleteRunner, CancelReturns
<1>4. CASE CancelByIntent(c) \/ CancelByRunner(c)
  BY <1>4 DEF CancelByIntent, CancelByRunner, CancelReturns
<1>5. CASE PublishCheck(c) \/ PublishWrite(c) \/ MarkPaused(c)
  BY <1>5 DEF PublishCheck, PublishWrite, MarkPaused
<1>6. QED
  BY <1>1, <1>2, <1>3, <1>4, <1>5 DEF CallerStep

(* The steps of a turn: only registering and building give the slot a run, *)
(* each its own, and marking follows the cancellation.                     *)
LEMMA CancelTurnStep ==
  ASSUME RegistryAssumption, IInv, SlotCoversLiveRun', CancelInv, evicted = {},
         \A u \in Turns : ctx[u] => ctx'[u],
         NEW t \in Turns, TurnStep(t)
  PROVE  Owned(slot)' /\ MarkedLate' /\ ApplyingOwn'
<1> USE DEF CancelInv
<1>1. slot \in SlotType /\ pc \in [Turns -> Places]
  BY DEF IInv, TypeOK, SlotOK
<1>2. ASSUME UNCHANGED slot PROVE Owned(slot)'
  BY <1>2 DEF Owned, Owner
<1>3. ASSUME slot'.run = NoRun PROVE Owned(slot)'
  BY <1>3, NobodyOwns DEF Owned, Owner
<1>4. ASSUME NEW place \in Places \ {"applyReg", "applyRun", "markReg", "markRun"},
             pc' = [pc EXCEPT ![t] = place] \/ pc' = pc
      PROVE  MarkedLate' /\ (slot'.run = slot.run => ApplyingOwn')
  BY <1>1, <1>4 DEF MarkedLate, ApplyingOwn, ApplyId
<1>5. ASSUME slot'.run = NoRun PROVE ApplyingOwn'
  <2>1. ASSUME NEW u \in Turns, pc'[u] \in {"applyReg", "applyRun"} PROVE FALSE
    <3>1. evicted' = {} => slot'.run \in IdsOf(u)
      BY <2>1 DEF SlotCoversLiveRun, Live, IdsOf
    <3>2. evicted' = {}
      BY DEF TurnStep, ClaimPlaceholder, ResumeFails, ResumeExit, Admission,
         Lock, LockQueued, RejectLocked, Register, AdmitTurn, AdmitFails,
         InputRefused, Build, BuildFails, ApplyIntent, MarkApplied, AwaitUser,
         EndWait, Suspend, Complete, Fail, WriteStatus, PersistFails,
         FinishSlot, FinishCheck, FinishStatus, FinishDrop, callerVars
    <3>3. QED
      BY <1>5, <3>1, <3>2, Ids DEF IdsOf
  <2>2. QED
    BY <2>1 DEF ApplyingOwn
<1>6. CASE \/ ResumeFails(t) \/ Admission(t) \/ Lock(t) \/ LockQueued(t)
           \/ RejectLocked(t) \/ AdmitTurn(t) \/ AdmitFails(t) \/ InputRefused(t)
           \/ BuildFails(t) \/ AwaitUser(t) \/ EndWait(t) \/ Suspend(t)
           \/ Complete(t) \/ Fail(t) \/ WriteStatus(t) \/ PersistFails(t)
           \/ FinishCheck(t) \/ FinishStatus(t) \/ FinishDrop(t)
  <2>1. /\ UNCHANGED <<slot, ctx, callerVars>>
        /\ \E place \in Places \ {"applyReg", "applyRun", "markReg", "markRun"} :
             pc' = [pc EXCEPT ![t] = place] \/ pc' = pc
    BY <1>6, QuietTurn DEF IInv
  <2>2. QED
    BY <1>2, <1>4, <2>1
<1>7. CASE ClaimPlaceholder(t) \/ ResumeExit(t)
  <2>1. slot' = slot \/ slot'.run = NoRun
    BY <1>7, <1>1, Marks, PlaceholderEffects
    DEF ClaimPlaceholder, ResumeExit, Busy
  <2>2. \E place \in {"claimed", "done"} : pc' = [pc EXCEPT ![t] = place]
    BY <1>7 DEF ClaimPlaceholder, ResumeExit, Goto
  <2>3. {"claimed", "done"} \subseteq Places \ {"applyReg", "applyRun", "markReg", "markRun"}
    BY DEF Places
  <2>4. QED
    BY <1>2, <1>3, <1>4, <1>5, <2>1, <2>2, <2>3
<1>8. CASE Register(t)
  <2>1. /\ slot' = StoreCancelable(slot, Reg(t), t) /\ pc[t] = "locked" /\ UNCHANGED ctx
        /\ \E place \in {"applyReg", "registered"} : pc' = [pc EXCEPT ![t] = place]
    BY <1>8 DEF Register, Goto
  <2>2. slot'.run = Reg(t) /\ slot'.cancel = t /\ ~slot'.cancelling
    BY <2>1, <1>1, StoreEffects, Marks, Ids
  <2>3. Owned(slot)'
    BY <2>2, NobodyOwns DEF Owned, Owner
  <2>4. MarkedLate'
    BY <2>1, <1>1 DEF MarkedLate
  <2>5. ASSUME NEW u \in Turns, pc[u] \in {"applyReg", "applyRun"} PROVE FALSE
    BY <2>1, <2>5
    DEF IInv, NoCancelOverwritten, SlotCoversLiveRun, Live, RegistryAssumption
  <2>6. ApplyingOwn'
    BY <2>1, <2>2, <2>5, <1>1 DEF ApplyingOwn, ApplyId
  <2>7. QED
    BY <2>3, <2>4, <2>6
<1>9. CASE Build(t)
  <2>1. /\ slot' = StoreRunner(slot, Admit(t), t) /\ pc[t] = "building" /\ UNCHANGED ctx
        /\ \E place \in {"applyRun", "executing"} : pc' = [pc EXCEPT ![t] = place]
    BY <1>9 DEF Build, Goto
  <2>2. slot.cancel = t
    BY <2>1 DEF IInv, SlotCoversLiveRun, Live
  <2>3. slot'.run = Admit(t) /\ slot'.cancel = t /\ ~slot'.cancelling
    BY <2>1, <2>2, <1>1, StoreEffects, Marks, Ids
  <2>4. Owned(slot)'
    BY <2>3, NobodyOwns DEF Owned, Owner
  <2>5. MarkedLate'
    BY <2>1, <1>1 DEF MarkedLate
  <2>6. ASSUME NEW u \in Turns, pc[u] \in {"applyReg", "applyRun"} PROVE FALSE
    BY <2>1, <2>2, <2>6 DEF IInv, SlotCoversLiveRun, Live
  <2>7. ApplyingOwn'
    BY <2>1, <2>3, <2>6, <1>1 DEF ApplyingOwn, ApplyId
  <2>8. QED
    BY <2>4, <2>5, <2>7
<1>10. CASE ApplyIntent(t)
  <2>1. /\ ctx'[t] /\ UNCHANGED slot
        /\ \E place \in {"markReg", "markRun"} : pc' = [pc EXCEPT ![t] = place]
    BY <1>10, ApplyHits
  <2>2. MarkedLate' /\ ApplyingOwn'
    BY <2>1, <1>1 DEF MarkedLate, ApplyingOwn, ApplyId
  <2>3. QED
    BY <1>2, <2>1, <2>2
<1>11. CASE MarkApplied(t)
  <2>1. /\ pc[t] \in {"markReg", "markRun"} /\ UNCHANGED ctx
        /\ slot' = MarkCancelling(slot, IF pc[t] = "markReg" THEN Reg(t) ELSE Admit(t))
        /\ \E place \in {"registered", "executing"} : pc' = [pc EXCEPT ![t] = place]
    BY <1>11 DEF MarkApplied, Applied, Goto
  <2>2. ctx[t] /\ slot.cancel = t /\ slot.run \in IdsOf(t)
    BY <2>1 DEF MarkedLate, IInv, SlotCoversLiveRun, Live
  <2>3. slot'.cancel = slot.cancel /\ slot'.run = slot.run
    BY <2>1, <1>1, MarkEffects
  <2>4. Owned(slot)'
    BY <2>1, <2>2, <2>3, Ids DEF Owned, Owner
  <2>5. {"registered", "executing"} \subseteq Places \ {"applyReg", "applyRun", "markReg", "markRun"}
    BY DEF Places
  <2>6. QED
    BY <1>4, <2>1, <2>3, <2>4, <2>5
<1>12. CASE FinishSlot(t)
  <2>1. slot' = slot \/ slot'.run = NoRun
    BY <1>12, <1>1, Marks DEF FinishSlot
  <2>2. UNCHANGED pc
    BY <1>12 DEF FinishSlot
  <2>3. MarkedLate' /\ (slot'.run = slot.run => ApplyingOwn')
    BY <2>2 DEF MarkedLate, ApplyingOwn, ApplyId
  <2>4. QED
    BY <1>2, <1>3, <1>5, <2>1, <2>3
<1>13. QED
  BY <1>6, <1>7, <1>8, <1>9, <1>10, <1>11, <1>12 DEF TurnStep

(* The steps of a caller, whose entry is then as it is now.                *)
LEMMA CancelCallerStep ==
  ASSUME RegistryAssumption, IInv, SlotCoversLiveRun', CancelInv, evicted' = {},
         evicted = {}, \A u \in Turns : ctx[u] => ctx'[u],
         NEW c \in Callers, CallerStep(c)
  PROVE  Owned(slot)' /\ MarkedLate' /\ ApplyingOwn' /\ Owned(snap[c])' /\ PathFits(c)'
<1> USE DEF CancelInv, Call, noTurnMoves
<1>1. /\ slot \in SlotType /\ snap[c] \in SlotType
      /\ cpc \in [Callers -> CallerPlaces] /\ snap \in [Callers -> SlotType]
      /\ ctx \in [Turns -> BOOLEAN]
  BY DEF IInv, TypeOK, SlotOK
<1>2. UNCHANGED pc
  BY OneCallerMoves
<1>3. MarkedLate'
  BY <1>2 DEF MarkedLate
<1>4. slot'.run = slot.run => ApplyingOwn'
  BY <1>2 DEF ApplyingOwn, ApplyId
<1>5. ASSUME slot'.run = NoRun PROVE ApplyingOwn' /\ Owned(slot)'
  <2>1. ASSUME NEW u \in Turns, pc'[u] \in {"applyReg", "applyRun"} PROVE FALSE
    BY <1>5, <2>1, Ids DEF SlotCoversLiveRun, Live, IdsOf
  <2>2. QED
    BY <1>5, <2>1, NobodyOwns DEF ApplyingOwn, Owned, Owner
<1>6. ASSUME UNCHANGED slot PROVE ApplyingOwn' /\ Owned(slot)'
  BY <1>4, <1>6 DEF Owned, Owner
<1>7. Owned(snap[c]) /\ PathFits(c) /\ Owned(slot)
  OBVIOUS
<1>8. snap'[c] = snap[c] => Owned(snap[c])'
  BY <1>7 DEF Owned, Owner
<1>9. CASE StopCalled(c) \/ PauseCalled(c) \/ UnpauseCalled(c) \/ SweepFinds(c)
  <2>1. /\ UNCHANGED <<slot, snap>> /\ cpc[c] = "idle"
        /\ cpc'[c] \in {"enter", "unpausing"}
    BY <1>1, <1>9 DEF StopCalled, PauseCalled, UnpauseCalled, SweepFinds
  <2>2. PathFits(c)'
    BY <2>1, <1>7 DEF PathFits
  <2>3. QED
    BY <1>3, <1>6, <1>8, <2>1, <2>2
<1>10. CASE CancelLoad(c)
  <2>1. UNCHANGED slot /\ snap'[c] = slot
    BY <1>1, <1>10 DEF CancelLoad
  <2>2. Owned(snap[c])'
    BY <2>1, <1>7 DEF Owned, Owner
  <2>3. CASE ~slot.present
    <3>1. slot.run = NoRun /\ cpc'[c] \in {"publish", "pausing", "done"}
      BY <2>3, <1>1, <1>10, Marks DEF CancelLoad, AfterCancel, IInv, TypeOK, SlotOK
    <3>2. QED
      BY <3>1, <2>1, <2>2, <1>3, <1>6, NobodyOwns DEF PathFits, Owner
  <2>4. CASE slot.present
    <3>1. \/ cpc'[c] = "force" /\ slot.cancelling
          \/ cpc'[c] = "cancelFunc"
          \/ cpc'[c] \in {"intent", "runner"} /\ slot.cancel = NoTurn
      BY <2>4, <1>1, <1>10 DEF CancelLoad, SlotType
    <3>2. PathFits(c)'
      BY <3>1, <2>1 DEF PathFits
    <3>3. QED
      BY <3>2, <2>1, <2>2, <1>3, <1>6
  <2>5. QED
    BY <2>3, <2>4, <1>1 DEF SlotType
<1>11. ASSUME UNCHANGED snap, \A t \in Owner(snap[c].run) : ctx'[t],
              cpc'[c] \in {"publish", "publishWrite", "pausing", "done"}
       PROVE  PathFits(c)'
  BY <1>11 DEF PathFits, Owner
<1>12. ASSUME cpc[c] \in {"intent", "intentStatus", "runner", "delete"}
       PROVE  Owner(snap[c].run) = {}
  BY <1>7, <1>12 DEF PathFits, Owned, Owner, RegistryAssumption
<1>13. CASE ForceDelete(c)
  <2>1. /\ UNCHANGED snap /\ slot' = Vacant /\ cpc[c] = "force"
        /\ cpc'[c] \in {"publish", "pausing", "done"}
    BY <1>1, <1>13 DEF ForceDelete, CancelReturns, AfterCancel
  <2>2. \A t \in Owner(snap[c].run) : ctx'[t]
    BY <2>1, <1>7 DEF PathFits, Owned, Owner
  <2>3. QED
    BY <2>1, <2>2, <1>1, <1>3, <1>5, <1>8, <1>11, Marks
<1>14. CASE CancelByFunc(c)
  <2>1. /\ UNCHANGED snap /\ slot' = MarkCancelling(slot, snap[c].run)
        /\ ctx' = [ctx EXCEPT ![snap[c].cancel] = TRUE]
        /\ cpc'[c] \in {"publish", "pausing", "done"}
    BY <1>1, <1>14 DEF CancelByFunc, CancelReturns, AfterCancel
  <2>2. \A t \in Owner(snap[c].run) : ctx'[t]
    BY <2>1, <1>1, <1>7 DEF Owned, Owner
  <2>3. slot'.run = slot.run /\ slot'.cancel = slot.cancel
    BY <2>1, <1>1, MarkEffects
  <2>4. slot'.cancelling => slot.cancelling \/ slot.run = snap[c].run
    BY <2>1, <1>1, Marks
  <2>5. Owned(slot)'
    BY <2>2, <2>3, <2>4, <1>7 DEF Owned, Owner
  <2>6. QED
    BY <2>1, <2>2, <2>3, <2>5, <1>3, <1>4, <1>8, <1>11
<1>15. CASE CancelByIntent(c)
  <2>1. /\ UNCHANGED <<snap, ctx>> /\ slot' = RecordCancelIntent(slot, snap[c])
        /\ cpc[c] = "intent" /\ cpc'[c] = "intentStatus"
    BY <1>1, <1>15 DEF CancelByIntent
  <2>2. /\ slot'.run = slot.run /\ slot'.cancel = slot.cancel
        /\ slot'.cancelling = slot.cancelling
    BY <2>1, <1>1, IntentEffects, Marks
  <2>3. Owned(slot)' /\ PathFits(c)'
    BY <2>1, <2>2, <1>7 DEF Owned, Owner, PathFits
  <2>4. QED
    BY <2>1, <2>2, <2>3, <1>3, <1>4, <1>8
<1>16. CASE IntentStatus(c)
  <2>1. /\ UNCHANGED <<snap, slot>> /\ cpc[c] = "intentStatus"
        /\ cpc'[c] \in {"publish", "pausing", "done"}
    BY <1>1, <1>16 DEF IntentStatus, CancelReturns, AfterCancel
  <2>2. QED
    BY <2>1, <1>3, <1>6, <1>8, <1>11, <1>12
<1>17. CASE CancelByRunner(c)
  <2>1. /\ UNCHANGED snap /\ cpc[c] = "runner"
        /\ slot' = slot \/ slot' = MarkCancelling(slot, snap[c].run)
        /\ cpc'[c] \in {"publish", "pausing", "done", "delete"}
    BY <1>1, <1>17 DEF CancelByRunner, CancelReturns, AfterCancel
  <2>2. Owner(snap[c].run) = {} /\ snap[c].cancel = NoTurn
    BY <2>1, <1>7, <1>12 DEF PathFits
  <2>3. slot'.run = slot.run /\ slot'.cancel = slot.cancel
    BY <2>1, <1>1, MarkEffects
  <2>4. slot'.cancelling => slot.cancelling \/ slot.run = snap[c].run
    <3>1. MarkCancelling(slot, snap[c].run).cancelling
            => slot.cancelling \/ slot.run = snap[c].run
      BY <1>1, Marks
    <3>2. QED
      BY <2>1, <3>1
  <2>5. Owned(slot)'
    BY <2>2, <2>3, <2>4, <1>7 DEF Owned, Owner
  <2>6. PathFits(c)'
    BY <2>1, <2>2 DEF PathFits, Owner
  <2>7. QED
    BY <2>1, <2>3, <2>5, <2>6, <1>3, <1>4, <1>8
<1>18. CASE DeleteRunner(c)
  <2>1. /\ UNCHANGED snap /\ slot' = Vacant /\ cpc[c] = "delete"
        /\ cpc'[c] \in {"publish", "pausing", "done"}
    BY <1>1, <1>18 DEF DeleteRunner, CancelReturns, AfterCancel
  <2>2. QED
    BY <2>1, <1>1, <1>3, <1>5, <1>8, <1>11, <1>12, Marks
<1>19. CASE PublishCheck(c) \/ PublishWrite(c)
  <2>1. /\ UNCHANGED <<snap, slot, ctx>> /\ cpc[c] \in {"publish", "publishWrite"}
        /\ cpc'[c] \in {"publishWrite", "pausing", "done"}
    BY <1>1, <1>19 DEF PublishCheck, PublishWrite, Published
  <2>2. \A t \in Owner(snap[c].run) : ctx'[t]
    BY <2>1, <1>7 DEF PathFits
  <2>3. QED
    BY <2>1, <2>2, <1>3, <1>6, <1>8, <1>11
<1>20. CASE MarkPaused(c)
  <2>1. /\ UNCHANGED <<snap, slot, ctx>> /\ cpc[c] \in {"pausing", "unpausing"}
        /\ cpc'[c] = "done"
    BY <1>1, <1>20 DEF MarkPaused
  <2>2. \A t \in Owner(snap[c].run) : ctx'[t]
    BY <2>1, <1>7, NobodyOwns DEF PathFits
  <2>3. QED
    BY <2>1, <2>2, <1>3, <1>6, <1>8, <1>11
<1>21. QED
  BY <1>9, <1>10, <1>13, <1>14, <1>15, <1>16, <1>17, <1>18, <1>19, <1>20
  DEF CallerStep

(* Together: a step preserves what a Cancel relies on.                     *)
LEMMA CancelStep ==
  ASSUME RegistryAssumption, IInv, SlotCoversLiveRun', CancelInv, [Next]_vars
  PROVE  CancelInv'
<1> SUFFICES ASSUME evicted' = {}
             PROVE  /\ Owned(slot)' /\ MarkedLate' /\ ApplyingOwn'
                    /\ \A c \in Callers : Owned(snap[c])' /\ PathFits(c)'
  BY DEF CancelInv
<1>1. /\ evicted = {}
      /\ \A u \in Turns : ctx[u] => ctx'[u]
  BY OnlyMore DEF IInv
<1>2. \A c \in Callers : Owned(snap[c]) /\ PathFits(c)
  BY <1>1 DEF CancelInv
<1>3. ASSUME NEW t \in Turns, TurnStep(t), NEW c \in Callers
      PROVE  Owned(snap[c])' /\ PathFits(c)'
  <2>1. UNCHANGED <<cpc, snap>>
    BY <1>3
    DEF TurnStep, ClaimPlaceholder, ResumeFails, ResumeExit, Admission, Lock,
        LockQueued, RejectLocked, Register, AdmitTurn, AdmitFails, InputRefused,
        Build, BuildFails, ApplyIntent, MarkApplied, AwaitUser, EndWait, Suspend,
        Complete, Fail, WriteStatus, PersistFails, FinishSlot, FinishCheck,
        FinishStatus, FinishDrop, callerVars
  <2>2. QED
    BY <2>1, <1>1, <1>2, CallersKeep
<1>4. CASE \E t \in Turns : TurnStep(t)
  BY <1>1, <1>3, <1>4, CancelTurnStep
<1>5. ASSUME NEW c \in Callers, CallerStep(c), NEW d \in Callers, d # c
      PROVE  Owned(snap[d])' /\ PathFits(d)'
  <2>1. cpc'[d] = cpc[d] /\ snap'[d] = snap[d]
    BY <1>5, OneCallerMoves DEF IInv, TypeOK
  <2>2. QED
    BY <2>1, <1>1, <1>2, CallersKeep
<1>6. CASE \E c \in Callers : CallerStep(c)
  BY <1>1, <1>5, <1>6, CancelCallerStep
<1>7. CASE StatusExpires \/ UNCHANGED vars
  <2>1. UNCHANGED <<slot, pc, ctx, cpc, snap>>
    BY <1>7 DEF StatusExpires, noTurnMoves, callerVars, vars
  <2>2. QED
    BY <2>1, <1>1 DEF CancelInv, Owned, Owner, MarkedLate, ApplyingOwn, ApplyId, PathFits
<1>8. QED
  BY <1>4, <1>6, <1>7 DEF Next

(* So it holds throughout.                                                 *)
LEMMA CancelInvariance == Spec => []CancelInv
<1> USE RegistryAssumption
<1>1. Init => CancelInv
  <2>1. Vacant.run = NoRun
    BY DEF Vacant, ZeroRun
  <2>2. QED
    BY <2>1, NobodyOwns
    DEF Init, CancelInv, Owned, MarkedLate, ApplyingOwn, PathFits
<1>2. IInv /\ IInv' /\ CancelInv /\ [Next]_vars => CancelInv'
  BY CancelStep DEF IInv
<1>3. QED
  BY <1>1, <1>2, Invariance, PTL DEF Spec

(* A Cancel that reports a run has stopped it, unless an entry was removed *)
(* by force: the turn cannot get out of the slot between Cancel's load and *)
(* its last step with a cancel func Cancel does not hold.                  *)
THEOREM CancelStops == Spec => []CancelStopsItsRun
<1>1. CancelInv => CancelStopsItsRun
  BY DEF CancelInv, PathFits, CancelStopsItsRun
<1>2. QED
  BY <1>1, CancelInvariance, PTL

-----------------------------------------------------------------------------
(* A turn moves alone, and while it applies an intent by nothing else.     *)
LEMMA OneTurnMoves ==
  ASSUME TypeOK, FinishInside, NEW t \in Turns, TurnStep(t)
  PROVE  /\ \A u \in Turns : u # t => pc'[u] = pc[u]
         /\ pc[t] \in {"applyReg", "markReg", "applyRun", "markRun"}
              => ApplyIntent(t) \/ MarkApplied(t)
<1> USE DEF TypeOK, Goto
<1>1. CASE \/ ResumeFails(t) \/ Admission(t) \/ Lock(t) \/ LockQueued(t)
           \/ RejectLocked(t) \/ AdmitTurn(t) \/ AdmitFails(t) \/ InputRefused(t)
           \/ BuildFails(t) \/ AwaitUser(t) \/ EndWait(t) \/ Suspend(t)
           \/ Complete(t) \/ Fail(t) \/ WriteStatus(t) \/ PersistFails(t)
           \/ FinishCheck(t) \/ FinishStatus(t) \/ FinishDrop(t)
  <2>1. \A u \in Turns : u # t => pc'[u] = pc[u]
    BY <1>1, QuietTurn
  <2>2. pc[t] \notin {"applyReg", "markReg", "applyRun", "markRun"}
    BY <1>1, StoreFacts
    DEF ResumeFails, Admission, Lock, LockQueued, RejectLocked, AdmitTurn,
        AdmitFails, InputRefused, BuildFails, AwaitUser, EndWait, Suspend,
        Complete, Fail, WriteStatus, PersistFails, FinishCheck, FinishStatus,
        FinishDrop, FinishInside, FinPcs
  <2>3. QED
    BY <2>1, <2>2
<1>2. CASE ClaimPlaceholder(t) \/ ResumeExit(t) \/ Register(t) \/ Build(t)
  BY <1>2 DEF ClaimPlaceholder, ResumeExit, Register, Build
<1>3. CASE FinishSlot(t)
  BY <1>3 DEF FinishSlot, FinPcs
<1>4. CASE ApplyIntent(t)
  <2>1. \E place : pc' = [pc EXCEPT ![t] = place]
    BY <1>4, ApplyStep DEF Applied
  <2>2. QED
    BY <1>4, <2>1
<1>5. CASE MarkApplied(t)
  <2>1. \E place : pc' = [pc EXCEPT ![t] = place]
    BY <1>5 DEF MarkApplied, Applied
  <2>2. QED
    BY <1>5, <2>1
<1>6. QED
  BY <1>1, <1>2, <1>3, <1>4, <1>5 DEF TurnStep

(* Only registering puts a new cancel func into the slot.                  *)
LEMMA CancelComesBy ==
  ASSUME RegistryAssumption, IInv, [Next]_vars,
         NEW t \in Turns, slot'.cancel = t, slot.cancel # t
  PROVE  Register(t)
<1>1. slot \in SlotType /\ t # NoTurn
  BY DEF IInv, TypeOK, SlotOK, RegistryAssumption
<1>2. ASSUME NEW u \in Turns, TurnStep(u), ~Register(u)
      PROVE  slot'.cancel \in {slot.cancel, NoTurn}
  <2>1. CASE \/ ResumeFails(u) \/ Admission(u) \/ Lock(u) \/ LockQueued(u)
             \/ RejectLocked(u) \/ AdmitTurn(u) \/ AdmitFails(u) \/ InputRefused(u)
             \/ BuildFails(u) \/ AwaitUser(u) \/ EndWait(u) \/ Suspend(u)
             \/ Complete(u) \/ Fail(u) \/ WriteStatus(u) \/ PersistFails(u)
             \/ FinishCheck(u) \/ FinishStatus(u) \/ FinishDrop(u)
    BY <2>1, QuietTurn DEF IInv
  <2>2. CASE ClaimPlaceholder(u) \/ ResumeExit(u) \/ FinishSlot(u)
    BY <2>2, PlaceholderEffects DEF ClaimPlaceholder, ResumeExit, FinishSlot, Busy
  <2>3. CASE Build(u)
    BY <2>3, StoreEffects DEF Build
  <2>4. CASE ApplyIntent(u)
    BY <2>4 DEF ApplyIntent
  <2>5. CASE MarkApplied(u)
    BY <2>5, MarkingStep DEF IInv, TypeOK
  <2>6. QED
    BY <1>2, <2>1, <2>2, <2>3, <2>4, <2>5 DEF TurnStep
<1>3. ASSUME NEW c \in Callers, CallerStep(c)
      PROVE  slot'.cancel \in {slot.cancel, NoTurn}
  <2>1. CASE CancelByFunc(c) \/ CancelByIntent(c) \/ CancelByRunner(c)
    BY <2>1, MarkingStep DEF IInv, TypeOK
  <2>2. CASE ForceDelete(c) \/ DeleteRunner(c)
    BY <2>2, PlaceholderEffects DEF ForceDelete, DeleteRunner
  <2>3. ASSUME ~CancelByFunc(c), ~CancelByIntent(c), ~CancelByRunner(c),
               ~ForceDelete(c), ~DeleteRunner(c)
        PROVE  slot' = slot
    BY <1>3, <2>3
    DEF CallerStep, StopCalled, PauseCalled, UnpauseCalled, SweepFinds,
        CancelLoad, IntentStatus, PublishCheck, PublishWrite, MarkPaused
  <2>4. QED
    BY <2>1, <2>2, <2>3
<1>4. StatusExpires \/ UNCHANGED vars => slot' = slot
  BY DEF StatusExpires, vars
<1>5. PICK u \in Turns : Register(u)
  BY <1>1, <1>2, <1>3, <1>4 DEF Next
<1>6. slot'.cancel = u
  BY <1>5, StoreEffects DEF Register
<1>7. QED
  BY <1>5, <1>6

(* A recorded intent reaches the turn that registers over it: the turn     *)
(* takes it up in the same step, and goes on only once its own context is  *)
(* cancelled, because the entry it then looks for is still its own.        *)
THEOREM IntentReaches == Spec => IntentReachesRun
<1> USE RegistryAssumption
<1> DEFINE Reaches(t) ==
      /\ (slot.cancelIntent /\ slot'.cancel = t /\ slot.cancel # t)
           => pc'[t] = "applyReg"
      /\ (pc[t] \in {"applyReg", "markReg", "applyRun", "markRun"}
            /\ pc'[t] \notin {pc[t], "markReg", "markRun"} /\ evicted = {})
           => ctx'[t]
<1>1. ASSUME IInv, CancelInv, [Next]_vars, NEW t \in Turns
      PROVE  Reaches(t)
  <2>1. ASSUME slot.cancelIntent, slot'.cancel = t, slot.cancel # t
        PROVE  pc'[t] = "applyReg"
    <3>1. Register(t)
      BY <1>1, <2>1, CancelComesBy
    <3>2. QED
      BY <1>1, <2>1, <3>1 DEF Register, Goto, IInv, TypeOK
  <2>2. ASSUME pc[t] \in {"applyReg", "markReg", "applyRun", "markRun"},
               pc'[t] # pc[t], evicted = {}
        PROVE  ctx'[t]
    <3>1. PICK u \in Turns : TurnStep(u)
      BY <1>1, <2>2, OneCallerMoves DEF Next, StatusExpires, vars, noTurnMoves
    <3>2. u = t /\ (ApplyIntent(t) \/ MarkApplied(t))
      BY <1>1, <2>2, <3>1, OneTurnMoves DEF IInv
    <3>3. CASE ApplyIntent(t)
      BY <1>1, <2>2, <3>3, ApplyHits
    <3>4. CASE MarkApplied(t)
      <4>1. ctx[t]
        BY <1>1, <2>2, <3>4 DEF CancelInv, MarkedLate, MarkApplied
      <4>2. QED
        BY <1>1, <4>1, OnlyMore DEF IInv
    <3>5. QED
      BY <3>2, <3>3, <3>4
  <2>3. QED
    BY <2>1, <2>2
<1>2. IInv /\ CancelInv /\ [Next]_vars => [\A t \in Turns : Reaches(t)]_vars
  BY <1>1
<1>3. QED
  BY <1>2, Invariance, CancelInvariance, PTL DEF Spec, IntentReachesRun

-----------------------------------------------------------------------------
(* That the slot is free when all turns are over.  Whatever the entry is,  *)
(* some turn still has the step before it that will remove it: an entry    *)
(* under a registered id, or without a run, falls to the last Finish of a  *)
(* turn that has registered, one under an admitted id to the Finish that   *)
(* ends that run, a placeholder to whichever resume leaves next.           *)
NoResume == \A t \in Turns : TurnKind[t] # "resume"

(* A turn inside Finish, and a caller inside Cancel, holds cancelMu.       *)
InCancel == {"force", "cancelFunc", "intent", "intentStatus", "runner", "delete"}

MuHeld ==
  /\ \A t \in Turns : fin[t] # "no" => cancelMu = t
  /\ \A c \in Callers : cpc[c] \in InCancel => cancelMu = c

(* StoreCancelable and StoreRunner drop the flag.                          *)
FlagIsPure == slot.placeholder => IsPlaceholderOnly(slot)

(* So an entry that Cancel is about to mark cannot be finished first,      *)
(* unless it was a placeholder: FinishPlaceholder takes no cancelMu.       *)
Marking(c) ==
  \/ cpc[c] \in {"cancelFunc", "runner"}
  \/ cpc[c] = "intent" /\ ~snap[c].placeholder

MarksPresent == \A c \in Callers : Marking(c) => slot.present /\ ~slot.placeholder

Registered(t) ==
  \/ Live(t)
  \/ pc[t] = "writeBuild"
  \/ pc[t] \in FinPcs \ {"finReg"}
  \/ pc[t] = "finReg" /\ fin[t] = "no"

Built(t) ==
  \/ pc[t] \in {"applyRun", "markRun", "executing", "awaiting", "writeAwaiting",
                "writeAnswered", "writeSuspended", "writeCompleted", "writeFailed"}
  \/ pc[t] = "finAdmit" /\ fin[t] = "no"

(* A resume is under way until it has cleared its placeholder.             *)
Resuming(t) == TurnKind[t] = "resume" /\ pc[t] \notin {"idle", "done"}

Keeper(t) ==
  \/ slot.run \in {Reg(t), NoRun} /\ Registered(t)
  \/ slot.run = Admit(t) /\ Built(t)
  \/ slot.placeholder /\ Resuming(t)

Kept == slot.present => \E t \in Turns : Keeper(t)

RestInv == MuHeld /\ FlagIsPure /\ MarksPresent

(* Cancel records its intent on a slot that is vacant by then: the zero    *)
(* entry is stored back (ManagedMap.UpdateOrStore).                        *)
Haunts == \E c \in Callers : CancelByIntent(c) /\ ~slot.present

(* A step of a turn leaves the others where they are; a turn that is in    *)
(* charge of an entry stays so until it looks at the slot in Finish, and a *)
(* resume until it clears its placeholder.                                 *)
LEMMA StaysInCharge ==
  ASSUME TypeOK, FinishInside, NEW t \in Turns, TurnStep(t)
  PROVE  /\ \A u \in Turns : u # t => pc'[u] = pc[u] /\ fin'[u] = fin[u]
         /\ ~FinishSlot(t) => /\ Registered(t) => Registered(t)'
                              /\ Built(t) => Built(t)'
         /\ Resuming(t) /\ ~ResumeExit(t) => Resuming(t)'
<1> USE DEF TypeOK, FinishInside, Goto, Registered, Built, Resuming, Live, FinPcs, turnVars
<1>1. CASE \/ ClaimPlaceholder(t) \/ ResumeFails(t) \/ ResumeExit(t)
           \/ Admission(t) \/ Lock(t) \/ LockQueued(t) \/ RejectLocked(t)
  BY <1>1, StoreFacts
  DEF ClaimPlaceholder, ResumeFails, ResumeExit, Admission, Lock, LockQueued,
      RejectLocked, Left
<1>2. CASE Register(t) \/ AdmitTurn(t) \/ AdmitFails(t)
  BY <1>2, StoreFacts DEF Register, AdmitTurn, AdmitFails, TrySetStatus, Store
<1>3. CASE InputRefused(t) \/ Build(t) \/ BuildFails(t)
  BY <1>3, StoreFacts DEF InputRefused, Build, BuildFails, TrySetStatus, Store
<1>4. CASE ApplyIntent(t)
  BY <1>4, ApplyStep DEF Applied
<1>5. CASE MarkApplied(t)
  BY <1>5 DEF MarkApplied, Applied
<1>6. CASE AwaitUser(t) \/ EndWait(t) \/ Suspend(t)
  BY <1>6 DEF AwaitUser, EndWait, Suspend, TrySetStatus, Store
<1>7. CASE Complete(t) \/ Fail(t)
  BY <1>7 DEF Complete, Fail, TrySetStatus, Store
<1>8. CASE WriteStatus(t) \/ PersistFails(t)
  BY <1>8 DEF WriteStatus, PersistFails, Store
<1>9. CASE FinishSlot(t)
  BY <1>9 DEF FinishSlot
<1>10. CASE FinishCheck(t) \/ FinishStatus(t) \/ FinishDrop(t)
  <2>1. /\ fin[t] # "no" /\ pc[t] \in FinPcs
        /\ \/ pc' = pc /\ fin'[t] # "no"
           \/ pc' = [pc EXCEPT ![t] = AfterFinish(t)] /\ fin'[t] = "no"
        /\ \A u \in Turns : u # t => fin'[u] = fin[u]
    BY <1>10 DEF FinishCheck, FinishStatus, FinishDrop, LeaveFinish
  <2>2. /\ pc[t] = "finReg" => AfterFinish(t) = Left(t)
        /\ pc[t] # "finReg" => AfterFinish(t) \in {"writeBuild", "finReg"}
    BY <2>1, StoreFacts DEF AfterFinish
  <2>3. CASE pc' = pc /\ fin'[t] # "no"
    BY <2>1, <2>2, <2>3
  <2>4. CASE pc' = [pc EXCEPT ![t] = AfterFinish(t)] /\ fin'[t] = "no"
    <3>1. /\ pc'[t] = AfterFinish(t)
          /\ \A u \in Turns : u # t => pc'[u] = pc[u]
      BY <2>4
    <3>2. QED
      BY <2>1, <2>2, <2>4, <3>1, StoreFacts DEF Left
  <2>5. QED
    BY <2>1, <2>3, <2>4
<1>11. QED
  BY <1>1, <1>2, <1>3, <1>4, <1>5, <1>6, <1>7, <1>8, <1>9, <1>10 DEF TurnStep

(* How a turn's step moves cancelMu: it takes it when free, or gives it    *)
(* back when it is the turn's own.                                         *)
CancelMuMoves(t) ==
  \/ UNCHANGED <<cancelMu, fin>>
  \/ cancelMu = NoTurn /\ cancelMu' = t
  \/ cancelMu' = cancelMu /\ fin[t] # "no"
  \/ cancelMu' = NoTurn /\ fin[t] # "no" /\ fin'[t] = "no"

(* Every step of a turn moves it so.                                       *)
LEMMA TurnMu ==
  ASSUME TypeOK, FinishInside, NEW t \in Turns, TurnStep(t)
  PROVE  UNCHANGED cpc /\ CancelMuMoves(t)
<1> USE DEF TypeOK, CancelMuMoves, callerVars, turnVars
<1>1. CASE FinishSlot(t)
  BY <1>1 DEF FinishSlot
<1>2. CASE FinishCheck(t) \/ FinishStatus(t) \/ FinishDrop(t)
  BY <1>2 DEF FinishCheck, FinishStatus, FinishDrop, LeaveFinish
<1>3. CASE ApplyIntent(t)
  BY <1>3, ApplyStep
<1>4. ASSUME ~FinishSlot(t), ~FinishCheck(t), ~FinishStatus(t), ~FinishDrop(t),
             ~ApplyIntent(t)
      PROVE  UNCHANGED <<cpc, cancelMu, fin>>
  BY <1>4
  DEF TurnStep, ClaimPlaceholder, ResumeFails, ResumeExit, Admission, Lock,
      LockQueued, RejectLocked, Register, AdmitTurn, AdmitFails, InputRefused,
      Build, BuildFails, MarkApplied, AwaitUser, EndWait, Suspend, Complete,
      Fail, WriteStatus, PersistFails
<1>5. QED
  BY <1>1, <1>2, <1>3, <1>4

(* cancelMu keeps callers and finishing turns apart.                       *)
LEMMA MuStep ==
  ASSUME RegistryAssumption, IInv, RestInv, [Next]_vars
  PROVE  MuHeld'
<1> USE DEF RestInv, MuHeld
<1>1. ASSUME NEW t \in Turns, TurnStep(t)
      PROVE  MuHeld'
  <2>1. UNCHANGED cpc /\ CancelMuMoves(t)
    BY <1>1, TurnMu DEF IInv
  <2>2. \A u \in Turns : u # t => fin'[u] = fin[u]
    BY <1>1, StaysInCharge DEF IInv
  <2>3. t \notin Callers /\ NoTurn \notin Turns /\ NoTurn \notin Callers
    BY DEF RegistryAssumption
  <2>4. CASE UNCHANGED <<cancelMu, fin>>
    BY <2>1, <2>4
  <2>5. CASE cancelMu = NoTurn /\ cancelMu' = t
    BY <2>1, <2>2, <2>3, <2>5
  <2>6. CASE cancelMu' = cancelMu /\ fin[t] # "no"
    BY <2>1, <2>2, <2>6
  <2>7. CASE cancelMu' = NoTurn /\ fin[t] # "no" /\ fin'[t] = "no"
    BY <2>1, <2>2, <2>3, <2>7
  <2>8. QED
    BY <2>1, <2>4, <2>5, <2>6, <2>7 DEF CancelMuMoves
<1>2. ASSUME NEW c \in Callers, CallerStep(c)
      PROVE  MuHeld'
  <2>1. /\ UNCHANGED fin
        /\ \A d \in Callers : d # c => cpc'[d] = cpc[d]
    BY <1>2, OneCallerMoves DEF IInv, TypeOK
  <2>2. CASE CancelLoad(c)
    BY <2>1, <2>2 DEF CancelLoad, Call, AfterCancel, InCancel, IInv, TypeOK, RegistryAssumption
  <2>3. CASE CancelByIntent(c)
    BY <2>1, <2>3 DEF CancelByIntent, Call, InCancel, IInv, TypeOK
  <2>4. CASE ForceDelete(c) \/ CancelByFunc(c) \/ IntentStatus(c) \/ DeleteRunner(c)
    <3>1. cpc[c] \in InCancel /\ CancelReturns(c)
      BY <2>4 DEF ForceDelete, CancelByFunc, IntentStatus, DeleteRunner, InCancel
    <3>2. QED
      BY <2>1, <3>1
      DEF CancelReturns, Call, AfterCancel, InCancel, IInv, TypeOK, RegistryAssumption
  <2>5. CASE CancelByRunner(c)
    <3>1. /\ cpc[c] \in InCancel
          /\ \/ CancelReturns(c)
             \/ UNCHANGED cancelMu
      BY <2>5 DEF CancelByRunner, InCancel
    <3>2. QED
      BY <2>1, <3>1
      DEF CancelReturns, Call, AfterCancel, InCancel, IInv, TypeOK, RegistryAssumption
  <2>6. CASE \/ StopCalled(c) \/ PauseCalled(c) \/ UnpauseCalled(c) \/ SweepFinds(c)
             \/ PublishCheck(c) \/ PublishWrite(c) \/ MarkPaused(c)
    <3>1. /\ UNCHANGED cancelMu
          /\ cpc'[c] \in {"enter", "unpausing", "publishWrite", "pausing", "done"}
      BY <2>6
      DEF StopCalled, PauseCalled, UnpauseCalled, SweepFinds, PublishCheck,
          PublishWrite, MarkPaused, Published, Call, IInv, TypeOK
    <3>2. QED
      BY <2>1, <3>1 DEF InCancel
  <2>7. QED
    BY <1>2, <2>2, <2>3, <2>4, <2>5, <2>6 DEF CallerStep
<1>3. StatusExpires \/ UNCHANGED vars => UNCHANGED <<cancelMu, fin, cpc>>
  BY DEF StatusExpires, vars, noTurnMoves, callerVars
<1>4. QED
  BY <1>1, <1>2, <1>3 DEF Next

(* Marking an entry, or recording an intent on it, keeps its run and its   *)
(* flag, and makes one without either where there was none.                *)
LEMMA KeeperMarks ==
  ASSUME SlotOK, FlagIsPure, NEW run, NEW l,
         slot' = MarkCancelling(slot, run) \/ slot' = RecordCancelIntent(slot, l)
  PROVE  /\ slot'.run = slot.run
         /\ slot'.placeholder = slot.placeholder
         /\ ~slot.present => slot.run = NoRun /\ ~slot.placeholder
         /\ slot'.present
         /\ FlagIsPure'
BY DEF SlotOK, SlotType, FlagIsPure, IsPlaceholderOnly, MarkCancelling, RecordCancelIntent,
       StoreLocked, Vacant, ZeroRun

(* What the other operations make of the flag.                             *)
LEMMA Flags ==
  ASSUME NEW s, NEW run, NEW t
  PROVE  /\ ~StoreCancelable(s, run, t).placeholder
         /\ ~StoreRunner(s, run, t).placeholder
         /\ ~Vacant.placeholder /\ ~Vacant.present
         /\ ~s.present => IsPlaceholderOnly(StorePlaceholderIfVacant(s))
         /\ IsPlaceholderOnly(s) => FinishPlaceholder(s) = Vacant
         /\ ~IsPlaceholderOnly(s) => FinishPlaceholder(s) = s
BY DEF StoreCancelable, StoreRunner, StoreLocked, ZeroRun, Vacant, IsPlaceholderOnly,
       StorePlaceholderIfVacant, FinishPlaceholder

(* No step of a turn moves a caller.                                       *)
LEMMA CallersStand ==
  ASSUME NEW t \in Turns, TurnStep(t)
  PROVE  UNCHANGED callerVars
BY DEF TurnStep, ClaimPlaceholder, ResumeFails, ResumeExit, Admission, Lock,
   LockQueued, RejectLocked, Register, AdmitTurn, AdmitFails, InputRefused,
   Build, BuildFails, ApplyIntent, MarkApplied, AwaitUser, EndWait, Suspend,
   Complete, Fail, WriteStatus, PersistFails, FinishSlot, FinishCheck,
   FinishStatus, FinishDrop

(* The slot and its keeper, over the steps of a turn: no step of a turn    *)
(* leaves an entry without one, and a flag comes with a placeholder only.  *)
LEMMA TurnKeeps ==
  ASSUME RegistryAssumption, IInv, RestInv, NEW t \in Turns, TurnStep(t)
  PROVE  /\ MarksPresent' /\ FlagIsPure'
         /\ Kept => Kept'
         /\ slot'.placeholder => slot.placeholder \/ TurnKind[t] = "resume"
<1>1. /\ \A u \in Turns : u # t => pc'[u] = pc[u] /\ fin'[u] = fin[u]
      /\ ~FinishSlot(t) => /\ Registered(t) => Registered(t)'
                           /\ Built(t) => Built(t)'
      /\ Resuming(t) /\ ~ResumeExit(t) => Resuming(t)'
  BY StaysInCharge DEF IInv
<1>2. \A u \in Turns : u # t => /\ Registered(u) => Registered(u)'
                                /\ Built(u) => Built(u)'
                                /\ Resuming(u) => Resuming(u)'
  BY <1>1 DEF Registered, Built, Resuming, Live
<1>3. UNCHANGED callerVars
  BY CallersStand
<1>4. slot \in SlotType /\ SlotOK /\ pc \in [Turns -> Places]
  BY DEF IInv, TypeOK, SlotOK
<1>5. ASSUME ~FinishSlot(t), ~ResumeExit(t), Kept, slot.present,
             slot'.run = slot.run, slot'.placeholder = slot.placeholder
      PROVE  Kept'
  BY <1>1, <1>2, <1>5 DEF Kept, Keeper
<1>6. ASSUME slot.present => slot'.present, slot'.placeholder => slot.placeholder
      PROVE  MarksPresent'
  BY <1>3, <1>6 DEF RestInv, MarksPresent, Marking, callerVars
<1>7. ASSUME Keeper(t)' PROVE Kept'
  BY <1>7 DEF Kept
<1>8. CASE Register(t)
  <2>1. slot' = StoreCancelable(slot, Reg(t), t) /\ pc'[t] \in {"applyReg", "registered"}
    BY <1>4, <1>8 DEF Register, Goto
  <2>2. slot'.present /\ slot'.run = Reg(t) /\ ~slot'.placeholder
    BY <2>1, StoreEffects, Flags, Ids
  <2>3. Keeper(t)'
    BY <2>1, <2>2 DEF Keeper, Registered, Live, Reg
  <2>4. QED
    BY <2>2, <2>3, <1>6, <1>7 DEF FlagIsPure
<1>9. CASE Build(t)
  <2>1. slot' = StoreRunner(slot, Admit(t), t) /\ pc'[t] \in {"applyRun", "executing"}
    BY <1>4, <1>9 DEF Build, Goto
  <2>2. slot'.present /\ slot'.run = Admit(t) /\ ~slot'.placeholder
    BY <2>1, StoreEffects, Flags, Ids
  <2>3. Keeper(t)'
    BY <2>1, <2>2 DEF Keeper, Built, Admit
  <2>4. QED
    BY <2>2, <2>3, <1>6, <1>7 DEF FlagIsPure
<1>10. CASE MarkApplied(t)
  <2>1. PICK run : slot' = MarkCancelling(slot, run)
    BY <1>10 DEF MarkApplied
  <2>2. /\ slot'.run = slot.run /\ slot'.placeholder = slot.placeholder
        /\ ~slot.present => slot.run = NoRun
        /\ slot'.present /\ FlagIsPure'
    BY <1>4, <2>1, KeeperMarks DEF RestInv
  <2>3. pc[t] \in {"markReg", "markRun"} /\ ~FinishSlot(t) /\ ~ResumeExit(t)
    BY <1>10 DEF MarkApplied, FinishSlot, ResumeExit, FinPcs
  <2>4. Registered(t)'
    BY <2>3, <1>1 DEF Registered, Live
  <2>5. CASE ~slot.present
    BY <2>2, <2>4, <2>5, <1>6, <1>7 DEF Keeper
  <2>6. CASE slot.present
    BY <2>2, <2>3, <2>6, <1>5, <1>6
  <2>7. QED
    BY <2>5, <2>6, <1>4 DEF SlotType
<1>11. CASE FinishSlot(t)
  <2>1. \A c \in Callers : cpc[c] \notin InCancel
    BY <1>11 DEF FinishSlot, RestInv, MuHeld, RegistryAssumption
  <2>2. MarksPresent'
    BY <2>1, <1>3 DEF MarksPresent, Marking, InCancel, callerVars
  <2>3. CASE FinishMatches(slot, FinId(t))
    <3>1. slot' = Vacant
      BY <1>11, <2>3 DEF FinishSlot
    <3>2. QED
      BY <2>2, <3>1, Flags DEF Kept, FlagIsPure
  <2>4. CASE ~FinishMatches(slot, FinId(t))
    <3>1. UNCHANGED <<slot, pc>> /\ fin[t] = "no" /\ pc[t] \in FinPcs
      BY <1>11, <2>4 DEF FinishSlot
    <3>2. FlagIsPure'
      BY <3>1 DEF RestInv, FlagIsPure, IsPlaceholderOnly
    <3>3. SUFFICES ASSUME Kept, slot.present PROVE \E u \in Turns : Keeper(u)'
      BY <2>2, <3>1, <3>2 DEF Kept
    <3>4. PICK u \in Turns : Keeper(u)
      BY <3>3 DEF Kept
    <3>5. CASE u # t
      BY <3>1, <3>4, <3>5, <1>2 DEF Keeper
    <3>6. CASE u = t /\ slot.placeholder /\ Resuming(t)
      BY <3>1, <3>6 DEF Keeper, Resuming
    <3>7. CASE u = t /\ ~(slot.placeholder /\ Resuming(t))
      <4>1. slot.run # NoRun /\ slot.run # FinId(t)
        BY <2>4, <3>3 DEF FinishMatches
      <4>2. CASE pc[t] = "finReg"
        BY <3>4, <3>7, <4>1, <4>2 DEF Keeper, FinId, Built
      <4>3. CASE pc[t] # "finReg"
        <5>1. slot.run = Reg(t)
          BY <3>1, <3>4, <3>7, <4>1, <4>3 DEF Keeper, FinId
        <5>2. Registered(t)'
          BY <3>1, <4>3 DEF Registered
        <5>3. QED
          BY <3>1, <5>1, <5>2 DEF Keeper
      <4>4. QED
        BY <4>2, <4>3
    <3>8. QED
      BY <3>5, <3>6, <3>7
  <2>5. QED
    BY <2>3, <2>4
<1>12. CASE ClaimPlaceholder(t)
  <2>1. /\ ~slot.present /\ IsPlaceholderOnly(slot')
        /\ TurnKind[t] = "resume" /\ pc'[t] = "claimed"
    BY <1>4, <1>12, Flags DEF ClaimPlaceholder, Busy, Goto
  <2>2. Keeper(t)'
    BY <2>1 DEF Keeper, Resuming, IsPlaceholderOnly
  <2>3. MarksPresent'
    BY <2>1, <1>3 DEF RestInv, MarksPresent, Marking, callerVars
  <2>4. QED
    BY <2>1, <2>2, <2>3, <1>7 DEF FlagIsPure, IsPlaceholderOnly
<1>13. CASE ResumeExit(t)
  <2>1. slot' = FinishPlaceholder(slot) /\ pc[t] \in {"leaving", "rejected"}
    BY <1>13 DEF ResumeExit
  <2>2. CASE IsPlaceholderOnly(slot)
    <3>1. slot' = Vacant /\ slot.placeholder
      BY <2>1, <2>2, Flags DEF IsPlaceholderOnly
    <3>2. MarksPresent'
      BY <3>1, <1>3 DEF RestInv, MarksPresent, Marking, callerVars
    <3>3. QED
      BY <3>1, <3>2, Flags DEF Kept, FlagIsPure
  <2>3. CASE ~IsPlaceholderOnly(slot)
    <3>1. UNCHANGED slot /\ ~slot.placeholder
      BY <2>1, <2>3, Flags DEF RestInv, FlagIsPure
    <3>2. ~Registered(t) /\ ~Built(t)
      BY <2>1, StoreFacts DEF Registered, Built, Live, FinPcs
    <3>3. Kept => Kept'
      BY <3>1, <3>2, <1>2 DEF Kept, Keeper
    <3>4. QED
      BY <3>1, <3>3, <1>6 DEF FlagIsPure
  <2>4. QED
    BY <2>2, <2>3
<1>14. CASE \/ ResumeFails(t) \/ Admission(t) \/ Lock(t) \/ LockQueued(t)
            \/ RejectLocked(t) \/ AdmitTurn(t) \/ AdmitFails(t) \/ InputRefused(t)
            \/ BuildFails(t) \/ AwaitUser(t) \/ EndWait(t) \/ Suspend(t)
            \/ Complete(t) \/ Fail(t) \/ WriteStatus(t) \/ PersistFails(t)
            \/ FinishCheck(t) \/ FinishStatus(t) \/ FinishDrop(t)
            \/ ApplyIntent(t)
  <2>1. UNCHANGED slot
    BY <1>14, QuietTurn, ApplyStep DEF IInv, TypeOK
  <2>2. FlagIsPure' /\ MarksPresent'
    BY <2>1, <1>6 DEF RestInv, FlagIsPure, IsPlaceholderOnly
  <2>3. CASE ~FinishSlot(t) /\ ~ResumeExit(t)
    <3>1. Kept /\ ~slot.present => Kept'
      BY <2>1 DEF Kept
    <3>2. QED
      BY <2>1, <2>2, <2>3, <3>1, <1>5
  <2>4. QED
    BY <2>3, <1>11, <1>13
<1>15. QED
  BY <1>8, <1>9, <1>10, <1>11, <1>12, <1>13, <1>14 DEF TurnStep

(* The slot and its keeper, over the steps of a caller: the intent on a    *)
(* vacant slot is the one step that makes an entry nobody keeps.           *)
LEMMA CallerKeeps ==
  ASSUME RegistryAssumption, IInv, RestInv, NEW c \in Callers, CallerStep(c)
  PROVE  /\ MarksPresent' /\ FlagIsPure'
         /\ Kept => Kept' \/ Haunts
         /\ slot'.placeholder => slot.placeholder
         /\ \A d \in Callers : snap'[d].placeholder => snap[d].placeholder \/ slot.placeholder
<1>1. UNCHANGED <<pc, fin>>
  BY OneCallerMoves
<1>2. SlotOK /\ slot \in SlotType /\ cpc \in [Callers -> CallerPlaces] /\ snap \in [Callers -> SlotType]
  BY DEF IInv, TypeOK, SlotOK
<1>3. \A d \in Callers : d # c => cpc'[d] = cpc[d] /\ snap'[d] = snap[d]
  BY <1>2, OneCallerMoves
<1>4. ASSUME Kept, slot'.present => slot.present,
             slot'.run = slot.run, slot'.placeholder = slot.placeholder
      PROVE  Kept'
  BY <1>1, <1>4 DEF Kept, Keeper, Registered, Built, Resuming, Live
<1>5. ASSUME slot.present => slot'.present, slot'.placeholder => slot.placeholder,
             Marking(c)' => slot'.present /\ ~slot'.placeholder
      PROVE  MarksPresent'
  BY <1>3, <1>5 DEF RestInv, MarksPresent, Marking
<1>6. CASE ForceDelete(c) \/ DeleteRunner(c)
  <2>1. /\ slot' = Vacant /\ cpc[c] \in InCancel
        /\ cpc'[c] \notin InCancel /\ UNCHANGED snap
    BY <1>2, <1>6 DEF ForceDelete, DeleteRunner, CancelReturns, Call, AfterCancel, InCancel
  <2>2. \A d \in Callers : d # c => cpc[d] \notin InCancel
    BY <2>1 DEF RestInv, MuHeld
  <2>3. QED
    BY <2>1, <2>2, <1>3, Flags DEF Kept, FlagIsPure, MarksPresent, Marking, InCancel
<1>7. CASE CancelByFunc(c) \/ CancelByIntent(c) \/ CancelByRunner(c)
  <2>1. /\ \/ slot' = MarkCancelling(slot, snap[c].run)
           \/ slot' = RecordCancelIntent(slot, snap[c])
           \/ slot' = slot
        /\ cpc'[c] \notin {"cancelFunc", "intent", "runner"} /\ UNCHANGED snap
    BY <1>2, <1>7
    DEF CancelByFunc, CancelByIntent, CancelByRunner, CancelReturns, Call, AfterCancel
  <2>2. /\ slot'.run = slot.run /\ slot'.placeholder = slot.placeholder
        /\ slot.present => slot'.present
        /\ FlagIsPure'
    BY <1>2, <2>1, KeeperMarks DEF RestInv, FlagIsPure, IsPlaceholderOnly
  <2>3. slot.present \/ Haunts
    BY <1>7 DEF RestInv, MarksPresent, Marking, Haunts, CancelByFunc, CancelByRunner
  <2>4. QED
    BY <2>1, <2>2, <2>3, <1>4, <1>5 DEF Marking
<1>8. CASE \/ StopCalled(c) \/ PauseCalled(c) \/ UnpauseCalled(c) \/ SweepFinds(c)
           \/ IntentStatus(c) \/ PublishCheck(c) \/ PublishWrite(c) \/ MarkPaused(c)
  <2>1. /\ UNCHANGED <<slot, snap>>
        /\ cpc'[c] \in {"enter", "unpausing", "publish", "publishWrite", "pausing", "done"}
    BY <1>2, <1>8
    DEF StopCalled, PauseCalled, UnpauseCalled, SweepFinds, IntentStatus,
        CancelReturns, AfterCancel, PublishCheck, PublishWrite, MarkPaused,
        Published, Call
  <2>2. QED
    BY <2>1, <1>4, <1>5 DEF Marking, RestInv, FlagIsPure, IsPlaceholderOnly
<1>9. CASE CancelLoad(c)
  <2>1. /\ UNCHANGED slot /\ snap'[c] = slot
        /\ Marking(c)' => slot.present /\ ~slot.placeholder
    BY <1>2, <1>9
    DEF CancelLoad, Call, AfterCancel, Marking, RestInv, FlagIsPure, IsPlaceholderOnly
  <2>2. QED
    BY <2>1, <1>3, <1>4, <1>5 DEF RestInv, FlagIsPure, IsPlaceholderOnly
<1>10. QED
  BY <1>6, <1>7, <1>8, <1>9 DEF CallerStep

(* The same over the other steps, and the invariant with it.               *)
LEMMA SlotKeeps ==
  ASSUME RegistryAssumption, IInv, RestInv, [Next]_vars
  PROVE  RestInv' /\ (Kept => Kept' \/ Haunts)
<1>1. StatusExpires \/ UNCHANGED vars => UNCHANGED <<slot, cpc, snap, pc, fin>>
  BY DEF StatusExpires, vars, noTurnMoves, callerVars
<1>2. UNCHANGED <<slot, cpc, snap, pc, fin>> => MarksPresent' /\ FlagIsPure' /\ (Kept => Kept')
  BY DEF RestInv, MarksPresent, Marking, FlagIsPure, IsPlaceholderOnly, Kept, Keeper,
         Registered, Built, Resuming, Live
<1>3. QED
  BY <1>1, <1>2, TurnKeeps, CallerKeeps, MuStep DEF Next, RestInv

LEMMA RestInvariance == Spec => []RestInv
<1> USE RegistryAssumption
<1>1. Init => RestInv
  BY DEF Init, RestInv, MuHeld, FlagIsPure, MarksPresent, Marking, InCancel, Vacant, ZeroRun
<1>2. IInv /\ RestInv /\ [Next]_vars => RestInv'
  BY SlotKeeps
<1>3. QED
  BY <1>1, <1>2, Invariance, PTL DEF Spec

(* A slot with a keeper is not at rest.                                    *)
LEMMA KeptIsFree == Kept => QuiescentSlotFree
<1>1. ASSUME Kept, slot.present
      PROVE  \E t \in Turns : pc[t] \notin {"idle", "done"}
  BY <1>1, StoreFacts DEF Kept, Keeper, Registered, Built, Resuming, Live, FinPcs
<1>2. QED
  BY <1>1 DEF QuiescentSlotFree

(* The one way to a busy session with nobody in it, short of a panic.      *)
(* With any turns that return, also resumes, any stops, pauses, sweeps and *)
(* forced removals, the slot is free when all turns are over unless a      *)
(* Cancel recorded its intent on a slot that had become vacant since it    *)
(* was loaded (run_registry.go:405-420): for turns that return,            *)
(* ghost_slot's step is all there is.                                      *)
THEOREM OnlyIntentsHaunt == Spec /\ [][~Haunts]_vars => []QuiescentSlotFree
<1>1. Init => Kept
  BY DEF Init, Kept, Vacant, ZeroRun
<1>2. IInv /\ RestInv /\ Kept /\ [Next]_vars /\ [~Haunts]_vars => Kept'
  <2>1. UNCHANGED vars /\ Kept => Kept'
    BY DEF vars, Kept, Keeper, Registered, Built, Resuming, Live
  <2>2. QED
    BY <2>1, RegistryAssumption, SlotKeeps
<1>3. QED
  BY <1>1, <1>2, KeptIsFree, Invariance, RestInvariance, PTL DEF Spec

(* Without a resume there is no placeholder, hence nothing that becomes    *)
(* vacant under a Cancel.                                                  *)
NoPlaceholder == ~slot.placeholder /\ \A c \in Callers : ~snap[c].placeholder

LEMMA NoneWithoutResume ==
  ASSUME NoResume
  PROVE  Spec => []NoPlaceholder
<1> USE RegistryAssumption
<1>1. Init => NoPlaceholder
  BY DEF Init, NoPlaceholder, Vacant, ZeroRun
<1>2. IInv /\ RestInv /\ NoPlaceholder /\ [Next]_vars => NoPlaceholder'
  <2>1. ASSUME IInv, RestInv, NoPlaceholder, NEW t \in Turns, TurnStep(t) PROVE NoPlaceholder'
    BY <2>1, TurnKeeps, CallersStand DEF NoPlaceholder, NoResume, callerVars
  <2>2. ASSUME IInv, RestInv, NoPlaceholder, NEW c \in Callers, CallerStep(c) PROVE NoPlaceholder'
    BY <2>2, CallerKeeps DEF NoPlaceholder
  <2>3. NoPlaceholder /\ (StatusExpires \/ UNCHANGED vars) => NoPlaceholder'
    BY DEF NoPlaceholder, StatusExpires, vars, callerVars
  <2>4. QED
    BY <2>1, <2>2, <2>3 DEF Next
<1>3. QED
  BY <1>1, <1>2, Invariance, RestInvariance, PTL DEF Spec

(* When all turns of a session have returned its slot is free, whatever    *)
(* was stopped, paused, swept or removed by force, and however late; with  *)
(* any number of turns and callers, as long as no resume is among them.    *)
THEOREM FreeAtRest ==
  ASSUME NoResume
  PROVE  Spec => []QuiescentSlotFree
<1>1. RestInv /\ NoPlaceholder => ~Haunts
  BY DEF RestInv, NoPlaceholder, MarksPresent, Marking, Haunts, CancelByIntent
<1>2. QED
  BY <1>1, NoneWithoutResume, RestInvariance, OnlyIntentsHaunt, PTL DEF Spec
=============================================================================
