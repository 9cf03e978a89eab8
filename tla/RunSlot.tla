------------------------------- MODULE RunSlot -------------------------------
(***************************************************************************)
(* The entry of one session in RunRegistry.activeRuns, and what each       *)
(* registry call makes of it.  Every call goes through one method of       *)
(* lifecycle.ManagedMap, which holds the map's mutex while it looks at the *)
(* entry and replaces it, so each operator below is one atomic step.  The  *)
(* map has no TTL here (NewManagedMap(0)), so no entry expires.            *)
(***************************************************************************)
CONSTANTS NoRun,    (* the empty run id                                    *)
          NoTurn    (* the nil runner and the nil cancel func              *)

(* The zero activeRun.  A runner and a cancel func are named by the turn   *)
(* they belong to.                                                         *)
ZeroRun == [present      |-> FALSE,
            run          |-> NoRun,
            runner       |-> NoTurn,
            cancel       |-> NoTurn,
            placeholder  |-> FALSE,
            cancelling   |-> FALSE,
            cancelIntent |-> FALSE]

(* Delete: the key is not in the map.                                      *)
Vacant == ZeroRun

(* ManagedMap.storeLocked, at the end of every UpdateOrStore: whatever the *)
(* callback returned is stored, the unchanged zero value of an absent key  *)
(* included.                                                               *)
StoreLocked(ar) == [ar EXCEPT !.present = TRUE]

(* HasActive                                                               *)
Busy(s) == s.present

(* IsPlaceholderOnly: the entry is still an untouched placeholder.         *)
IsPlaceholderOnly(s) ==
  /\ s.present
  /\ s.placeholder
  /\ s.runner = NoTurn
  /\ s.cancel = NoTurn
  /\ s.run = NoRun

StorePlaceholderIfVacant(s) ==
  StoreLocked(IF s.present THEN s ELSE [ZeroRun EXCEPT !.placeholder = TRUE])

(* Mutated form: less is looked at.                                        *)
FinishPlaceholderBlind(s) == IF s.run = NoRun \/ s.runner = NoTurn THEN Vacant ELSE s

FinishPlaceholder(s) == IF IsPlaceholderOnly(s) THEN Vacant ELSE s

(* StoreCancelable and StoreRunner build a fresh entry: placeholder,       *)
(* cancelling and cancelIntent are dropped; the caller takes the intent    *)
(* away and applies it.                                                    *)
StoreCancelable(s, run, t) ==
  StoreLocked([ZeroRun EXCEPT !.run    = IF run = NoRun THEN s.run ELSE run,
                              !.cancel = t,
                              !.runner = s.runner])

(* Mutated form: an absent entry stays absent.                             *)
StoreRunnerIfPresent(s, run, t) ==
  [ZeroRun EXCEPT !.present = s.present,
                  !.run     = IF run = NoRun THEN s.run ELSE run,
                  !.runner  = t,
                  !.cancel  = s.cancel]

StoreRunner(s, run, t) ==
  StoreLocked([ZeroRun EXCEPT !.run    = IF run = NoRun THEN s.run ELSE run,
                              !.runner = t,
                              !.cancel = s.cancel])

(* Cancel and applyRecordedCancelIntent keep the entry, marked, so that    *)
(* the session stays busy until the run's own Finish.                      *)
MarkCancelling(s, run) ==
  StoreLocked(IF s.present /\ s.run = run
                THEN [s EXCEPT !.cancelling = TRUE]
                ELSE s)

(* Cancel on a slot with nothing to cancel yet: loaded is the entry it     *)
(* read before.                                                            *)
RecordCancelIntent(s, loaded) ==
  StoreLocked(IF /\ s.present
                 /\ s.run = loaded.run
                 /\ s.placeholder = loaded.placeholder
                THEN [s EXCEPT !.cancelIntent = TRUE]
                ELSE s)

(* The predicate of Finish's DeleteIf.                                     *)
FinishMatches(s, run) ==
  s.present /\ (run = NoRun \/ s.run = NoRun \/ s.run = run)
=============================================================================
