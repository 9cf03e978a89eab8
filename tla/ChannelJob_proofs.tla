-------------------------- MODULE ChannelJob_proofs --------------------------
(***************************************************************************)
(* What the rounds of the sweeper may do to a job, and that no job is      *)
(* called completed by mistake: for any jobs, rounds and cancel requests.  *)
(*                                                                         *)
(* A claim compares the row with what its round listed.  The row was old   *)
(* enough when it was listed and has only grown older unless somebody      *)
(* wrote it (ListedIsStale).  For NoFalseSuccess the invariant follows a   *)
(* completed verdict from where it is taken, through the validated write   *)
(* or the round's list that carries it, to the row (CompletedIsDone): the  *)
(* end it speaks of never changes, because a target is dispatched once     *)
(* (DispatchedOnce) and only for a job that is no turn (TurnsDispatchNone).*)
(* A round only asks for a target that was dispatched, and only writes     *)
(* async_queued for one (TargetKnown): never for a turn.                   *)
(***************************************************************************)
EXTENDS ChannelJob, TLAPS

ListedIsStale ==
  \A s \in Sweeps : \A i \in work[s] :
    i.job \in unwritten[s] => age[i.job] >= StaleAge(i.from)

Done(j) == IF kind[j] = "turn" THEN pc[j] = "over" ELSE target[j] = "completed"

CompletedIsDone ==
  /\ \A j \in Jobs : status[j] = "completed" => Done(j)
  /\ \A w \in writes : w.to = "completed" => Done(w.job)
  /\ \A s \in Sweeps : \A i \in work[s] : i.to = "completed" => target[i.job] = "completed"

DispatchedOnce ==
  \A j \in Jobs : /\ pc[j] \in {"none", "created"} => target[j] = "none"
                  /\ pc[j] \in {"dispatched", "queued", "targeted"} => target[j] # "none"

TargetKnown ==
  /\ \A j \in Jobs : hasTarget[j] => target[j] # "none"
  /\ \A s \in Sweeps : \A i \in work[s] : i.to \in {"ask", "touch"} => target[i.job] # "none"

TurnsDispatchNone ==
  \A j \in Jobs : /\ kind[j] = "turn" => target[j] = "none"
                  /\ pc[j] = "executing" => kind[j] = "turn"

TargetInv == DispatchedOnce /\ TargetKnown /\ TurnsDispatchNone

IInv == TypeOK /\ TargetInv /\ ListedIsStale /\ CompletedIsDone

LEMMA InitInvariant == Init => IInv
  BY JobAssumption DEF Init, IInv, TypeOK, ListedIsStale, CompletedIsDone, TargetInv,
     DispatchedOnce, TargetKnown, TurnsDispatchNone, Done, Ages

-----------------------------------------------------------------------------
(* The state machine only knows statuses, and only "complete" leads to     *)
(* completed.                                                              *)
LEMMA AfterIsStatus ==
  ASSUME NEW st, NEW event
  PROVE  /\ After(st, event) \subseteq Statuses
         /\ event # "complete" => "completed" \notin After(st, event)
  BY DEF After, Statuses, Rules

(* Validating an event adds well-typed writes, and a completed one only    *)
(* for "complete".                                                         *)
LEMMA ValidateAdds ==
  ASSUME TypeOK, NEW by \in Callers, NEW j \in Jobs, NEW event, Validate(by, j, event)
  PROVE  /\ writes' \subseteq Writes
         /\ \A w \in writes' : \/ w \in writes
                               \/ w.job = j /\ w.to = "completed" => event = "complete"
         /\ \A w \in writes' : w \notin writes => w.job = j
<1>1. \A to \in After(status[j], event) :
        /\ [by |-> by, job |-> j, to |-> to] \in Writes
        /\ to = "completed" => event = "complete"
  BY AfterIsStatus DEF Writes
<1> QED BY <1>1 DEF Validate, TypeOK

-----------------------------------------------------------------------------
(* The type invariant.                                                     *)

LEMMA RowTypes ==
  ASSUME TypeOK, NEW j \in Jobs, NEW to \in Statuses, UpdateStatus(j, to)
  PROVE  /\ status' \in [Jobs -> Statuses \cup {"none"}]
         /\ age' \in [Jobs -> Ages]
         /\ unwritten' \in [Sweeps -> SUBSET Jobs]
  BY DEF TypeOK, UpdateStatus, Touch, Ages

LEMMA MessageTypes ==
  ASSUME TypeOK, NEW j \in Jobs,
         \/ Create(j) \/ StartTurn(j) \/ EndTurn(j)
         \/ Dispatch(j) \/ DispatchFails(j) \/ MarkAsyncQueued(j)
         \/ SetTarget(j) \/ SetTargetFails(j) \/ StartWatch(j) \/ AckFails(j)
  PROVE  TypeOK'
<1> USE DEF rowVars
<1>1. "turn" \in Callers
  BY DEF Callers
<1>2. CASE Create(j)
  <2>1. "accepted" \in Statuses
    BY DEF Statuses, Active
  <2> QED BY <1>2, <2>1, RowTypes DEF Create, Goto, TypeOK
<1>3. CASE StartTurn(j)
  BY <1>3, <1>1, ValidateAdds DEF StartTurn, Goto, TypeOK
<1>4. CASE EndTurn(j)
  BY <1>4, <1>1, ValidateAdds DEF EndTurn, Goto, TypeOK
<1>5. CASE DispatchFails(j)
  BY <1>5, <1>1, ValidateAdds DEF DispatchFails, Goto, TypeOK
<1>6. CASE MarkAsyncQueued(j)
  BY <1>6, <1>1, ValidateAdds DEF MarkAsyncQueued, Goto, TypeOK
<1>7. CASE Dispatch(j) \/ StartWatch(j)
  BY <1>7 DEF Dispatch, StartWatch, Goto, TypeOK
<1>8. CASE SetTarget(j)
  BY <1>8 DEF SetTarget, Touch, Goto, TypeOK, Ages
<1>9. CASE SetTargetFails(j) \/ AckFails(j)
  BY <1>9, JobAssumption DEF SetTargetFails, AckFails, Fault, Goto, TypeOK
<1> QED BY <1>2, <1>3, <1>4, <1>5, <1>6, <1>7, <1>8, <1>9

LEMMA TargetTypes ==
  ASSUME TypeOK, NEW j \in Jobs,
         \/ TargetEnds(j) \/ Subscribe(j)
         \/ WatchCompletes(j) \/ WatchFails(j) \/ WatchTimesOut(j)
         \/ ProcessDies(j) \/ TimePasses(j)
  PROVE  TypeOK'
<1> USE DEF rowVars
<1>1. "watch" \in Callers
  BY DEF Callers
<1>2. CASE TargetEnds(j) \/ Subscribe(j)
  BY <1>2 DEF TargetEnds, Subscribe, GotoWatch, TypeOK
<1>3. ASSUME NEW here, NEW event, WatchEnds(j, here, event) PROVE TypeOK'
  BY <1>3, <1>1, ValidateAdds DEF WatchEnds, GotoWatch, TypeOK
<1>4. CASE WatchCompletes(j) \/ WatchFails(j) \/ WatchTimesOut(j)
  BY <1>4, <1>3 DEF WatchCompletes, WatchFails, WatchTimesOut
<1>5. CASE ProcessDies(j)
  BY <1>5, JobAssumption DEF ProcessDies, Fault, TypeOK
<1>6. CASE TimePasses(j)
  BY <1>6 DEF TimePasses, TypeOK, Ages
<1> QED BY <1>2, <1>4, <1>5, <1>6

LEMMA WriteTypes ==
  ASSUME TypeOK, NEW w \in writes, Land(w) \/ Drop(w)
  PROVE  TypeOK'
<1>1. w.job \in Jobs /\ w.to \in Statuses
  BY DEF TypeOK, Writes
<1>2. CASE Land(w)
  BY <1>1, <1>2, RowTypes DEF Land, TypeOK
<1>3. CASE Drop(w)
  BY <1>3, JobAssumption DEF Drop, Fault, rowVars, TypeOK
<1> QED BY <1>2, <1>3

LEMMA CancelTypes ==
  ASSUME TypeOK, NEW c \in Cancellers, AskCancel(c) \/ \E j \in todo[c] : CancelNext(c, j)
  PROVE  TypeOK'
<1> USE DEF rowVars
<1>1. CASE AskCancel(c)
  BY <1>1 DEF AskCancel, TypeOK
<1>2. ASSUME NEW j \in todo[c], CancelNext(c, j) PROVE TypeOK'
  <2>1. j \in Jobs /\ c \in Callers
    BY DEF TypeOK, Callers
  <2> QED BY <1>2, <2>1, ValidateAdds DEF CancelNext, TypeOK
<1> QED BY <1>1, <1>2

(* What an item of a round becomes is an item.                             *)
LEMMA ReplaceTypes ==
  ASSUME TypeOK, NEW s \in Sweeps, NEW i \in work[s], NEW new \in SUBSET Items,
         Replace(s, i, new)
  PROVE  work' \in [Sweeps -> SUBSET Items]
  BY DEF Replace, TypeOK

LEMMA ItemTypes ==
  ASSUME TypeOK, NEW s \in Sweeps, NEW i \in work[s]
  PROVE  i \in Items /\ i.job \in Jobs /\ i.from \in Active
  BY DEF TypeOK, Items

LEMMA ListTypes ==
  ASSUME TypeOK, NEW s \in Sweeps, List(s)
  PROVE  TypeOK'
<1>1. PICK st \in Active :
        /\ work' = [work EXCEPT ![s] = {[job |-> j, from |-> st, to |-> Plan(j)] : j \in Listed(st)}]
        /\ unwritten' = [unwritten EXCEPT ![s] = Listed(st)]
  BY DEF List
<1>2. Listed(st) \subseteq Jobs
  BY DEF Listed
<1>3. ASSUME NEW j \in Listed(st) PROVE Plan(j) \in Terminal \cup {"ask", "touch"}
  BY <1>3 DEF Listed, Plan, Active, Terminal
<1>4. {[job |-> j, from |-> st, to |-> Plan(j)] : j \in Listed(st)} \subseteq Items
  BY <1>2, <1>3 DEF Items
<1>5. work' \in [Sweeps -> SUBSET Items] /\ unwritten' \in [Sweeps -> SUBSET Jobs]
  BY <1>1, <1>2, <1>4 DEF TypeOK
<1> QED BY <1>5 DEF List, TypeOK

LEMMA SweepTypes ==
  ASSUME TypeOK, TargetKnown, NEW s \in Sweeps, Sweep(s) \/ \E i \in work[s] : SkipItem(s, i)
  PROVE  TypeOK'
<1> USE DEF rowVars
<1>1. ASSUME NEW i \in work[s], AskTarget(s, i) PROVE TypeOK'
  <2> DEFINE to == IF target[i.job] = "running" THEN "touch" ELSE target[i.job]
  <2>1. CASE to \in Terminal \cup {"touch"}
    <3>1. [i EXCEPT !.to = to] \in Items
      BY <2>1, ItemTypes DEF Items
    <3> QED BY <1>1, <3>1, ReplaceTypes DEF AskTarget, TypeOK
  <2>2. target[i.job] # "none" /\ i.job \in Jobs
    BY <1>1, ItemTypes DEF AskTarget, TargetKnown
  <2> QED BY <2>1, <2>2 DEF TypeOK, Terminal
<1>2. ASSUME NEW i \in work[s], TouchRunning(s, i) PROVE TypeOK'
  <2>1. "async_queued" \in Statuses
    BY DEF Statuses, Active
  <2> QED BY <1>2, <2>1, ItemTypes, ReplaceTypes, RowTypes DEF TouchRunning, TypeOK
<1>3. ASSUME NEW i \in work[s], Claim(s, i) PROVE TypeOK'
  <2>1. i.to \in Statuses
    BY <1>3 DEF Claim, Statuses
  <2>2. work' \in [Sweeps -> SUBSET Items]
    BY <1>3, ReplaceTypes DEF Claim
  <2>3. CASE Holds(s, i)
    BY <1>3, <2>1, <2>2, <2>3, ItemTypes, RowTypes DEF Claim, TypeOK
  <2>4. CASE ~Holds(s, i)
    BY <1>3, <2>2, <2>4 DEF Claim, TypeOK
  <2> QED BY <2>3, <2>4
<1>4. ASSUME NEW i \in work[s], SkipItem(s, i) PROVE TypeOK'
  BY <1>4, ReplaceTypes, JobAssumption DEF SkipItem, Fault, TypeOK
<1> QED BY <1>1, <1>2, <1>3, <1>4, ListTypes DEF Sweep

(* The type invariant holds after every step.                              *)
LEMMA TypesKept == TypeOK /\ TargetKnown /\ [Next]_vars => TypeOK'
<1> SUFFICES ASSUME TypeOK, TargetKnown, [Next]_vars PROVE TypeOK'
  OBVIOUS
<1>1. CASE UNCHANGED vars
  BY <1>1 DEF vars, rowVars, TypeOK
<1> QED
  BY <1>1, MessageTypes, TargetTypes, WriteTypes, CancelTypes, SweepTypes DEF Next

-----------------------------------------------------------------------------
(* What is known of targets.                                               *)

LEMMA TargetsKept == TypeOK /\ TargetInv /\ [Next]_vars => TargetInv'
<1> SUFFICES ASSUME TypeOK, TargetInv, [Next]_vars PROVE TargetInv'
  OBVIOUS
<1> USE DEF TargetInv, DispatchedOnce, TargetKnown, TurnsDispatchNone
<1>1. ASSUME NEW j \in Jobs, Create(j) PROVE TargetInv'
  BY <1>1 DEF Create, Goto, TypeOK
<1>2. ASSUME NEW j \in Jobs, StartTurn(j) \/ EndTurn(j) \/ DispatchFails(j) PROVE TargetInv'
  BY <1>2 DEF StartTurn, EndTurn, DispatchFails, Goto, TypeOK
<1>3. ASSUME NEW j \in Jobs, Dispatch(j) PROVE TargetInv'
  <2>1. \A s \in Sweeps : \A i \in work[s] : i.job \in Jobs
    BY ItemTypes
  <2> QED BY <1>3, <2>1 DEF Dispatch, Goto, TypeOK
<1>4. ASSUME NEW j \in Jobs,
             MarkAsyncQueued(j) \/ SetTargetFails(j) \/ StartWatch(j) \/ AckFails(j)
      PROVE  TargetInv'
  BY <1>4 DEF MarkAsyncQueued, SetTargetFails, StartWatch, AckFails, Goto, TypeOK
<1>5. ASSUME NEW j \in Jobs, SetTarget(j) PROVE TargetInv'
  BY <1>5 DEF SetTarget, Goto, TypeOK
<1>6. ASSUME NEW j \in Jobs, TargetEnds(j) PROVE TargetInv'
  <2>1. \A s \in Sweeps : \A i \in work[s] : i.job \in Jobs
    BY ItemTypes
  <2> QED BY <1>6, <2>1 DEF TargetEnds, TypeOK
<1>7. ASSUME NEW j \in Jobs,
             \/ Subscribe(j) \/ TimePasses(j)
             \/ WatchCompletes(j) \/ WatchFails(j) \/ WatchTimesOut(j)
      PROVE  TargetInv'
  BY <1>7 DEF Subscribe, TimePasses, WatchCompletes, WatchFails, WatchTimesOut, WatchEnds
<1>8. ASSUME NEW j \in Jobs, ProcessDies(j) PROVE TargetInv'
  BY <1>8 DEF ProcessDies, TypeOK
<1>9. ASSUME NEW w \in writes, Land(w) \/ Drop(w) PROVE TargetInv'
  BY <1>9 DEF Land, Drop
<1>10. ASSUME NEW c \in Cancellers, AskCancel(c) \/ \E j \in todo[c] : CancelNext(c, j)
       PROVE  TargetInv'
  BY <1>10 DEF AskCancel, CancelNext
<1>11. ASSUME NEW s \in Sweeps, List(s) PROVE TargetInv'
  <2>1. PICK st \in Active :
          work' = [work EXCEPT ![s] = {[job |-> j, from |-> st, to |-> Plan(j)] : j \in Listed(st)}]
    BY <1>11 DEF List
  <2>2. ASSUME NEW j \in Listed(st), Plan(j) \in {"ask", "touch"} PROVE target[j] # "none"
    <3>1. j \in Jobs /\ status[j] = st /\ hasTarget[j]
      BY <2>2 DEF Listed, Plan, Active
    <3> QED BY <3>1
  <2>3. \A i \in work'[s] : i.to \in {"ask", "touch"} => target[i.job] # "none"
    BY <2>1, <2>2 DEF TypeOK
  <2>4. \A r \in Sweeps \ {s} : work'[r] = work[r]
    BY <2>1 DEF TypeOK
  <2> QED BY <1>11, <2>3, <2>4 DEF List
<1>12. ASSUME NEW s \in Sweeps, NEW i \in work[s],
              AskTarget(s, i) \/ TouchRunning(s, i) \/ Claim(s, i) \/ SkipItem(s, i)
       PROVE  TargetInv'
  <2> DEFINE Known == {k \in Items : k.job = i.job /\ k.to # "ask"
                                      /\ (k.to = "touch" => target[k.job] # "none")}
  <2>1. PICK new \in SUBSET Known : Replace(s, i, new)
    <3> DEFINE to == IF target[i.job] = "running" THEN "touch" ELSE target[i.job]
    <3>1. CASE AskTarget(s, i)
      <4>1. i \in Items /\ target[i.job] \in {"running", "completed", "failed", "cancelled"}
        BY <3>1, ItemTypes DEF AskTarget, TypeOK
      <4>2. [i EXCEPT !.to = to] \in Known
        BY <4>1 DEF Items, Terminal
      <4> QED BY <3>1, <4>2 DEF AskTarget
    <3>2. CASE TouchRunning(s, i) \/ Claim(s, i) \/ SkipItem(s, i)
      <4>1. Replace(s, i, {})
        BY <3>2 DEF TouchRunning, Claim, SkipItem
      <4> QED BY <4>1
    <3> QED BY <1>12, <3>1, <3>2
  <2>2. \A r \in Sweeps : \A k \in work'[r] :
          k \in work[r] \/ (k.to # "ask" /\ (k.to = "touch" => target[k.job] # "none"))
    <3>1. ASSUME NEW r \in Sweeps, NEW k \in work'[r] PROVE k \in work[r] \/ k \in new
      BY <2>1 DEF Replace, TypeOK
    <3>2. \A k \in new : k.to # "ask" /\ (k.to = "touch" => target[k.job] # "none")
      BY <2>1
    <3> QED BY <3>1, <3>2
  <2> QED BY <1>12, <2>2 DEF AskTarget, TouchRunning, Claim, SkipItem
<1>13. CASE UNCHANGED vars
  BY <1>13 DEF vars, rowVars
<1> QED
  BY <1>1, <1>2, <1>3, <1>4, <1>5, <1>6, <1>7, <1>8, <1>9, <1>10, <1>11, <1>12, <1>13
  DEF Next, Sweep

-----------------------------------------------------------------------------
(* A listed row that nobody wrote since is still old enough.               *)

(* Steps that add nothing to a round's list, and write rows whole if at    *)
(* all.                                                                    *)
LEMMA StaleFrame ==
  ASSUME TypeOK, ListedIsStale,
         \A s \in Sweeps : \A i \in work'[s] :
           \E k \in work[s] : k.job = i.job /\ k.from = i.from,
         \/ UNCHANGED <<age, unwritten>>
         \/ \E j \in Jobs : Touch(j)
         \/ UNCHANGED age /\ \A s \in Sweeps : unwritten'[s] \subseteq unwritten[s]
         \/ UNCHANGED unwritten /\ \E j \in Jobs : age' = [age EXCEPT ![j] = @ + 1]
  PROVE  ListedIsStale'
<1> SUFFICES ASSUME NEW s \in Sweeps, NEW i \in work'[s], i.job \in unwritten'[s]
             PROVE  age'[i.job] >= StaleAge(i.from)
  BY DEF ListedIsStale, StaleAge
<1>1. PICK k \in work[s] : k.job = i.job /\ k.from = i.from
  OBVIOUS
<1>2. k.job \in Jobs /\ age[k.job] \in Nat
  BY ItemTypes DEF TypeOK, Ages
<1>3. k.job \in unwritten[s] => age[k.job] >= StaleAge(k.from)
  BY DEF ListedIsStale
<1> QED BY <1>1, <1>2, <1>3 DEF Touch, TypeOK, StaleAge

LEMMA StaleKept == TypeOK /\ ListedIsStale /\ [Next]_vars => ListedIsStale'
<1> SUFFICES ASSUME TypeOK, ListedIsStale, [Next]_vars PROVE ListedIsStale'
  OBVIOUS
<1> USE DEF rowVars
<1>1. ASSUME UNCHANGED work, \/ UNCHANGED <<age, unwritten>>
                             \/ \E j \in Jobs : Touch(j)
                             \/ \E j \in Jobs : TimePasses(j)
      PROVE  ListedIsStale'
  BY <1>1, StaleFrame DEF TimePasses
<1>2. ASSUME NEW j \in Jobs, Create(j) \/ SetTarget(j) PROVE ListedIsStale'
  BY <1>2, <1>1 DEF Create, SetTarget, UpdateStatus
<1>3. ASSUME NEW j \in Jobs,
             \/ StartTurn(j) \/ EndTurn(j) \/ Dispatch(j) \/ DispatchFails(j)
             \/ MarkAsyncQueued(j) \/ SetTargetFails(j) \/ StartWatch(j) \/ AckFails(j)
             \/ TargetEnds(j) \/ Subscribe(j) \/ ProcessDies(j)
             \/ WatchCompletes(j) \/ WatchFails(j) \/ WatchTimesOut(j)
      PROVE  ListedIsStale'
  BY <1>3, <1>1 DEF StartTurn, EndTurn, Dispatch, DispatchFails, MarkAsyncQueued,
     SetTargetFails, StartWatch, AckFails, TargetEnds, Subscribe, ProcessDies,
     WatchCompletes, WatchFails, WatchTimesOut, WatchEnds
<1>4. ASSUME NEW j \in Jobs, TimePasses(j) PROVE ListedIsStale'
  BY <1>4, <1>1 DEF TimePasses
<1>5. ASSUME NEW w \in writes, Land(w) \/ Drop(w) PROVE ListedIsStale'
  <2>1. w.job \in Jobs
    BY DEF TypeOK, Writes
  <2> QED BY <1>5, <1>1, <2>1 DEF Land, Drop, UpdateStatus
<1>6. ASSUME NEW c \in Cancellers, AskCancel(c) \/ \E j \in todo[c] : CancelNext(c, j)
      PROVE  ListedIsStale'
  BY <1>6, <1>1 DEF AskCancel, CancelNext
<1>7. ASSUME NEW s \in Sweeps, List(s) PROVE ListedIsStale'
  <2>1. PICK st \in Active :
          /\ work' = [work EXCEPT ![s] = {[job |-> j, from |-> st, to |-> Plan(j)] : j \in Listed(st)}]
          /\ unwritten' = [unwritten EXCEPT ![s] = Listed(st)]
    BY <1>7 DEF List
  <2>2. \A i \in work'[s] : age[i.job] >= StaleAge(i.from)
    BY <2>1 DEF Listed, TypeOK
  <2>3. \A r \in Sweeps \ {s} : work'[r] = work[r] /\ unwritten'[r] = unwritten[r]
    BY <2>1 DEF TypeOK
  <2>4. UNCHANGED age
    BY <1>7 DEF List
  <2> QED BY <2>2, <2>3, <2>4 DEF ListedIsStale, StaleAge
<1>8. ASSUME NEW s \in Sweeps, NEW i \in work[s],
             AskTarget(s, i) \/ TouchRunning(s, i) \/ Claim(s, i) \/ SkipItem(s, i)
      PROVE  ListedIsStale'
  <2>1. \A r \in Sweeps : \A k \in work'[r] :
          \E l \in work[r] : l.job = k.job /\ l.from = k.from
    <3>1. CASE AskTarget(s, i)
      <4> DEFINE asked == [i EXCEPT !.to = IF target[i.job] = "running" THEN "touch"
                                           ELSE target[i.job]]
      <4>1. asked.job = i.job /\ asked.from = i.from
        BY ItemTypes DEF Items
      <4>2. \A r \in Sweeps : \A k \in work'[r] : k \in work[r] \/ (r = s /\ k = asked)
        BY <3>1 DEF AskTarget, Replace, TypeOK
      <4> QED BY <4>1, <4>2
    <3>2. CASE Replace(s, i, {})
      BY <3>2 DEF Replace, TypeOK
    <3> QED BY <1>8, <3>1, <3>2 DEF TouchRunning, Claim, SkipItem
  <2>2. i.job \in Jobs
    BY ItemTypes
  <2>3. \/ UNCHANGED <<age, unwritten>>
        \/ \E j \in Jobs : Touch(j)
        \/ UNCHANGED age /\ \A r \in Sweeps : unwritten'[r] \subseteq unwritten[r]
    BY <1>8, <2>2 DEF AskTarget, TouchRunning, Claim, SkipItem, UpdateStatus, TypeOK
  <2> QED BY <2>1, <2>3, StaleFrame
<1>9. CASE UNCHANGED vars
  BY <1>9, <1>1 DEF vars
<1> QED
  BY <1>2, <1>3, <1>4, <1>5, <1>6, <1>7, <1>8, <1>9 DEF Next, Sweep

-----------------------------------------------------------------------------
(* Who says completed is right.                                            *)

(* Steps that give no one a new verdict, and take no end back.             *)
LEMMA DoneFrame ==
  ASSUME TypeOK, CompletedIsDone,
         \A j \in Jobs : status'[j] = "completed" => status[j] = "completed",
         \A j \in Jobs : Done(j) => Done(j)',
         \A j \in Jobs : target[j] = "completed" => target'[j] = "completed",
         \A w \in writes' : w.to = "completed" => w \in writes,
         \A s \in Sweeps : \A i \in work'[s] : i.to = "completed" => i \in work[s]
  PROVE  CompletedIsDone'
<1>1. \A w \in writes : w.job \in Jobs
  BY DEF TypeOK, Writes
<1>2. \A s \in Sweeps : \A i \in work[s] : i.job \in Jobs
  BY ItemTypes
<1> QED BY <1>1, <1>2 DEF CompletedIsDone

LEMMA MessageDone ==
  ASSUME TypeOK, TargetInv, CompletedIsDone, NEW j \in Jobs,
         \/ Create(j) \/ StartTurn(j) \/ EndTurn(j)
         \/ Dispatch(j) \/ DispatchFails(j) \/ MarkAsyncQueued(j)
         \/ SetTarget(j) \/ SetTargetFails(j) \/ StartWatch(j) \/ AckFails(j)
  PROVE  CompletedIsDone'
<1> USE DEF rowVars, TargetInv
<1>1. "turn" \in Callers
  BY DEF Callers
<1>2. CASE Create(j)
  <2>1. ~Done(j)
    BY <1>2 DEF Create, Goto, Done, DispatchedOnce
  <2>2. \A k \in Jobs : Done(k) => Done(k)'
    BY <1>2, <2>1 DEF Create, Goto, Done, TypeOK
  <2>3. \A k \in Jobs : status'[k] = "completed" => status[k] = "completed"
    BY <1>2 DEF Create, UpdateStatus, TypeOK
  <2> QED BY <1>2, <2>2, <2>3, DoneFrame DEF Create
<1>3. ASSUME NEW event, event # "complete", Validate("turn", j, event),
             UNCHANGED <<status, target, work>>,
             \A k \in Jobs : Done(k) => Done(k)'
      PROVE  CompletedIsDone'
  BY <1>1, <1>3, ValidateAdds, DoneFrame
<1>4. ASSUME NEW here, here # "over", NEW there, Goto(j, here, there), UNCHANGED <<kind, target>>,
             NEW k \in Jobs, Done(k)
      PROVE  Done(k)'
  BY <1>4 DEF Goto, Done, TypeOK
<1>5. CASE StartTurn(j) \/ DispatchFails(j) \/ MarkAsyncQueued(j)
  BY <1>3, <1>4, <1>5 DEF StartTurn, DispatchFails, MarkAsyncQueued
<1>6. CASE EndTurn(j)
  <2>1. kind[j] = "turn" /\ pc'[j] = "over" /\ UNCHANGED <<kind, status, target, work>>
    BY <1>6 DEF EndTurn, Goto, TypeOK, TurnsDispatchNone
  <2>2. Done(j)'
    BY <2>1 DEF Done
  <2>3. \A w \in writes' : w \in writes \/ w.job = j
    BY <1>1, <1>6, ValidateAdds DEF EndTurn
  <2>4. \A k \in Jobs : Done(k) => Done(k)'
    BY <1>4, <1>6 DEF EndTurn
  <2>5. \A w \in writes : w.job \in Jobs
    BY DEF TypeOK, Writes
  <2> QED BY <2>1, <2>2, <2>3, <2>4, <2>5, ItemTypes DEF CompletedIsDone
<1>7. CASE Dispatch(j)
  <2>1. target[j] = "none" /\ kind[j] # "turn"
    BY <1>7 DEF Dispatch, Goto, DispatchedOnce
  <2>2. \A k \in Jobs : Done(k) => Done(k)'
    BY <1>7, <2>1 DEF Dispatch, Goto, Done, TypeOK
  <2>3. \A k \in Jobs : target[k] = "completed" => target'[k] = "completed"
    BY <1>7, <2>1 DEF Dispatch, TypeOK
  <2> QED BY <1>7, <2>2, <2>3, DoneFrame DEF Dispatch
<1>8. CASE SetTarget(j) \/ SetTargetFails(j) \/ StartWatch(j) \/ AckFails(j)
  <2>1. \A k \in Jobs : Done(k) => Done(k)'
    BY <1>4, <1>8 DEF SetTarget, SetTargetFails, StartWatch, AckFails
  <2> QED BY <1>8, <2>1, DoneFrame DEF SetTarget, SetTargetFails, StartWatch, AckFails
<1> QED BY <1>2, <1>5, <1>6, <1>7, <1>8

LEMMA TargetDone ==
  ASSUME TypeOK, TargetInv, CompletedIsDone, NEW j \in Jobs,
         \/ TargetEnds(j) \/ Subscribe(j)
         \/ WatchCompletes(j) \/ WatchFails(j) \/ WatchTimesOut(j)
         \/ ProcessDies(j) \/ TimePasses(j)
  PROVE  CompletedIsDone'
<1> USE DEF rowVars
<1>1. "watch" \in Callers
  BY DEF Callers
<1>2. CASE TargetEnds(j)
  <2>1. \A k \in Jobs : target[k] = "completed" => target'[k] = "completed"
    BY <1>2 DEF TargetEnds, TypeOK
  <2>2. \A k \in Jobs : Done(k) => Done(k)'
    BY <1>2, <2>1 DEF TargetEnds, Done
  <2> QED BY <1>2, <2>1, <2>2, DoneFrame DEF TargetEnds
<1>3. CASE Subscribe(j) \/ TimePasses(j)
  <2>1. \A k \in Jobs : Done(k) => Done(k)'
    BY <1>3 DEF Subscribe, TimePasses, Done
  <2> QED BY <1>3, <2>1, DoneFrame DEF Subscribe, TimePasses
<1>4. ASSUME NEW here, NEW event, WatchEnds(j, here, event),
             event = "complete" => target[j] = "completed"
      PROVE  CompletedIsDone'
  <2>1. \A w \in writes' : w.to = "completed" =>
          w \in writes \/ (w.job = j /\ target[j] = "completed")
    BY <1>1, <1>4, ValidateAdds DEF WatchEnds
  <2>2. target[j] = "completed" => Done(j)
    BY DEF Done, TargetInv, TurnsDispatchNone
  <2>3. \A w \in writes' : w.to = "completed" => Done(w.job)
    BY <2>1, <2>2 DEF CompletedIsDone
  <2> QED BY <1>4, <2>3 DEF WatchEnds, CompletedIsDone, Done
<1>5. CASE WatchCompletes(j) \/ WatchFails(j) \/ WatchTimesOut(j)
  BY <1>4, <1>5 DEF WatchCompletes, WatchFails, WatchTimesOut
<1>6. CASE ProcessDies(j)
  <2>1. \A k \in Jobs : Done(k) => Done(k)'
    BY <1>6 DEF ProcessDies, Done, TypeOK
  <2> QED BY <1>6, <2>1, DoneFrame DEF ProcessDies
<1> QED BY <1>2, <1>3, <1>5, <1>6

LEMMA WriteDone ==
  ASSUME TypeOK, CompletedIsDone, NEW w \in writes, Land(w) \/ Drop(w)
  PROVE  CompletedIsDone'
<1>1. w.job \in Jobs
  BY DEF TypeOK, Writes
<1>2. CASE Land(w)
  <2>1. \A k \in Jobs : status'[k] = "completed" => Done(k)'
    BY <1>1, <1>2 DEF Land, UpdateStatus, CompletedIsDone, Done, TypeOK
  <2> QED BY <1>2, <2>1 DEF Land, CompletedIsDone, Done
<1>3. CASE Drop(w)
  BY <1>3, DoneFrame DEF Drop, rowVars, Done
<1> QED BY <1>2, <1>3

LEMMA CancelDone ==
  ASSUME TypeOK, CompletedIsDone, NEW c \in Cancellers,
         AskCancel(c) \/ \E j \in todo[c] : CancelNext(c, j)
  PROVE  CompletedIsDone'
<1> USE DEF rowVars
<1>1. CASE AskCancel(c)
  BY <1>1, DoneFrame DEF AskCancel, Done
<1>2. ASSUME NEW j \in todo[c], CancelNext(c, j) PROVE CompletedIsDone'
  <2>1. j \in Jobs /\ c \in Callers
    BY DEF TypeOK, Callers
  <2>2. \A w \in writes' : w.to = "completed" => w \in writes
    BY <1>2, <2>1, ValidateAdds DEF CancelNext
  <2> QED BY <1>2, <2>2, DoneFrame DEF CancelNext, Done
<1> QED BY <1>1, <1>2

LEMMA SweepDone ==
  ASSUME TypeOK, TargetInv, CompletedIsDone, NEW s \in Sweeps,
         Sweep(s) \/ \E i \in work[s] : SkipItem(s, i)
  PROVE  CompletedIsDone'
<1> USE DEF rowVars
<1>1. CASE List(s)
  <2>1. PICK st \in Active :
          work' = [work EXCEPT ![s] = {[job |-> j, from |-> st, to |-> Plan(j)] : j \in Listed(st)}]
    BY <1>1 DEF List
  <2>2. \A j \in Listed(st) : Plan(j) # "completed"
    BY DEF Listed, Plan, Active
  <2>3. \A r \in Sweeps : \A i \in work'[r] : i.to = "completed" => i \in work[r]
    BY <2>1, <2>2 DEF TypeOK
  <2> QED BY <1>1, <2>3, DoneFrame DEF List, Done
<1>2. ASSUME NEW i \in work[s], AskTarget(s, i) PROVE CompletedIsDone'
  <2> DEFINE asked == [i EXCEPT !.to = IF target[i.job] = "running" THEN "touch"
                                       ELSE target[i.job]]
  <2>1. asked.job = i.job /\ (asked.to = "completed" => target[i.job] = "completed")
    BY ItemTypes DEF Items
  <2>2. \A r \in Sweeps : \A k \in work'[r] : k \in work[r] \/ k = asked
    BY <1>2 DEF AskTarget, Replace, TypeOK
  <2>3. UNCHANGED <<status, kind, target, pc, writes>>
    BY <1>2 DEF AskTarget
  <2> HIDE DEF asked
  <2>4. \A r \in Sweeps : \A k \in work'[r] : k.to = "completed" => target'[k.job] = "completed"
    BY <2>1, <2>2, <2>3 DEF CompletedIsDone
  <2> QED BY <2>3, <2>4 DEF CompletedIsDone, Done
<1>3. ASSUME NEW i \in work[s], TouchRunning(s, i) PROVE CompletedIsDone'
  <2>1. \A r \in Sweeps : work'[r] \subseteq work[r]
    BY <1>3 DEF TouchRunning, Replace, TypeOK
  <2>2. \A j \in Jobs : status'[j] = "completed" => status[j] = "completed"
    BY <1>3, ItemTypes DEF TouchRunning, UpdateStatus, TypeOK
  <2> QED BY <1>3, <2>1, <2>2, DoneFrame DEF TouchRunning, Done
<1>4. ASSUME NEW i \in work[s], Claim(s, i) \/ SkipItem(s, i) PROVE CompletedIsDone'
  <2>1. UNCHANGED <<kind, target, pc, writes>>
    BY <1>4 DEF Claim, SkipItem
  <2>2. \A r \in Sweeps : work'[r] \subseteq work[r]
    BY <1>4 DEF Claim, SkipItem, Replace, TypeOK
  <2>3. ASSUME NEW j \in Jobs, status'[j] = "completed" PROVE Done(j)
    <3>1. CASE status[j] = "completed"
      BY <3>1 DEF CompletedIsDone
    <3>2. CASE status[j] # "completed"
      <4>1. i.job = j /\ i.to = "completed"
        BY <1>4, <2>3, <3>2, ItemTypes DEF Claim, SkipItem, UpdateStatus, TypeOK
      <4> QED BY <4>1 DEF CompletedIsDone, Done, TargetInv, TurnsDispatchNone
    <3> QED BY <3>1, <3>2
  <2> QED BY <2>1, <2>2, <2>3 DEF CompletedIsDone, Done
<1> QED BY <1>1, <1>2, <1>3, <1>4 DEF Sweep

-----------------------------------------------------------------------------
(* The inductive invariant holds in every behaviour.                       *)
THEOREM Invariance == Spec => []IInv
<1>1. IInv /\ [Next]_vars => IInv'
  <2> SUFFICES ASSUME IInv, [Next]_vars PROVE IInv'
    OBVIOUS
  <2> USE DEF IInv
  <2>1. TypeOK' /\ TargetInv' /\ ListedIsStale'
    BY TypesKept, TargetsKept, StaleKept DEF TargetInv
  <2>2. CompletedIsDone'
    <3>1. CASE UNCHANGED vars
      BY <3>1 DEF vars, rowVars, CompletedIsDone, Done
    <3> QED
      BY <3>1, MessageDone, TargetDone, WriteDone, CancelDone, SweepDone DEF Next
  <2> QED BY <2>1, <2>2
<1> QED BY InitInvariant, <1>1, PTL DEF Spec

(* Every variable of a job has its type.                                   *)
THEOREM TypesHold == Spec => []TypeOK
<1>1. IInv => TypeOK
  BY DEF IInv
<1> QED BY Invariance, <1>1, PTL

(* A job that says completed is done: its turn is over, or its target did  *)
(* complete.                                                               *)
THEOREM CompletedMeansDone == Spec => []NoFalseSuccess
<1>1. IInv => NoFalseSuccess
  BY DEF IInv, CompletedIsDone, NoFalseSuccess, Done
<1> QED BY Invariance, <1>1, PTL

(* A step that changes a round's list and a status is a touch, or a claim  *)
(* of a row that is still in the listed status and old enough for it.      *)
LEMMA SweepStep ==
  ASSUME IInv, [Next]_vars, work' # work, NEW j \in Jobs, status'[j] # status[j]
  PROVE  \/ status'[j] = "async_queued" /\ kind[j] # "turn"
         \/ status[j] \in Active /\ age[j] >= StaleAge(status[j])
<1> USE DEF IInv, rowVars
<1>1. ASSUME NEW s \in Sweeps, NEW i \in work[s], TouchRunning(s, i)
      PROVE  status'[j] = "async_queued" /\ kind[j] # "turn"
  <2>1. i.job = j /\ status'[j] = "async_queued"
    BY <1>1, ItemTypes DEF TouchRunning, UpdateStatus, TypeOK
  <2>2. target[j] # "none"
    BY <1>1, <2>1 DEF TouchRunning, TargetInv, TargetKnown
  <2> QED BY <2>1, <2>2 DEF TargetInv, TurnsDispatchNone
<1>2. ASSUME NEW s \in Sweeps, NEW i \in work[s], Claim(s, i)
      PROVE  status[j] \in Active /\ age[j] >= StaleAge(status[j])
  <2>1. Holds(s, i) /\ i.job = j
    BY <1>2, ItemTypes DEF Claim, UpdateStatus, TypeOK
  <2> QED BY <2>1, ItemTypes DEF Holds, ListedIsStale
<1>3. ASSUME NEW k \in Jobs,
             \/ Create(k) \/ StartTurn(k) \/ EndTurn(k)
             \/ Dispatch(k) \/ DispatchFails(k) \/ MarkAsyncQueued(k)
             \/ SetTarget(k) \/ SetTargetFails(k) \/ StartWatch(k) \/ AckFails(k)
             \/ TargetEnds(k) \/ Subscribe(k)
             \/ WatchCompletes(k) \/ WatchFails(k) \/ WatchTimesOut(k)
             \/ ProcessDies(k) \/ TimePasses(k)
      PROVE  FALSE
  BY <1>3 DEF Create, StartTurn, EndTurn, Dispatch, DispatchFails, MarkAsyncQueued, SetTarget,
     SetTargetFails, StartWatch, AckFails, TargetEnds, Subscribe, WatchCompletes, WatchFails,
     WatchTimesOut, WatchEnds, ProcessDies, TimePasses
<1>4. ASSUME NEW w \in writes, Land(w) \/ Drop(w) PROVE FALSE
  BY <1>4 DEF Land, Drop
<1>5. ASSUME NEW c \in Cancellers, AskCancel(c) \/ \E k \in todo[c] : CancelNext(c, k)
      PROVE  FALSE
  BY <1>5 DEF AskCancel, CancelNext
<1>6. ASSUME NEW s \in Sweeps,
             List(s) \/ \E i \in work[s] : AskTarget(s, i) \/ SkipItem(s, i)
      PROVE  FALSE
  BY <1>6 DEF List, AskTarget, SkipItem
<1>7. ~UNCHANGED vars
  BY DEF vars
<1> QED BY <1>1, <1>2, <1>3, <1>4, <1>5, <1>6, <1>7 DEF Next, Sweep

(* A round ends a job only while its row is old enough.                    *)
THEOREM StaleRowsOnly == Spec => OnlyStaleRowsAreTaken
<1>1. IInv /\ [Next]_vars =>
        [\A j \in Jobs : work' # work /\ status'[j] # status[j] =>
           \/ status'[j] = "async_queued"
           \/ status[j] \in Active /\ age[j] >= StaleAge(status[j])]_vars
  BY SweepStep
<1> QED BY <1>1, Invariance, PTL DEF Spec, OnlyStaleRowsAreTaken

(* A round's claim never replaces the end of a job.                        *)
THEOREM SweepsNeverReopen == Spec => SweepsKeepTheEnd
<1>1. Active \cap Terminal = {}
  BY DEF Active, Terminal
<1>2. IInv /\ [Next]_vars =>
        [\A j \in Jobs : work' # work /\ status[j] \in Terminal =>
           status'[j] \in {status[j], "async_queued"}]_vars
  BY <1>1, SweepStep
<1> QED BY <1>2, Invariance, PTL DEF Spec, SweepsKeepTheEnd

(* What is true of "a restarting replica therefore cannot fail a peer's    *)
(* in-flight job" (channel_turn_job_sweeper.go:112-114), for a turn of any *)
(* length: until its row is older than the lease, no round of any replica  *)
(* changes it, and when it has ended none ever does, whatever else writes  *)
(* and fails.                                                              *)
THEOREM YoungTurnsKeepTheirJob ==
  Spec => [][\A j \in Jobs :
               /\ kind[j] = "turn" /\ work' # work
               /\ \/ status[j] \in Terminal
                  \/ status[j] \in {"accepted", "running", "queued"} /\ age[j] < 2
               => status'[j] = status[j]]_vars
<1> DEFINE Kept(j) == /\ kind[j] = "turn" /\ work' # work
                      /\ \/ status[j] \in Terminal
                         \/ status[j] \in {"accepted", "running", "queued"} /\ age[j] < 2
                      => status'[j] = status[j]
<1>1. ASSUME IInv, [Next]_vars, NEW j \in Jobs PROVE Kept(j)
  <2>1. age[j] \in Nat
    BY <1>1 DEF IInv, TypeOK, Ages
  <2>2. status[j] \in Terminal => status[j] \notin Active
    BY DEF Terminal, Active
  <2>3. status[j] \in {"accepted", "running", "queued"} => StaleAge(status[j]) = 2
    BY DEF StaleAge
  <2>4. SUFFICES ASSUME kind[j] = "turn", work' # work, status'[j] # status[j],
                        \/ status[j] \in Terminal
                        \/ status[j] \in {"accepted", "running", "queued"} /\ age[j] < 2
                 PROVE  FALSE
    OBVIOUS
  <2>5. status[j] \in Active /\ age[j] >= StaleAge(status[j])
    BY <1>1, <2>4, SweepStep
  <2> QED BY <2>1, <2>2, <2>3, <2>4, <2>5
<1>2. IInv /\ [Next]_vars => [\A j \in Jobs : Kept(j)]_vars
  BY <1>1
<1> QED BY <1>2, Invariance, PTL DEF Spec
=============================================================================
