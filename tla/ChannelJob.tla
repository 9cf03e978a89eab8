----------------------------- MODULE ChannelJob -----------------------------
(***************************************************************************)
(* The durable job of an inbound channel message                           *)
(* (internal/biz/channel_turn_job*.go, internal/data/channel_turn_job.go,  *)
(* internal/service/channel_ingress_*.go,                                  *)
(* internal/cronrunner/jobs/channel_turn_job_sweeper.go).                  *)
(*                                                                         *)
(* A row says how far a message got.  Those that change it: the goroutine  *)
(* that handles the message (a turn, or the dispatch of a graph or a cron  *)
(* task), the watcher of the dispatched target, users who cancel, and the  *)
(* rounds of the sweeper, any number of them in any replica.  All but the  *)
(* sweeper's claims read the row, validate an event against the state      *)
(* machine and write the resulting status in a second statement that only  *)
(* names the id.  A claim compares the status and updated_at as well.      *)
(*                                                                         *)
(* The age of a row is the time since updated_at, as coarse as the sweeper *)
(* sees it: 0 fresh, 1 over turnJobAsyncRecoveryMinAge (2 min), 2 over the *)
(* lease and the queue timeout (30 min), 3 over turnJobAsyncMaxAge (24 h). *)
(***************************************************************************)
EXTENDS Naturals

CONSTANTS Jobs,
          Kinds,          (* what messages ask for: of turn, graph and cron *)
          Sweeps,         (* rounds of the sweeper under way at a time      *)
          Cancellers,     (* cancel requests under way at a time            *)
          MaxFaults       (* bound of the runs: crashes and failed calls    *)

ASSUME JobAssumption ==
  /\ Kinds \subseteq {"turn", "graph", "cron"}
  /\ Cancellers \cap {"turn", "watch"} = {}
  /\ MaxFaults \in Nat

Active   == {"accepted", "running", "queued", "async_queued"}
Terminal == {"completed", "failed", "timeout", "cancelled"}
Statuses == Active \cup Terminal

(* channelTurnJobTransitionRules: from, event, to.                         *)
Rules == {
  <<"accepted", "start", "running">>, <<"accepted", "queue", "queued">>,
  <<"accepted", "cancel", "cancelled">>, <<"accepted", "async_queue", "async_queued">>,
  <<"running", "complete", "completed">>, <<"running", "fail", "failed">>,
  <<"running", "timeout", "timeout">>, <<"running", "cancel", "cancelled">>,
  <<"running", "async_queue", "async_queued">>, <<"running", "queue", "queued">>,
  <<"queued", "dequeue", "running">>, <<"queued", "cancel", "cancelled">>,
  <<"queued", "timeout", "timeout">>,
  <<"async_queued", "async_start", "running">>, <<"async_queued", "async_fail", "failed">>,
  <<"async_queued", "async_cancel", "cancelled">>, <<"async_queued", "timeout", "timeout">>,
  <<"async_queued", "complete", "completed">>, <<"async_queued", "fail", "failed">>,
  <<"async_queued", "cancel", "cancelled">> }

(* TransitionChannelTurnJob: the one legal outcome, or none.               *)
After(from, event) == {to \in Terminal \cup Active : <<from, event, to>> \in Rules}

(* How old a row must be before a round lists it.                          *)
StaleAge(st) == IF st = "async_queued" THEN 1 ELSE 2

Ages == 0 .. 3

VARIABLES status,    (* channel_turn_job.status; "none": no such row        *)
          age,       (* time since channel_turn_job.updated_at              *)
          kind,      (* what the message of the job asked for               *)
          hasTarget, (* async_target_id is set                              *)
          target,    (* the graph execution or cron run itself              *)
          pc,        (* the goroutine that handles the message              *)
          wpc,       (* the watcher of the target                           *)
          writes,    (* validated statuses that are still to be written     *)
          todo,      (* the jobs a cancel request has still to cancel       *)
          work,      (* what a round has listed and not yet done            *)
          unwritten, (* of those, the rows nobody wrote since: the claim's  *)
                     (* comparison with updated_at                          *)
          faults

rowVars == <<status, age, unwritten>>
vars == <<rowVars, kind, hasTarget, target, pc, wpc, writes, todo, work, faults>>

Callers == {"turn", "watch"} \cup Cancellers
Writes  == [by : Callers, job : Jobs, to : Statuses]
Items   == [job : Jobs, from : Active, to : Terminal \cup {"ask", "touch"}]

TypeOK ==
  /\ status \in [Jobs -> Statuses \cup {"none"}]
  /\ age \in [Jobs -> Ages]
  /\ kind \in [Jobs -> Kinds \cup {"none"}]
  /\ hasTarget \in [Jobs -> BOOLEAN]
  /\ target \in [Jobs -> {"none", "running", "completed", "failed", "cancelled"}]
  /\ pc \in [Jobs -> {"none", "created", "executing", "dispatched", "queued", "targeted", "over"}]
  /\ wpc \in [Jobs -> {"none", "starting", "watching", "deaf", "over"}]
  /\ writes \subseteq Writes
  /\ todo \in [Cancellers -> SUBSET Jobs]
  /\ work \in [Sweeps -> SUBSET Items]
  /\ unwritten \in [Sweeps -> SUBSET Jobs]
  /\ faults \in 0 .. MaxFaults

Init ==
  /\ status = [j \in Jobs |-> "none"]
  /\ age = [j \in Jobs |-> 0]
  /\ kind = [j \in Jobs |-> "none"]
  /\ hasTarget = [j \in Jobs |-> FALSE]
  /\ target = [j \in Jobs |-> "none"]
  /\ pc = [j \in Jobs |-> "none"]
  /\ wpc = [j \in Jobs |-> "none"]
  /\ writes = {}
  /\ todo = [c \in Cancellers |-> {}]
  /\ work = [s \in Sweeps |-> {}]
  /\ unwritten = [s \in Sweeps |-> {}]
  /\ faults = 0

Fault == faults < MaxFaults /\ faults' = faults + 1

(* An UPDATE of the row of j: updated_at becomes now.                      *)
Touch(j) ==
  /\ age' = [age EXCEPT ![j] = 0]
  /\ unwritten' = [s \in Sweeps |-> unwritten[s] \ {j}]

UpdateStatus(j, to) == status' = [status EXCEPT ![j] = to] /\ Touch(j)

(* TransitionByEvent up to its UpdateStatus: an illegal event is dropped   *)
(* with a warning and the caller goes on.                                  *)
Validate(by, j, event) ==
  writes' = writes \cup {[by |-> by, job |-> j, to |-> to] : to \in After(status[j], event)}

(* by has no UpdateStatus under way on j.                                  *)
Idle(by, j) == \A w \in writes : ~(w.by = by /\ w.job = j)

(* The UpdateStatus of a validated event: WHERE id = ?.                    *)
Land(w) ==
  /\ w \in writes
  /\ UpdateStatus(w.job, w.to)
  /\ writes' = writes \ {w}
  /\ UNCHANGED <<kind, hasTarget, target, pc, wpc, todo, work, faults>>

(* The caller of a validated event gives up: its context ends or the       *)
(* statement fails.                                                        *)
Drop(w) ==
  /\ w \in writes /\ Fault
  /\ writes' = writes \ {w}
  /\ UNCHANGED <<rowVars, kind, hasTarget, target, pc, wpc, todo, work>>

-----------------------------------------------------------------------------
(* The goroutine of the message.                                           *)

Goto(j, here, there) == pc[j] = here /\ pc' = [pc EXCEPT ![j] = there]

(* Every message is claimed by its unique receipt before its job is made   *)
(* (channel_ingress_guard.go:32-63), so the upsert of Create is an insert. *)
Create(j) ==
  /\ Goto(j, "none", "created")
  /\ \E k \in Kinds : kind' = [kind EXCEPT ![j] = k]
  /\ UpdateStatus(j, "accepted")
  /\ UNCHANGED <<hasTarget, target, wpc, writes, todo, work, faults>>

(* The turn runs whether or not the start could be recorded.               *)
StartTurn(j) ==
  /\ kind[j] = "turn"
  /\ Goto(j, "created", "executing")
  /\ Validate("turn", j, "start")
  /\ UNCHANGED <<rowVars, kind, hasTarget, target, wpc, todo, work, faults>>

(* The deferred mark: complete, or queue when the message became a         *)
(* follow-up, or fail or timeout from the turn's error.                    *)
EndTurn(j) ==
  /\ Goto(j, "executing", "over") /\ Idle("turn", j)
  /\ \E event \in {"complete", "queue", "fail", "timeout"} : Validate("turn", j, event)
  /\ UNCHANGED <<rowVars, kind, hasTarget, target, wpc, todo, work, faults>>

(* The graph or the cron task is started.                                  *)
Dispatch(j) ==
  /\ kind[j] # "turn"
  /\ Goto(j, "created", "dispatched")
  /\ target' = [target EXCEPT ![j] = "running"]
  /\ UNCHANGED <<rowVars, kind, hasTarget, wpc, writes, todo, work, faults>>

(* No session, no target or no start: a fail mark, which "accepted" does   *)
(* not allow, so the row waits for its lease.                              *)
DispatchFails(j) ==
  /\ kind[j] # "turn"
  /\ Goto(j, "created", "over")
  /\ Validate("turn", j, "fail")
  /\ UNCHANGED <<rowVars, kind, hasTarget, target, wpc, todo, work, faults>>

MarkAsyncQueued(j) ==
  /\ Goto(j, "dispatched", "queued")
  /\ Validate("turn", j, "async_queue")
  /\ UNCHANGED <<rowVars, kind, hasTarget, target, wpc, todo, work, faults>>

(* UpdateAsyncTarget writes the id alone, and updated_at.                  *)
SetTarget(j) ==
  /\ Goto(j, "queued", "targeted") /\ Idle("turn", j)
  /\ hasTarget' = [hasTarget EXCEPT ![j] = TRUE]
  /\ Touch(j)
  /\ UNCHANGED <<status, kind, target, wpc, writes, todo, work, faults>>

SetTargetFails(j) ==
  /\ Goto(j, "queued", "targeted") /\ Idle("turn", j) /\ Fault
  /\ UNCHANGED <<rowVars, kind, hasTarget, target, wpc, writes, todo, work>>

(* The acknowledgement is queued and the watcher's goroutine started; when *)
(* the first fails, the second does not happen.                            *)
StartWatch(j) ==
  /\ Goto(j, "targeted", "over")
  /\ wpc' = [wpc EXCEPT ![j] = "starting"]
  /\ UNCHANGED <<rowVars, kind, hasTarget, target, writes, todo, work, faults>>

AckFails(j) ==
  /\ Goto(j, "targeted", "over") /\ Fault
  /\ UNCHANGED <<rowVars, kind, hasTarget, target, wpc, writes, todo, work>>

-----------------------------------------------------------------------------
(* The target and its watcher.                                             *)

(* A cron run does not end cancelled; a skipped one counts as completed.   *)
TargetEnds(j) ==
  /\ target[j] = "running"
  /\ \E end \in {"completed", "failed", "cancelled"} :
       /\ kind[j] = "cron" => end # "cancelled"
       /\ target' = [target EXCEPT ![j] = end]
  /\ UNCHANGED <<rowVars, kind, hasTarget, pc, wpc, writes, todo, work, faults>>

GotoWatch(j, here, there) == wpc[j] \in here /\ wpc' = [wpc EXCEPT ![j] = there]

(* The subscription is made by the watcher's own goroutine: what a graph   *)
(* published before is not seen.  A cron run is polled.                    *)
Subscribe(j) ==
  /\ GotoWatch(j, {"starting"},
       IF kind[j] = "graph" /\ target[j] # "running" THEN "deaf" ELSE "watching")
  /\ UNCHANGED <<rowVars, kind, hasTarget, target, pc, writes, todo, work, faults>>

WatchEnds(j, here, event) ==
  /\ GotoWatch(j, here, "over")
  /\ Validate("watch", j, event)
  /\ UNCHANGED <<rowVars, kind, hasTarget, target, pc, todo, work, faults>>

(* Mutated form: execution_done is taken for a success.                    *)
WatchCompletesAnyEnd(j) ==
  target[j] \in {"completed", "failed"} /\ WatchEnds(j, {"watching"}, "complete")

WatchCompletes(j) == target[j] = "completed" /\ WatchEnds(j, {"watching"}, "complete")

(* The target failed; for a graph it is enough that one of its nodes did,  *)
(* or that the bus closed the subscription.  A cancelled graph says        *)
(* nothing the watcher listens to.                                         *)
WatchFails(j) ==
  /\ target[j] = "failed" \/ kind[j] = "graph"
  /\ WatchEnds(j, {"watching"}, "fail")

(* ChannelAsyncJobWatchMax is over.                                        *)
WatchTimesOut(j) == WatchEnds(j, {"watching", "deaf"}, "timeout")

(* The process that handles the message of j is gone, between any two      *)
(* steps of it.                                                            *)
ProcessDies(j) ==
  /\ pc[j] # "none" /\ Fault
  /\ pc' = [pc EXCEPT ![j] = "over"]
  /\ wpc' = [wpc EXCEPT ![j] = "over"]
  /\ writes' = {w \in writes : ~(w.job = j /\ w.by \in {"turn", "watch"})}
  /\ UNCHANGED <<rowVars, kind, hasTarget, target, todo, work>>

-----------------------------------------------------------------------------
(* Users.                                                                  *)

(* /cancel lists what is active in the session, a click in the console     *)
(* names one job.                                                          *)
AskCancel(c) ==
  /\ todo[c] = {} /\ \A w \in writes : w.by # c
  /\ \E jobs \in {{j \in Jobs : status[j] \in Active}} \cup
                 {{j} : j \in {j \in Jobs : status[j] # "none"}} :
       todo' = [todo EXCEPT ![c] = jobs]
  /\ UNCHANGED <<rowVars, kind, hasTarget, target, pc, wpc, writes, work, faults>>

CancelNext(c, j) ==
  /\ j \in todo[c] /\ \A w \in writes : w.by # c
  /\ todo' = [todo EXCEPT ![c] = @ \ {j}]
  /\ Validate(c, j, "cancel")
  /\ UNCHANGED <<rowVars, kind, hasTarget, target, pc, wpc, work, faults>>

-----------------------------------------------------------------------------
(* Time, and the sweeper.  A turn has no deadline of its own, so its row   *)
(* ages like any other.                                                    *)

TimePasses(j) ==
  /\ status[j] \in Active /\ age[j] < 3
  /\ age' = [age EXCEPT ![j] = @ + 1]
  /\ UNCHANGED <<status, unwritten, kind, hasTarget, target, pc, wpc, writes, todo, work, faults>>

(* What a round decides from the row it listed.                            *)
Plan(j) ==
  CASE status[j] = "queued" -> "timeout"
    [] status[j] \in {"accepted", "running"} -> "failed"
    [] status[j] = "async_queued" ->
         IF age[j] = 3 \/ ~hasTarget[j] THEN "timeout" ELSE "ask"

(* Mutated form: the lease covers running rows only.                       *)
ListedNotAccepted(st) == {j \in Jobs : st # "accepted" /\ status[j] = st /\ age[j] >= StaleAge(st)}

Listed(st) == {j \in Jobs : status[j] = st /\ age[j] >= StaleAge(st)}

(* ListStaleByStatus.  Rounds overlap and every replica runs them, so one  *)
(* that is idle may be at any of the statuses.                             *)
List(s) ==
  /\ work[s] = {}
  /\ \E st \in Active :
       /\ Listed(st) # {}
       /\ work' = [work EXCEPT ![s] = {[job |-> j, from |-> st, to |-> Plan(j)] : j \in Listed(st)}]
       /\ unwritten' = [unwritten EXCEPT ![s] = Listed(st)]
  /\ UNCHANGED <<status, age, kind, hasTarget, target, pc, wpc, writes, todo, faults>>

Replace(s, i, new) == work' = [work EXCEPT ![s] = (@ \ {i}) \cup new]

(* Mutated form: a target that still runs is taken for an end.             *)
AskTargetRaw(s, i) ==
  /\ i \in work[s] /\ i.to = "ask"
  /\ Replace(s, i, {[i EXCEPT !.to = target[i.job]]})
  /\ UNCHANGED <<rowVars, kind, hasTarget, target, pc, wpc, writes, todo, faults>>

(* GetExecution, GetTaskRun, both of which are wired in production.        *)
AskTarget(s, i) ==
  /\ i \in work[s] /\ i.to = "ask"
  /\ Replace(s, i, {[i EXCEPT !.to = IF target[i.job] = "running" THEN "touch" ELSE target[i.job]]})
  /\ UNCHANGED <<rowVars, kind, hasTarget, target, pc, wpc, writes, todo, faults>>

(* touchAsyncJob: UpdateStatus by id, whatever the row says now.           *)
TouchRunning(s, i) ==
  /\ i \in work[s] /\ i.to = "touch"
  /\ Replace(s, i, {})
  /\ UpdateStatus(i.job, "async_queued")
  /\ UNCHANGED <<kind, hasTarget, target, pc, wpc, writes, todo, faults>>

(* Mutated form: an UpdateStatus by id in the claim's place.               *)
HoldsAlways(s, i) == TRUE

(* Mutated form: without the comparison with updated_at.                   *)
HoldsAnyAge(s, i) == status[i.job] = i.from

(* TransitionIfStale: WHERE id = ? AND status = ? AND updated_at <= ?.     *)
Holds(s, i) == status[i.job] = i.from /\ i.job \in unwritten[s]

Claim(s, i) ==
  /\ i \in work[s] /\ i.to \in Terminal
  /\ Replace(s, i, {})
  /\ IF Holds(s, i) THEN UpdateStatus(i.job, i.to)
     ELSE /\ unwritten' = [unwritten EXCEPT ![s] = @ \ {i.job}]
          /\ UNCHANGED <<status, age>>
  /\ UNCHANGED <<kind, hasTarget, target, pc, wpc, writes, todo, faults>>

(* A query or a claim fails, or the round's process is gone.               *)
SkipItem(s, i) ==
  /\ i \in work[s] /\ Fault
  /\ Replace(s, i, {})
  /\ unwritten' = [unwritten EXCEPT ![s] = @ \ {i.job}]
  /\ UNCHANGED <<status, age, kind, hasTarget, target, pc, wpc, writes, todo>>

Sweep(s) ==
  \/ List(s)
  \/ \E i \in work[s] : AskTarget(s, i) \/ TouchRunning(s, i) \/ Claim(s, i)

Next ==
  \/ \E j \in Jobs :
       \/ Create(j) \/ StartTurn(j) \/ EndTurn(j)
       \/ Dispatch(j) \/ DispatchFails(j) \/ MarkAsyncQueued(j)
       \/ SetTarget(j) \/ SetTargetFails(j) \/ StartWatch(j) \/ AckFails(j)
       \/ TargetEnds(j) \/ Subscribe(j)
       \/ WatchCompletes(j) \/ WatchFails(j) \/ WatchTimesOut(j)
       \/ ProcessDies(j) \/ TimePasses(j)
  \/ \E w \in writes : Land(w) \/ Drop(w)
  \/ \E c \in Cancellers : AskCancel(c) \/ \E j \in todo[c] : CancelNext(c, j)
  \/ \E s \in Sweeps : Sweep(s) \/ \E i \in work[s] : SkipItem(s, i)

Spec == Init /\ [][Next]_vars

(* A statement that was sent is executed, time passes and the sweeper's    *)
(* rounds go on.  Nothing is asked of the goroutines that handle messages, *)
(* of targets, of watchers or of users.                                    *)
Fairness ==
  /\ \A j \in Jobs : WF_vars(TimePasses(j))
  /\ WF_vars(\E w \in writes : Land(w))
  /\ \A s \in Sweeps : WF_vars(Sweep(s))

FairSpec == Spec /\ Fairness

-----------------------------------------------------------------------------
(* Properties.                                                             *)

(* A job says completed only when the turn has come to its end or the      *)
(* graph or cron run did complete, whichever of the turn, the watcher and  *)
(* the rounds wrote it (channel_ingress_execute.go:60-95,                  *)
(* channel_ingress_async.go:174-190, channel_turn_job_sweeper.go:262-276). *)
NoFalseSuccess ==
  \A j \in Jobs : status[j] = "completed" =>
    IF kind[j] = "turn" THEN pc[j] = "over" ELSE target[j] = "completed"

(* A round's claim never replaces the end of a job, however long ago it    *)
(* listed the row and whatever users, watchers and other rounds wrote      *)
(* since: only touchAsyncJob can (channel_turn_job.go:384-386,             *)
(* channel_turn_job_sweeper.go:318-324,358-360).                           *)
SweepsKeepTheEnd ==
  [][\A j \in Jobs : work' # work /\ status[j] \in Terminal =>
       status'[j] \in {status[j], "async_queued"}]_vars

(* A round ends a job only while its row is older than the limit of the    *)
(* status it is in: a row written after the round listed it, in the same   *)
(* status even, keeps a whole limit more                                   *)
(* (channel_turn_job_sweeper.go:112-115, channel_turn_job.go:384-386).     *)
OnlyStaleRowsAreTaken ==
  [][\A j \in Jobs : work' # work /\ status'[j] # status[j] =>
       \/ status'[j] = "async_queued"
       \/ status[j] \in Active /\ age[j] >= StaleAge(status[j])]_vars

(* Every graph execution and cron run comes to be seen as over.  The code  *)
(* does not make it: one whose process died may say running for ever, and  *)
(* each round then refreshes the row (channel_turn_job_sweeper.go:356-360), *)
(* which so never reaches turnJobAsyncMaxAge.                              *)
TargetsEnd == \A j \in Jobs : []<>(target[j] # "running")

(* Provided that targets end, and whatever else crashes and fails a        *)
(* bounded number of times and however the writers of a row race, a job    *)
(* comes to an end and stays there                                         *)
(* (channel_turn_job_sweeper.go:112-115,152-154,200-219).                  *)
EveryJobSettles ==
  TargetsEnd => \A j \in Jobs : <>[](status[j] \in Terminal \cup {"none"})

(* What the sweeper's comment says: "Live peers finish within              *)
(* DefaultTurnTimeout; a restarting replica therefore cannot fail a peer's *)
(* in-flight job" (channel_turn_job_sweeper.go:112-114).  Turns have no    *)
(* timeout, and nothing writes the row while one runs.                     *)
LiveTurnsKeepTheirJob ==
  [][\A j \in Jobs :
       kind[j] = "turn" /\ pc[j] = "executing" /\ status[j] = "running" /\ work' # work
         => status'[j] = "running"]_vars
=============================================================================
