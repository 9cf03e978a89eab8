---------------------------- MODULE PendingQueue ----------------------------
(***************************************************************************)
(* How the follow-up queues survive a restart                              *)
(* (internal/runtime/pending_queue.go, internal/data/pending_queue_store.go,*)
(* cmd/admin/pending_queue_adapter.go).                                    *)
(*                                                                         *)
(* Memory is authoritative.  A change of a queue arms a timer, unless one  *)
(* is armed; the timer's goroutine writes everything to the store and to a *)
(* file; a ticker writes the file as well.  The queue's mutex covers each  *)
(* queue operation and each snapshot, flushMu one flush, persistMu the     *)
(* timer; nothing covers two of them together.  A process starts from what *)
(* the store holds, or from the file when the store is empty or cannot be  *)
(* read.                                                                   *)
(*                                                                         *)
(* A message is its id; the text of an entry is the set of messages merged *)
(* into it.  Time is a clock of a few ticks, the seconds that created_at   *)
(* can tell apart.                                                         *)
(***************************************************************************)
EXTENDS Integers, FiniteSets, SequencesExt

CONSTANTS Sessions,
          Messages,       (* each is sent once                             *)
          SessionOf,      (* to this session                               *)
          Stored,         (* sent to an earlier process, and stored        *)
          Flushers,       (* goroutines of the timer                       *)
          Closer,         (* the goroutine that calls Close                *)
          Ticker,         (* snapshotLoop                                  *)
          Edited,         (* a text that replaced another                  *)
          None, Unreadable,
          MaxPending,     (* MaxPendingPerSession                          *)
          Lifetime,       (* how long an entry is worth reloading          *)
          MaxClock,       (* bounds of the runs: ticks,                    *)
          MaxOps,         (* changes of a queue,                           *)
          MaxFaults       (* stops, crashes and failed writes and loads    *)

Writers == Flushers \cup {Closer}

ASSUME QueueAssumption ==
  /\ SessionOf \in [Messages -> Sessions] /\ Stored \subseteq Messages
  /\ Closer \notin Flushers \cup {Ticker} /\ Ticker \notin Flushers
  /\ None \notin Writers
  /\ MaxPending \in Nat \ {0}
  /\ {Lifetime, MaxClock, MaxOps, MaxFaults} \subseteq Nat
  (* The earlier process kept the limit too.                               *)
  /\ \A s \in Sessions : LET kept == {m \in Stored : SessionOf[m] = s}
                         IN  IsFiniteSet(kept) /\ Cardinality(kept) <= MaxPending

Entry == [id : Messages, text : SUBSET (Messages \cup {Edited}),
          kind : {"followup", "inject"}, born : Nat]

Queues == [Sessions -> Seq(Entry)]

VARIABLES queues,    (* PendingMessageQueue.queues                         *)
          restored,  (* PendingMessageQueue.restored                       *)
          arming,    (* operations between their unlock and schedulePersist*)
          timerSet,  (* persistTimer is not nil                            *)
          ticking,   (* timers that have still to fire                     *)
          flushMu,   (* who holds flushMu, None if nobody                  *)
          wpc,       (* where each writer is                               *)
          snap,      (* the snapshot each writer has taken                 *)
          rows,      (* the table pending_queue_entries                    *)
          file,      (* pending_queue.json                                 *)
          phase,     (* the process: up, closing, closed, stopped, crashed *)
          clock,
          ops, faults,
          seen,      (* history: the last snapshot taken for the store     *)
          synced,    (* history: the store has confirmed that snapshot     *)
          late,      (* history: a queue changed during the shutdown       *)
          unsent,    (* messages nobody has sent yet                       *)
          taken,     (* history: ids taken out of a queue                  *)
          missed,    (* history: ids in the store that this process did    *)
                     (* not load                                           *)
          loaded     (* history: ids this process has loaded               *)

memVars  == <<queues, restored>>
flushVars == <<arming, timerSet, ticking, flushMu, wpc, snap>>
diskVars == <<rows, file>>
histVars == <<seen, synced, late, unsent, taken, missed, loaded>>
vars == <<memVars, flushVars, diskVars, phase, clock, ops, faults, histVars>>

Running == phase \in {"up", "closing"}

Ids(entries) == {e.id : e \in entries}

Entries(q) == UNION {ToSet(q[s]) : s \in Sessions}

Empty == [s \in Sessions |-> <<>>]

(* One thing more goes wrong, or stops: the bound on all of them.          *)
Fault == faults < MaxFaults /\ faults' = faults + 1

NewEntry(m, kind) == [id |-> m, text |-> {m}, kind |-> kind, born |-> clock]

(* Nothing runs; the store has the rows of an earlier process.             *)
Init ==
  /\ queues = Empty /\ restored = {}
  /\ arming = 0 /\ timerSet = FALSE /\ ticking = 0
  /\ flushMu = None
  /\ wpc = [w \in Writers \cup {Ticker} |-> "idle"]
  /\ snap = [w \in Writers \cup {Ticker} |-> Empty]
  /\ clock = 0
  /\ rows = {NewEntry(m, "followup") : m \in Stored} /\ file = Empty
  /\ phase = "stopped" /\ ops = 0 /\ faults = 0
  /\ seen = Empty /\ synced = FALSE /\ late = FALSE
  /\ unsent = Messages \ Stored /\ taken = {} /\ missed = {} /\ loaded = {}

-----------------------------------------------------------------------------
(* The operations on a queue.  Each ends in schedulePersist, after the     *)
(* mutex is released.                                                      *)

(* Change with the mark left behind.                                       *)
ChangeKeepMark(s, q) ==
  /\ Running /\ ops < MaxOps
  /\ queues' = [queues EXCEPT ![s] = q]
  /\ arming' = arming + 1
  /\ ops' = ops + 1
  /\ late' = (late \/ phase = "closing")
  /\ UNCHANGED <<restored, timerSet, ticking, flushMu, wpc, snap, diskVars, phase, clock,
                 faults, seen, synced, missed, loaded>>

(* The queue of s becomes q; an emptied queue loses its restored mark.     *)
Change(s, q) ==
  /\ Running /\ ops < MaxOps
  /\ queues' = [queues EXCEPT ![s] = q]
  /\ restored' = IF q = <<>> THEN restored \ {s} ELSE restored
  /\ arming' = arming + 1
  /\ ops' = ops + 1
  /\ late' = (late \/ phase = "closing")
  /\ UNCHANGED <<timerSet, ticking, flushMu, wpc, snap, diskVars, phase, clock,
                 faults, seen, synced, missed, loaded>>

(* A change that takes entries out.                                        *)
Shrink(s, q) ==
  /\ q # queues[s]
  /\ Change(s, q)
  /\ taken' = taken \cup (Ids(ToSet(queues[s])) \ Ids(ToSet(q)))
  /\ UNCHANGED unsent

(* One that changes or moves them.                                         *)
Rearrange(s, q) == Change(s, q) /\ UNCHANGED <<unsent, taken>>

(* Mutated form: no limit.                                                 *)
AppendUncapped(m, kind) ==
  LET s == SessionOf[m]
  IN  /\ m \in unsent
      /\ Change(s, Append(queues[s], NewEntry(m, kind)))
      /\ unsent' = unsent \ {m} /\ UNCHANGED taken

AppendNew(m, kind) ==
  LET s == SessionOf[m]
  IN  /\ m \in unsent
      /\ Len(queues[s]) < MaxPending
      /\ Change(s, Append(queues[s], NewEntry(m, kind)))
      /\ unsent' = unsent \ {m} /\ UNCHANGED taken

Enqueue(m) == AppendNew(m, "followup")

EnqueueInject(m) == AppendNew(m, "inject")

(* Merged into the last entry, which becomes a followup.                   *)
EnqueueFollowup(m) ==
  LET s == SessionOf[m]
      n == Len(queues[s])
  IN  /\ m \in unsent
      /\ n > 0
      /\ Change(s, [queues[s] EXCEPT ![n].text = @ \cup {m}, ![n].kind = "followup"])
      /\ unsent' = unsent \ {m} /\ UNCHANGED taken

IsInject(e) == e.kind = "inject"

(* Taken out only when nothing but injects is queued.                      *)
FlushLeadingInjects(s) ==
  /\ \A i \in DOMAIN queues[s] : IsInject(queues[s][i])
  /\ Shrink(s, <<>>)

DequeueLeadingInjects(s) ==
  LET n == SelectInSeq(queues[s], LAMBDA e : ~IsInject(e))
  IN  Shrink(s, IF n = 0 THEN <<>> ELSE SubSeq(queues[s], n, Len(queues[s])))

Dequeue(s) == queues[s] # <<>> /\ Shrink(s, Tail(queues[s]))

RemoveEntry(s) == \E i \in DOMAIN queues[s] : Shrink(s, RemoveAt(queues[s], i))

(* The session is deleted or archived.                                     *)
FlushSession(s) == Shrink(s, <<>>)

(* Update, and SetPriority, whose value nothing reads: an entry changes in  *)
(* place.                                                                  *)
Update(s) ==
  \E i \in DOMAIN queues[s] :
    Rearrange(s, [queues[s] EXCEPT ![i].text = {Edited}])

PromoteToFront(s) ==
  \E i \in DOMAIN queues[s] :
    i # 1 /\ Rearrange(s, <<queues[s][i]>> \o RemoveAt(queues[s], i))

(* schedulePersist: one timer at a time.                                   *)
SchedulePersist ==
  /\ Running /\ arming > 0
  /\ arming' = arming - 1
  /\ timerSet' = TRUE
  /\ ticking' = IF timerSet THEN ticking ELSE ticking + 1
  /\ UNCHANGED <<memVars, flushMu, wpc, snap, diskVars, phase, clock, ops, faults, histVars>>

-----------------------------------------------------------------------------
(* The batched flush.                                                      *)

Goto(w, l) == wpc' = [wpc EXCEPT ![w] = l]

(* The timer fires: flushPersist waits for flushMu.                        *)
Fire(w) ==
  /\ Running /\ ticking > 0 /\ wpc[w] = "idle"
  /\ ticking' = ticking - 1
  /\ Goto(w, "wait")
  /\ UNCHANGED <<memVars, arming, timerSet, flushMu, snap, diskVars, phase, clock,
                 ops, faults, histVars>>

(* flushPersist that leaves persistTimer set, or does not take flushMu.    *)
BeginFlushKeepTimer(w) ==
  /\ Running /\ wpc[w] = "wait" /\ flushMu = None
  /\ flushMu' = w
  /\ Goto(w, "store")
  /\ UNCHANGED <<memVars, arming, timerSet, ticking, snap, diskVars, phase, clock,
                 ops, faults, histVars>>

BeginFlushUnlocked(w) ==
  /\ Running /\ wpc[w] = "wait"
  /\ timerSet' = IF w = Closer THEN timerSet ELSE FALSE
  /\ Goto(w, "store")
  /\ UNCHANGED <<memVars, arming, ticking, flushMu, snap, diskVars, phase, clock,
                 ops, faults, histVars>>

(* The timer is forgotten before the snapshot is taken, so that a change   *)
(* after it arms another.                                                  *)
BeginFlush(w) ==
  /\ Running /\ wpc[w] = "wait" /\ flushMu = None
  /\ flushMu' = w
  /\ timerSet' = IF w = Closer THEN timerSet ELSE FALSE
  /\ Goto(w, "store")
  /\ UNCHANGED <<memVars, arming, ticking, snap, diskVars, phase, clock, ops, faults, histVars>>

(* persistStore copies the queues under their mutex and lets it go.        *)
TakeSnapshot(w) ==
  /\ Running /\ wpc[w] = "store"
  /\ snap' = [snap EXCEPT ![w] = queues]
  /\ seen' = queues /\ synced' = FALSE
  /\ Goto(w, "replace")
  /\ UNCHANGED <<memVars, arming, timerSet, ticking, flushMu, diskVars, phase, clock,
                 ops, faults, late, unsent, taken, missed, loaded>>

(* ReplaceAll without its DELETE.                                          *)
AddRows(w) ==
  /\ Running /\ wpc[w] = "replace"
  /\ Goto(w, "take")
  /\ rows' = rows \cup Entries(snap[w]) /\ synced' = TRUE
  /\ snap' = [snap EXCEPT ![w] = Empty]
  /\ UNCHANGED <<memVars, arming, timerSet, ticking, flushMu, file, phase, clock,
                 ops, faults, seen, late, unsent, taken, missed, loaded>>

(* ReplaceAll, one transaction.  Its failure is logged; one that timed out *)
(* may have been committed.                                                *)
ReplaceRows(w) ==
  /\ Running /\ wpc[w] = "replace"
  /\ Goto(w, "take")
  /\ \/ rows' = Entries(snap[w]) /\ synced' = TRUE /\ UNCHANGED faults
     \/ Fault /\ rows' \in {rows, Entries(snap[w])} /\ UNCHANGED synced
  /\ snap' = [snap EXCEPT ![w] = Empty]
  /\ UNCHANGED <<memVars, arming, timerSet, ticking, flushMu, file, phase, clock,
                 ops, seen, late, unsent, taken, missed, loaded>>

(* saveSnapshot copies the queues again.                                   *)
TakeFileSnapshot(w) ==
  /\ Running
  /\ wpc[w] = IF w = Ticker THEN "idle" ELSE "take"
  /\ snap' = [snap EXCEPT ![w] = queues]
  /\ Goto(w, "save")
  /\ UNCHANGED <<memVars, arming, timerSet, ticking, flushMu, diskVars, phase, clock,
                 ops, faults, histVars>>

(* It writes pending_queue.json.tmp and renames it.  The ticker does so    *)
(* without flushMu: two writers in the same temporary file can leave       *)
(* something no one can read.                                              *)
SavedFile(w, f) ==
  \/ f = snap[w]
  \/ f = Unreadable /\ \E x \in DOMAIN wpc \ {w} : wpc[x] = "save"

SaveFile(w) ==
  /\ Running /\ wpc[w] = "save"
  /\ \/ file' \in {snap[w], Unreadable} /\ SavedFile(w, file') /\ UNCHANGED faults
     \/ Fault /\ UNCHANGED file
  /\ flushMu' = IF flushMu = w THEN None ELSE flushMu
  /\ snap' = [snap EXCEPT ![w] = Empty]
  /\ Goto(w, IF w = Closer THEN "closed" ELSE "idle")
  /\ UNCHANGED <<memVars, arming, timerSet, ticking, rows, phase, clock, ops, histVars>>

Write(w) == BeginFlush(w) \/ TakeSnapshot(w) \/ ReplaceRows(w) \/ TakeFileSnapshot(w) \/ SaveFile(w)

-----------------------------------------------------------------------------
(* The process.                                                            *)

(* The goroutines are gone with it.                                        *)
End(p) ==
  /\ phase' = p
  /\ arming' = 0 /\ timerSet' = FALSE /\ ticking' = 0 /\ flushMu' = None
  /\ wpc' = [w \in DOMAIN wpc |-> "idle"]
  /\ snap' = [w \in DOMAIN snap |-> Empty]
  /\ UNCHANGED <<memVars, diskVars, clock, ops, histVars>>

(* Close stops the armed timer and then makes one last flush.              *)
Close ==
  /\ phase = "up" /\ Fault
  /\ phase' = "closing"
  /\ timerSet' = FALSE
  /\ ticking' = IF timerSet /\ ticking > 0 THEN ticking - 1 ELSE ticking
  /\ Goto(Closer, "wait")
  /\ UNCHANGED <<memVars, arming, flushMu, snap, diskVars, clock, ops, histVars>>

(* A process that has called Close exits.                                  *)
ExitClosed ==
  /\ phase = "closing" /\ wpc[Closer] = "closed"
  /\ End("closed") /\ UNCHANGED faults

(* The program's own graceful stop: ChatService.Close and the other hooks  *)
(* run, and none of them calls Close.                                      *)
Stop == phase = "up" /\ Fault /\ End("stopped")

Crash == Running /\ Fault /\ End("crashed")

Fresh(e) == clock - e.born < Lifetime

(* restore: the fresh entries of a session, in the order of the file.      *)
FileOrders(s) ==
  LET fresh == {i \in DOMAIN file[s] : Fresh(file[s][i])}
  IN  {[k \in DOMAIN p |-> file[s][p[k]]] :
         p \in {q \in SetToSeqs(fresh) : IsSorted(q, LAMBDA i, j : i < j)}}

(* LoadAll: the fresh rows of a session, by created_at.                    *)
RowOrders(s) ==
  {q \in SetToSeqs({e \in rows : Fresh(e) /\ SessionOf[e.id] = s}) :
     IsSorted(q, LAMBDA a, b : a.born <= b.born)}

(* The queues that give each session one of its orders.                    *)
PerSession(Orders(_)) ==
  {q \in [Sessions -> UNION {Orders(s) : s \in Sessions}] :
     \A s \in Sessions : q[s] \in Orders(s)}

FromFile == IF file = Unreadable THEN {Empty} ELSE PerSession(FileOrders)

FromStore == PerSession(RowOrders)

(* SetStore that writes to a store it could not read.                      *)
LoadFailsPush ==
  /\ Fault
  /\ queues' \in FromFile
  /\ rows' = Entries(queues')
  /\ synced' = FALSE
  /\ UNCHANGED file

(* SetStore.  A store that cannot be read is left alone.                   *)
LoadFails ==
  /\ Fault
  /\ queues' \in FromFile
  /\ synced' = FALSE
  /\ UNCHANGED diskVars

(* What the store has wins over the file, which is written anew.           *)
LoadRows ==
  /\ \E e \in rows : Fresh(e)
  /\ queues' \in FromStore
  /\ \/ file' = queues' /\ UNCHANGED faults
     \/ Fault /\ UNCHANGED file
  /\ synced' = (rows = Entries(queues'))
  /\ UNCHANGED rows

(* An empty store receives what the file had.                              *)
Migrate ==
  /\ \A e \in rows : ~Fresh(e)
  /\ queues' \in FromFile
  /\ \/ queues' = Empty /\ UNCHANGED <<diskVars, faults>>
     \/ /\ queues' # Empty
        /\ file' = queues'
        /\ \/ rows' = Entries(queues') /\ UNCHANGED faults
           \/ Fault /\ UNCHANGED rows
  /\ synced' = (rows' = Entries(queues'))

Start ==
  /\ ~Running
  /\ phase' = "up"
  /\ LoadFails \/ LoadRows \/ Migrate
  /\ restored' = {s \in Sessions : queues'[s] # <<>>}
  /\ seen' = queues' /\ late' = FALSE
  /\ loaded' = Ids(Entries(queues'))
  /\ missed' = Ids(rows) \ loaded'
  /\ UNCHANGED <<flushVars, clock, ops, unsent, taken>>

Tick ==
  /\ clock < MaxClock
  /\ clock' = clock + 1
  /\ UNCHANGED <<memVars, flushVars, diskVars, phase, ops, faults, histVars>>

Send(m) == Enqueue(m) \/ EnqueueInject(m) \/ EnqueueFollowup(m)

Take(s) == FlushLeadingInjects(s) \/ DequeueLeadingInjects(s) \/ Dequeue(s)
             \/ RemoveEntry(s) \/ FlushSession(s)

Edit(s) == Update(s) \/ PromoteToFront(s)

Next ==
  \/ \E m \in Messages : Send(m)
  \/ \E s \in Sessions : Take(s) \/ Edit(s)
  \/ SchedulePersist
  \/ \E w \in Flushers : Fire(w)
  \/ \E w \in Writers : Write(w)
  \/ TakeFileSnapshot(Ticker) \/ SaveFile(Ticker)
  \/ Close \/ ExitClosed \/ Stop \/ Crash \/ Start \/ Tick

Spec == Init /\ [][Next]_vars

-----------------------------------------------------------------------------
(* No entry is in a queue twice, whatever order it was loaded in: the      *)
(* table's primary key, (session_id, entry_id), refuses no snapshot, which *)
(* would fail every flush from then on.                                    *)
KeysUnique ==
  \A s \in Sessions : \A i, j \in DOMAIN queues[s] :
    queues[s][i].id = queues[s][j].id => i = j

(* Type correctness, and the limit on a session's queue.                   *)
TypeOK ==
  /\ queues \in Queues /\ \A s \in Sessions : Len(queues[s]) <= MaxPending
  /\ KeysUnique
  /\ restored \subseteq Sessions
  /\ arming \in Nat /\ timerSet \in BOOLEAN /\ ticking \in Nat
  /\ flushMu \in Writers \cup {None}
  /\ wpc \in [Writers \cup {Ticker} -> {"idle", "wait", "store", "replace", "take", "save", "closed"}]
  /\ snap \in [Writers \cup {Ticker} -> Queues]
  /\ rows \subseteq Entry /\ file \in Queues \cup {Unreadable}
  /\ phase \in {"up", "closing", "closed", "stopped", "crashed"}
  /\ clock \in 0..MaxClock /\ ops \in 0..MaxOps /\ faults \in 0..MaxFaults
  /\ seen \in Queues /\ synced \in BOOLEAN /\ late \in BOOLEAN
  /\ unsent \cup taken \cup missed \cup loaded \subseteq Messages

(* Someone will still take a snapshot.                                     *)
FlushPending ==
  \/ arming > 0 \/ ticking > 0
  \/ \E w \in Writers : wpc[w] \in {"wait", "store"}

(* No change is forgotten: as long as memory differs from the last         *)
(* snapshot, a timer is armed, or about to be, or a flush that has not     *)
(* looked yet is on its way -- although an operation that finds a timer    *)
(* set arms none, and Close takes the timer away.                          *)
FlushComing == Running /\ queues # seen => FlushPending

(* When nothing is under way and the last write was not refused, the store *)
(* holds what memory holds: no delayed flush puts an older state over a    *)
(* newer one.                                                              *)
SettledMeansDurable ==
  Running /\ synced /\ ~FlushPending => rows = Entries(queues)

(* A session is marked restored as long as anything it was loaded with is  *)
(* queued, and not when its queue is empty: the drain relies on both.      *)
RestoredMark ==
  \A s \in Sessions :
    /\ s \in restored => queues[s] # <<>>
    /\ Running /\ Ids(ToSet(queues[s])) \cap (loaded \ taken) # {} => s \in restored

(* Memory reached the store, unless that refused the last write or a queue *)
(* changed while the process ended.                                        *)
Durable == synced /\ ~late => rows = Entries(queues)

(* A process that ends after Close loses nothing, although flushes of the  *)
(* timer were waiting, or in the middle of their writes, when it began.    *)
CloseIsDurable == phase = "closed" => Durable

(* A row leaves the store only because its message was taken out of its    *)
(* queue, or because this process never had it in memory: it was too old   *)
(* at start-up, or the store could not be read.  A failed load by itself   *)
(* costs nothing.                                                          *)
RowsLeaveOnlyWhenTaken ==
  [][\A e \in rows : e.id \notin Ids(rows') =>
       e.id \in taken \cup missed \/ ~Fresh(e)]_vars
=============================================================================
