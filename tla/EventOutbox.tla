----------------------------- MODULE EventOutbox -----------------------------
(***************************************************************************)
(* How a critical event of one session gets to the session's browser:      *)
(* through the sequencer's publish queue into the table                    *)
(* event_delivery_outbox and onto the bus, from the bus into the           *)
(* connection's queue of high priority, and, for what was missed, through  *)
(* the replay at the next connection and the sweep of unmarked rows        *)
(* (internal/agent/v2/sequencer.go, internal/data/event_delivery_outbox.go,*)
(* internal/event/bus_v2.go, internal/server/ws_*.go).  One replica.       *)
(***************************************************************************)
EXTENDS Integers, Sequences, FiniteSets

CONSTANTS
  NumEvents,    \* how many are published
  Earlier,      \* how many of them by an earlier process
  Notices,      \* those with the same kind and entity: the session's notices
  QueueCap,     \* places of publishQueue
  BusCap,       \* places of the websocket subscriber's channel
  HighCap,      \* places of a connection's high queue
  ReplayLimit,  \* defaultOutboxReplayLimit
  MaxFaults,    \* bound: failed statements, lost connections, restarts
  MaxConnects   \* bound: connections of the browser

(* Events are numbered in the order in which their publishers call.        *)
Events == 1..NumEvents

None == 0

ASSUME OutboxAssumption ==
  /\ NumEvents \in Nat /\ Earlier \in 0..NumEvents /\ Notices \subseteq Events
  /\ {QueueCap, BusCap, HighCap, ReplayLimit} \subseteq Nat \ {0}
  /\ MaxFaults \in Nat /\ MaxConnects \in Nat

VARIABLES
  allocating,   \* ARANEA_SEQ_ALLOCATOR=pg
  pc,           \* pc[e]: where the goroutine that publishes e is
  worker,       \* the event the publish worker is at, or None
  queue,        \* publishQueue
  seq,          \* seq[e]: the delivery seq stamped on e, 0 for none
  counter,      \* the session's counter: SeqAssigner's, or the row's in pg mode
  locker,       \* who holds the counter's row lock in pg mode
  restored,     \* RestoreSeqIfNeeded was called in this process
  rows,         \* the table: records of a seq and an event
  published,    \* the seqs whose rows have published_at
  bus,          \* the subscriber's channel
  conn,         \* the browser's connection: off, registered, replaying, open
  doomed,       \* closeSend was called
  high,         \* the connection's high queue, of rows; seq 0: no event_id
  replay,       \* the rows replayOutbox has still to push
  got,          \* the events the browser was sent
  cursor,       \* its last_event_id
  batch, swept, \* rows a sweep has still to broadcast, and has to mark
  faults, connects

publishVars == <<allocating, pc, worker, queue, seq, counter, locker, restored>>
connVars    == <<conn, doomed, high, replay, got, cursor, connects>>
sweepVars   == <<batch, swept>>
vars        == <<publishVars, rows, published, bus, connVars, sweepVars, faults>>

(* DeliveryEventID: the session, the seq, the kind and the entity.         *)
EventID(r) == [seq |-> r.seq, of |-> IF r.ev \in Notices THEN None ELSE r.ev]

NoCursor == [seq |-> 0, of |-> None]

AtSeq(s) == {r \in rows : r.seq = s}

(* What is sent: a row, or with seq 0 an event that has none.              *)
Frames == [seq : Nat, ev : Events]

Fault == faults < MaxFaults /\ faults' = faults + 1

(* The keys of the table, its unique indexes                               *)
(* (migrations/20261010_event_delivery_outbox.sql:16-20): a seq has one    *)
(* row, and no event has two, after an insert that only seemed to fail     *)
(* either.  A transaction that allocates holds a free seq.  The code has a *)
(* branch for the other case, which repairs the counter and tries again    *)
(* (event_delivery_outbox.go:181-198,279-300): "a (session_id, seq) INSERT *)
(* conflict here can only come from a legacy Go-counter replica"           *)
(* (169-172).  With one replica nothing enters that branch, as this        *)
(* invariant says, and AllocCommit leaves it out.                          *)
KeysUnique ==
  /\ \A r, x \in rows : r.seq = x.seq \/ r.ev = x.ev => r = x
  /\ \A e \in Events : pc[e] = "allocating" => AtSeq(seq[e]) = {}

Types ==
  /\ allocating \in BOOLEAN /\ restored \in BOOLEAN
  /\ pc \in [Events -> {"new", "queued", "taken", "allocating", "numbered", "renumbered",
                        "stored", "stripped", "fanned", "over"}]
  /\ worker \in Events \cup {None} /\ locker \in Events \cup {None}
  /\ queue \in Seq(Events) /\ Len(queue) <= QueueCap
  /\ seq \in [Events -> Nat] /\ counter \in Nat
  /\ rows \subseteq [seq : Nat \ {0}, ev : Events]
  /\ published \subseteq {r.seq : r \in rows}
  /\ bus \in Seq(Events) /\ Len(bus) <= BusCap
  /\ conn \in {"off", "registered", "replaying", "open"} /\ doomed \in BOOLEAN
  /\ high \in Seq(Frames) /\ Len(high) <= HighCap
  /\ replay \subseteq rows /\ got \subseteq Events
  /\ cursor \in [seq : Nat \ {0}, of : Events \cup {None}] \cup {NoCursor}
  /\ batch \subseteq rows /\ swept \subseteq rows
  /\ faults \in 0..MaxFaults /\ connects \in 0..MaxConnects

TypeOK == Types /\ KeysUnique

(* A process starts; the session's earlier events have their rows and were *)
(* seen.                                                                   *)
Init ==
  /\ allocating \in BOOLEAN
  /\ pc = [e \in Events |-> IF e <= Earlier THEN "over" ELSE "new"]
  /\ worker = None /\ queue = <<>> /\ locker = None /\ restored = FALSE
  /\ seq = [e \in Events |-> IF e <= Earlier THEN e ELSE 0]
  /\ counter = IF allocating THEN Earlier ELSE 0
  /\ rows = {[seq |-> e, ev |-> e] : e \in 1..Earlier} /\ published = 1..Earlier
  /\ bus = <<>> /\ conn = "off" /\ doomed = FALSE /\ high = <<>> /\ replay = {}
  /\ got = 1..Earlier
  /\ cursor = IF Earlier = 0 THEN NoCursor ELSE EventID([seq |-> Earlier, ev |-> Earlier])
  /\ batch = {} /\ swept = {} /\ faults = 0 /\ connects = 0

-----------------------------------------------------------------------------
(* The publisher.                                                          *)

Goto(e, here, there) == pc[e] \in here /\ pc' = [pc EXCEPT ![e] = there]

(* The last step of a publication, which frees the worker if it was his.   *)
Leave(e) == worker' = IF worker = e THEN None ELSE worker

(* The caller of e comes after those of the events before it.              *)
Called(e) == \A d \in 1..(e - 1) : pc[d] # "new"

Enqueue(e) ==
  /\ Called(e) /\ Len(queue) < QueueCap
  /\ Goto(e, {"new"}, "queued")
  /\ queue' = Append(queue, e)
  /\ UNCHANGED <<allocating, worker, seq, counter, locker, restored,
                 rows, published, bus, connVars, sweepVars, faults>>

(* The queue stayed full for the grace window: the caller's own goroutine  *)
(* publishes.                                                              *)
Direct(e) ==
  /\ Called(e) /\ Len(queue) = QueueCap
  /\ Goto(e, {"new"}, "taken")
  /\ UNCHANGED <<allocating, worker, queue, seq, counter, locker, restored,
                 rows, published, bus, connVars, sweepVars, faults>>

(* The publish loop: one task at a time.                                   *)
Take ==
  /\ worker = None /\ queue # <<>>
  /\ Goto(Head(queue), {"queued"}, "taken")
  /\ worker' = Head(queue) /\ queue' = Tail(queue)
  /\ UNCHANGED <<allocating, seq, counter, locker, restored,
                 rows, published, bus, connVars, sweepVars, faults>>

(* Mutated form: the value before the increment.                           *)
NextSeqFromZero(e) ==
  /\ ~allocating
  /\ Goto(e, {"taken"}, "numbered")
  /\ counter' = counter + 1
  /\ seq' = [seq EXCEPT ![e] = counter]
  /\ UNCHANGED <<allocating, worker, queue, locker, restored,
                 rows, published, bus, connVars, sweepVars, faults>>

(* SeqAssigner.NextSeq.                                                    *)
NextSeq(e) ==
  /\ ~allocating
  /\ Goto(e, {"taken"}, "numbered")
  /\ counter' = counter + 1
  /\ seq' = [seq EXCEPT ![e] = counter']
  /\ UNCHANGED <<allocating, worker, queue, locker, restored,
                 rows, published, bus, connVars, sweepVars, faults>>

(* Insert, with ON CONFLICT DO NOTHING.  A row of the same event_id counts *)
(* as this very row, inserted before; a row of another is a conflict, for  *)
(* which a new seq is drawn once.                                          *)
Insert(e) ==
  LET row == [seq |-> seq[e], ev |-> e] IN
  /\ pc[e] \in {"numbered", "renumbered"}
  /\ \/ /\ AtSeq(seq[e]) = {}
        /\ rows' = rows \cup {row}
        /\ Goto(e, {"numbered", "renumbered"}, "stored")
        /\ UNCHANGED <<seq, counter>>
     \/ /\ \E r \in AtSeq(seq[e]) : EventID(r) = EventID(row)
        /\ Goto(e, {"numbered", "renumbered"}, "stored")
        /\ UNCHANGED <<rows, seq, counter>>
     \/ /\ \E r \in AtSeq(seq[e]) : EventID(r) # EventID(row)
        /\ Goto(e, {"numbered"}, "renumbered")
        /\ counter' = counter + 1
        /\ seq' = [seq EXCEPT ![e] = counter']
        /\ UNCHANGED rows
  /\ UNCHANGED <<allocating, worker, queue, locker, restored,
                 published, bus, connVars, sweepVars, faults>>

(* Mutated form: the stamp stays on an event whose second seq is taken.    *)
ConflictKeepsSeq(e) ==
  /\ \E r \in AtSeq(seq[e]) : EventID(r) # EventID([seq |-> seq[e], ev |-> e])
  /\ Goto(e, {"renumbered"}, "stripped")
  /\ UNCHANGED <<allocating, worker, queue, seq, counter, locker, restored,
                 rows, published, bus, connVars, sweepVars, faults>>

(* The second seq is taken too: the stamp is removed.                      *)
ConflictAgain(e) ==
  /\ \E r \in AtSeq(seq[e]) : EventID(r) # EventID([seq |-> seq[e], ev |-> e])
  /\ Goto(e, {"renumbered"}, "stripped")
  /\ seq' = [seq EXCEPT ![e] = 0]
  /\ UNCHANGED <<allocating, worker, queue, counter, locker, restored,
                 rows, published, bus, connVars, sweepVars, faults>>

(* The statement, or the transaction, reports an error, and may have been  *)
(* executed.                                                               *)
InsertFails(e) ==
  /\ Fault
  /\ Goto(e, {"numbered", "renumbered", "allocating"}, "stripped")
  /\ seq' = [seq EXCEPT ![e] = 0]
  /\ \/ UNCHANGED <<rows, counter>>
     \/ /\ AtSeq(seq[e]) = {}
        /\ rows' = rows \cup {[seq |-> seq[e], ev |-> e]}
        /\ counter' = IF pc[e] = "allocating" THEN seq[e] ELSE counter
  /\ locker' = IF locker = e THEN None ELSE locker
  /\ UNCHANGED <<allocating, worker, queue, restored,
                 published, bus, connVars, sweepVars>>

(* Mutated form: the counter is advanced by a statement of its own.        *)
AllocBeginAlone(e) ==
  /\ allocating
  /\ Goto(e, {"taken"}, "allocating")
  /\ counter' = counter + 1
  /\ seq' = [seq EXCEPT ![e] = counter']
  /\ UNCHANGED <<allocating, worker, queue, locker, restored,
                 rows, published, bus, connVars, sweepVars, faults>>

(* InsertAllocatingSeq: the increment takes the counter's row lock and is  *)
(* seen by others with the commit.                                         *)
AllocBegin(e) ==
  /\ allocating /\ locker = None
  /\ Goto(e, {"taken"}, "allocating")
  /\ locker' = e
  /\ seq' = [seq EXCEPT ![e] = counter + 1]
  /\ UNCHANGED <<allocating, worker, queue, counter, restored,
                 rows, published, bus, connVars, sweepVars, faults>>

AllocCommit(e) ==
  /\ Goto(e, {"allocating"}, "stored")
  /\ rows' = rows \cup {[seq |-> seq[e], ev |-> e]}
  /\ counter' = IF locker = e THEN seq[e] ELSE counter
  /\ locker' = IF locker = e THEN None ELSE locker
  /\ UNCHANGED <<allocating, worker, queue, seq, restored,
                 published, bus, connVars, sweepVars, faults>>

(* fanout.  An event without a row has nothing to mark.                    *)
Fan(e) ==
  /\ Len(bus) < BusCap
  /\ Goto(e, {"stored", "stripped"}, IF pc[e] = "stored" THEN "fanned" ELSE "over")
  /\ bus' = Append(bus, e)
  /\ IF pc[e] = "stored" THEN UNCHANGED worker ELSE Leave(e)
  /\ UNCHANGED <<allocating, queue, seq, counter, locker, restored,
                 rows, published, connVars, sweepVars, faults>>

(* Mutated form: the mark has a context of its own.                        *)
FanDropMarks(e) ==
  /\ Len(bus) = BusCap
  /\ Goto(e, {"stored", "stripped"}, IF pc[e] = "stored" THEN "fanned" ELSE "over")
  /\ IF pc[e] = "stored" THEN UNCHANGED worker ELSE Leave(e)
  /\ UNCHANGED <<allocating, queue, seq, counter, locker, restored,
                 rows, published, bus, connVars, sweepVars, faults>>

(* The subscriber's channel stays full until the context is over, which is *)
(* the mark's context too.                                                 *)
FanDrop(e) ==
  /\ Len(bus) = BusCap
  /\ Goto(e, {"stored", "stripped"}, "over")
  /\ Leave(e)
  /\ UNCHANGED <<allocating, queue, seq, counter, locker, restored,
                 rows, published, bus, connVars, sweepVars, faults>>

(* By the id of the row, which is not in the table when another row was    *)
(* taken for it.                                                           *)
Mark(e) ==
  /\ Goto(e, {"fanned"}, "over") /\ Leave(e)
  /\ published' = published \cup {r.seq : r \in {x \in AtSeq(seq[e]) : x.ev = e}}
  /\ UNCHANGED <<allocating, queue, seq, counter, locker, restored,
                 rows, bus, connVars, sweepVars, faults>>

MarkFails(e) ==
  /\ Fault
  /\ Goto(e, {"fanned"}, "over") /\ Leave(e)
  /\ UNCHANGED <<allocating, queue, seq, counter, locker, restored,
                 rows, published, bus, connVars, sweepVars>>

Publish(e) ==
  \/ NextSeq(e) \/ Insert(e) \/ ConflictAgain(e)
  \/ AllocBegin(e) \/ AllocCommit(e)
  \/ Fan(e) \/ FanDrop(e) \/ Mark(e)

(* The first turn of a session in a process: restoredSharedSeqMax and      *)
(* RestoreSeqIfNeeded.                                                     *)
RestoreCounter ==
  /\ ~restored /\ ~allocating
  /\ restored' = TRUE
  /\ \E max \in {r.seq : r \in rows} :
       /\ \A r \in rows : r.seq <= max
       /\ counter' = IF counter < max THEN max ELSE counter
  /\ UNCHANGED <<allocating, pc, worker, queue, seq, locker,
                 rows, published, bus, connVars, sweepVars, faults>>

-----------------------------------------------------------------------------
(* The connection.                                                         *)

(* BroadcastCriticalToSession: into the high queue, or, when it stays      *)
(* full, the connection is to close; nothing happens without one.          *)
Broadcast(row) ==
  \/ conn = "off" /\ UNCHANGED <<high, doomed>>
  \/ conn # "off" /\ Len(high) < HighCap /\ high' = Append(high, row) /\ UNCHANGED doomed
  \/ conn # "off" /\ Len(high) = HighCap /\ doomed' = TRUE /\ UNCHANGED high

(* The subscriber stamps the frame with the event's seq.                   *)
Forward ==
  /\ bus # <<>>
  /\ bus' = Tail(bus)
  /\ Broadcast([seq |-> seq[Head(bus)], ev |-> Head(bus)])
  /\ UNCHANGED <<publishVars, rows, published, conn, replay, got, cursor, connects,
                 sweepVars, faults>>

Connect ==
  /\ conn = "off" /\ connects < MaxConnects
  /\ connects' = connects + 1
  /\ conn' = "registered"
  /\ UNCHANGED <<publishVars, rows, published, bus, doomed, high, replay, got, cursor,
                 sweepVars, faults>>

(* Rows after the cursor, the newest ReplayLimit of them.                  *)
Newest(R) == {r \in R : Cardinality({x \in R : x.seq > r.seq}) < ReplayLimit}

After(c) ==
  IF \E r \in rows : EventID(r) = c THEN Newest({r \in rows : r.seq > c.seq}) ELSE {}

ListAfter ==
  /\ conn = "registered" /\ conn' = "replaying"
  /\ \/ replay' = (IF cursor = NoCursor THEN {} ELSE After(cursor)) /\ UNCHANGED faults
     \/ cursor # NoCursor /\ Fault /\ UNCHANGED replay
  /\ UNCHANGED <<publishVars, rows, published, bus, doomed, high, got, cursor, connects,
                 sweepVars>>

First(R) == {r \in R : \A x \in R : r.seq <= x.seq}

(* The writer is not started yet: a full queue ends the replay, and the    *)
(* connection goes on.                                                     *)
Replay ==
  /\ conn = "replaying"
  /\ \E row \in First(replay) :
       IF Len(high) < HighCap
       THEN high' = Append(high, row) /\ replay' = replay \ {row}
       ELSE replay' = {} /\ UNCHANGED high
  /\ UNCHANGED <<publishVars, rows, published, bus, conn, doomed, got, cursor, connects,
                 sweepVars, faults>>

StartWriter ==
  /\ conn = "replaying" /\ replay = {}
  /\ conn' = "open"
  /\ UNCHANGED <<publishVars, rows, published, bus, doomed, high, replay, got, cursor,
                 connects, sweepVars, faults>>

(* writePump, and the browser, whose cursor is the last event_id it was    *)
(* sent.                                                                   *)
Deliver ==
  /\ conn = "open" /\ high # <<>>
  /\ high' = Tail(high)
  /\ got' = got \cup {Head(high).ev}
  /\ cursor' = IF Head(high).seq > 0 THEN EventID(Head(high)) ELSE cursor
  /\ UNCHANGED <<publishVars, rows, published, bus, conn, doomed, replay, connects,
                 sweepVars, faults>>

Hangup == conn' = "off" /\ doomed' = FALSE /\ high' = <<>> /\ replay' = {}

(* The writer has drained the queue and sees that it is to close.          *)
CloseDrained ==
  /\ conn = "open" /\ doomed /\ high = <<>> /\ Hangup
  /\ UNCHANGED <<publishVars, rows, published, bus, got, cursor, connects, sweepVars, faults>>

(* The network, with whatever the queue holds.                             *)
Disconnect ==
  /\ conn = "open" /\ Fault /\ Hangup
  /\ UNCHANGED <<publishVars, rows, published, bus, got, cursor, connects, sweepVars>>

-----------------------------------------------------------------------------
(* The sweep: rows without published_at, old enough for their publisher,   *)
(* which has two seconds, to be over.                                      *)

SweepList ==
  /\ batch = {} /\ swept = {}
  /\ batch' = {r \in rows : r.seq \notin published /\ pc[r.ev] = "over"}
  /\ batch' # {}
  /\ UNCHANGED <<publishVars, rows, published, bus, connVars, swept, faults>>

SweepBroadcast ==
  /\ \E row \in First(batch) :
       /\ Broadcast(row)
       /\ batch' = batch \ {row} /\ swept' = swept \cup {row}
  /\ UNCHANGED <<publishVars, rows, published, bus, conn, replay, got, cursor, connects, faults>>

(* MarkPublishedBatch; the rest of the batch waits when the time is up.    *)
SweepMark ==
  /\ swept # {} /\ batch' = {} /\ swept' = {}
  /\ published' = published \cup {r.seq : r \in swept}
  /\ UNCHANGED <<publishVars, rows, bus, connVars, faults>>

SweepMarkFails ==
  /\ swept # {} /\ batch' = {} /\ swept' = {} /\ Fault
  /\ UNCHANGED <<publishVars, rows, published, bus, connVars>>

Sweep == SweepList \/ SweepBroadcast \/ SweepMark

(* The process stops and another one starts.  What was being published is  *)
(* nobody's any more: nothing but a clean-up of tests calls                *)
(* Sequencer.Close.                                                        *)
Restart ==
  /\ Fault /\ Hangup
  /\ pc' = [e \in Events |-> IF pc[e] = "new" THEN "new" ELSE "over"]
  /\ worker' = None /\ queue' = <<>> /\ locker' = None
  /\ counter' = IF allocating THEN counter ELSE 0
  /\ restored' = FALSE /\ bus' = <<>> /\ batch' = {} /\ swept' = {}
  /\ UNCHANGED <<allocating, seq, rows, published, got, cursor, connects>>

-----------------------------------------------------------------------------
Next ==
  \/ \E e \in Events : Enqueue(e) \/ Direct(e) \/ Publish(e) \/ InsertFails(e) \/ MarkFails(e)
  \/ Take \/ RestoreCounter
  \/ Forward \/ Connect \/ ListAfter \/ Replay \/ StartWriter \/ Deliver
  \/ CloseDrained \/ Disconnect
  \/ Sweep \/ SweepMarkFails \/ Restart

Spec == Init /\ [][Next]_vars

(* Goroutines run and the sweeper's ticker ticks.  No event has to be      *)
(* published, no browser to connect.                                       *)
Fairness ==
  /\ \A e \in Events : WF_vars(Publish(e))
  /\ WF_vars(Take) /\ WF_vars(Forward) /\ WF_vars(Sweep)
  /\ WF_vars(ListAfter) /\ WF_vars(Replay) /\ WF_vars(StartWriter)
  /\ WF_vars(Deliver) /\ WF_vars(CloseDrained)

FairSpec == Spec /\ Fairness

-----------------------------------------------------------------------------
(* Properties.                                                             *)

(* The browser's cursor is always the event_id of a row, so that the next  *)
(* connection's ListAfter finds it: failed and ambiguous inserts, seqs     *)
(* used again after a restart and lost races leave no phantom behind       *)
(* (sequencer.go:708-712, event_delivery_outbox.go:390-400).               *)
CursorHasItsRow == cursor # NoCursor => \E r \in rows : EventID(r) = cursor

(* In pg mode a row appears after every row with a smaller seq, whoever    *)
(* publishes: a cursor never passes a row that is still to come            *)
(* (event_delivery_outbox.go:165-168 of internal/data, sequencer.go:779).  *)
RowsAppearInOrder ==
  [][allocating => \A new \in rows' \ rows : \A old \in rows : old.seq < new.seq]_vars

(* A row whose frame nobody has been given yet.                            *)
Owed(r) ==
  /\ r \in rows /\ r.seq \notin published /\ r \notin swept
  /\ pc[r.ev] \in {"stored", "over"}

(* While a browser is connected, a row that is owed reaches it, by the bus *)
(* or, after a drop or a failed mark, by the sweep; or the connection goes,*)
(* and the next one replays (ws_outbox_sweeper.go:16-21,                   *)
(* bus_v2.go:133-158, ws_v2_subscriber.go:197-215).                        *)
OwedRowsAreDelivered ==
  \A e \in Events :
    (conn # "off" /\ \E r \in rows : r.ev = e /\ Owed(r)) ~> (e \in got \/ conn = "off")

(* What the sweeper's comment says of a row it has broadcast to no         *)
(* connection: "the row is still marked published because reconnect replay *)
(* (ListAfter, published_at-agnostic) covers that delivery"                *)
(* (ws_outbox_sweeper.go:206-208).                                         *)
ReplayCoversTheSwept ==
  [][\A r \in swept \ swept' :
       conn = "off" /\ r.seq \in published' /\ r.ev \notin got /\ cursor # NoCursor
         => r \in After(cursor)]_vars

(* What the subscriber's comment says of the stamp on a frame: "live       *)
(* frames and reconnect replays are identical" (ws_v2_subscriber.go:113).  *)
LiveFramesAreTheirRows ==
  \A i \in DOMAIN high : high[i].seq > 0 => high[i] \in rows
=============================================================================
