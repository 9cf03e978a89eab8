------------------------- MODULE EventOutbox_proofs -------------------------
(***************************************************************************)
(* For any number of events, notices, places and faults: the browser's     *)
(* cursor is the event_id of a row, an event has at most one row and a seq *)
(* exactly one, and in pg mode rows appear in the order of their seqs, no  *)
(* row behind the cursor, and what is sent is a row.                       *)
(*                                                                         *)
(* The first follows a stamp from the insert to the browser: whoever       *)
(* carries one, the publisher past the insert, the bus, the high queue,    *)
(* carries one that a row has (StampsHaveRows), because rows stay and an   *)
(* event on the bus is stamped no more; in pg mode it is the row of the    *)
(* event itself, because no insert can take another for it.  For the       *)
(* order, whoever is inside the allocating transaction is the one holder   *)
(* of the counter's lock and has the next number (Allocated), which is     *)
(* past all rows and therefore free (AllocatedIsFree).                     *)
(***************************************************************************)
EXTENDS EventOutbox, TLAPS

Linked(s, e) ==
  s = 0 \/ \E r \in rows : /\ EventID(r) = EventID([seq |-> s, ev |-> e])
                           /\ allocating => r.ev = e

Numbered ==
  \A e \in Events : pc[e] \in {"numbered", "renumbered", "allocating"} => seq[e] # 0

StampsHaveRows ==
  /\ \A e \in Events : /\ pc[e] \in {"stored", "fanned"} => Linked(seq[e], e)
                       /\ pc[e] = "stripped" => seq[e] = 0
  /\ \A i \in 1..Len(bus) : pc[bus[i]] \in {"fanned", "over"} /\ Linked(seq[bus[i]], bus[i])
  /\ \A i \in 1..Len(high) : Linked(high[i].seq, high[i].ev)

Allocated ==
  /\ \A e \in Events : /\ pc[e] = "allocating" => allocating /\ locker = e /\ seq[e] = counter + 1
                       /\ pc[e] \in {"numbered", "renumbered"} => ~allocating
  /\ allocating => \A r \in rows : r.seq <= counter

Inserted == {"stored", "stripped", "fanned", "over"}

(* Before its insert an event has no row.                                  *)
OneRowEach ==
  /\ \A r, x \in rows : r.seq = x.seq \/ r.ev = x.ev => r = x
  /\ \A r \in rows : pc[r.ev] \in Inserted

IInv == Types /\ Numbered /\ StampsHaveRows /\ CursorHasItsRow /\ Allocated /\ OneRowEach

LEMMA Limits ==
  /\ Events \subseteq Nat \ {0} /\ 1..Earlier \subseteq Events
  /\ QueueCap \in Nat /\ BusCap \in Nat /\ HighCap \in Nat
  /\ MaxFaults \in Nat /\ MaxConnects \in Nat
  BY OutboxAssumption DEF Events

LEMMA FaultTypes == Types /\ Fault => faults' \in 0..MaxFaults
  BY Limits DEF Types, Fault

LEMMA HangupTypes ==
  Hangup => /\ conn' \in {"off", "registered", "replaying", "open"} /\ doomed' \in BOOLEAN
            /\ high' \in Seq(Frames) /\ Len(high') <= HighCap
            /\ replay' = {}
<1>1. <<>> \in Seq(Frames) /\ Len(<<>>) = 0 /\ HighCap >= 0
  BY Limits
<1> QED BY <1>1 DEF Hangup

LEMMA InitInvariant == Init => IInv
<1> SUFFICES ASSUME Init PROVE IInv
  OBVIOUS
<1> USE OutboxAssumption DEF Init, Events, None
<1>1. Types
  <2>1. rows \subseteq [seq : Nat \ {0}, ev : Events]
    BY Limits
  <2>2. published \subseteq {r.seq : r \in rows}
    <3>1. ASSUME NEW s \in published PROVE \E r \in rows : s = r.seq
      <4>1. [seq |-> s, ev |-> s] \in rows
        BY <3>1
      <4> QED BY <4>1
    <3> QED BY <3>1
  <2>3. cursor \in [seq : Nat \ {0}, of : Events \cup {None}] \cup {NoCursor}
    BY DEF EventID
  <2>4. /\ pc \in [Events -> {"new", "queued", "taken", "allocating", "numbered", "renumbered",
                              "stored", "stripped", "fanned", "over"}]
        /\ seq \in [Events -> Nat] /\ counter \in Nat /\ got \subseteq Events
    BY Limits
  <2>6. faults \in 0..MaxFaults /\ connects \in 0..MaxConnects /\ worker \in Events \cup {None}
        /\ locker \in Events \cup {None} /\ replay \subseteq rows /\ batch \subseteq rows
        /\ swept \subseteq rows
    BY Limits
  <2>5. /\ queue \in Seq(Events) /\ Len(queue) <= QueueCap
        /\ bus \in Seq(Events) /\ Len(bus) <= BusCap
        /\ high \in Seq(Frames) /\ Len(high) <= HighCap
    BY Limits
  <2> QED BY <2>1, <2>2, <2>3, <2>4, <2>5, <2>6 DEF Types
<1>2. Numbered /\ Allocated
  BY DEF Numbered, Allocated
<1>3. StampsHaveRows
  BY DEF StampsHaveRows
<1>4. CursorHasItsRow
  <2>1. CASE Earlier = 0
    BY <2>1 DEF CursorHasItsRow
  <2>2. CASE Earlier # 0
    <3>1. [seq |-> Earlier, ev |-> Earlier] \in rows
      BY <2>2
    <3> QED BY <2>2, <3>1 DEF CursorHasItsRow
  <2> QED BY <2>1, <2>2
<1>5. OneRowEach
  <2>1. ASSUME NEW r \in rows PROVE pc[r.ev] \in Inserted
    BY Limits DEF Inserted
  <2> QED BY <2>1 DEF OneRowEach
<1> QED BY <1>1, <1>2, <1>3, <1>4, <1>5 DEF IInv

-----------------------------------------------------------------------------
(* The type invariant.                                                     *)

LEMMA EntryTypes ==
  ASSUME Types, Numbered, NEW e \in Events, Enqueue(e) \/ Direct(e) \/ Take
  PROVE  Types' /\ Numbered'
<1> USE DEF connVars, sweepVars
<1>1. CASE Enqueue(e)
  BY <1>1, OutboxAssumption DEF Enqueue, Goto, Types, Numbered
<1>2. CASE Direct(e)
  BY <1>2 DEF Direct, Goto, Types, Numbered
<1>3. CASE Take
  <2>1. Head(queue) \in Events /\ Tail(queue) \in Seq(Events) /\ Len(Tail(queue)) <= QueueCap
    BY <1>3, OutboxAssumption DEF Take, Types
  <2> QED BY <1>3, <2>1 DEF Take, Goto, Types, Numbered
<1> QED BY <1>1, <1>2, <1>3

LEMMA RowTypes ==
  ASSUME Types, NEW e \in Events, seq[e] # 0,
         rows' \in {rows, rows \cup {[seq |-> seq[e], ev |-> e]}},
         UNCHANGED <<published, replay, batch, swept>>
  PROVE  /\ rows' \subseteq [seq : Nat \ {0}, ev : Events]
         /\ published' \subseteq {r.seq : r \in rows'}
         /\ replay' \subseteq rows' /\ batch' \subseteq rows' /\ swept' \subseteq rows'
  BY DEF Types

LEMMA InsertTypes ==
  ASSUME Types, Numbered, NEW e \in Events,
         NextSeq(e) \/ Insert(e) \/ ConflictAgain(e) \/ InsertFails(e)
           \/ AllocBegin(e) \/ AllocCommit(e)
  PROVE  Types' /\ Numbered'
<1> USE DEF connVars, sweepVars, Goto
<1>1. seq[e] \in Nat /\ counter \in Nat
  BY DEF Types
<1>2. CASE NextSeq(e)
  BY <1>1, <1>2 DEF NextSeq, Types, Numbered
<1>3. CASE Insert(e)
  <2>1. seq[e] # 0
    BY <1>3 DEF Insert, Numbered
  <2>2. rows' \in {rows, rows \cup {[seq |-> seq[e], ev |-> e]}}
    BY <1>3 DEF Insert
  <2> HIDE DEF Goto
  <2>3. \/ /\ pc' = [pc EXCEPT ![e] = "stored"] /\ UNCHANGED <<seq, counter>>
        \/ /\ pc' = [pc EXCEPT ![e] = "renumbered"] /\ counter' = counter + 1
           /\ seq' = [seq EXCEPT ![e] = counter + 1]
    BY <1>3 DEF Insert, Goto
  <2>4. seq' \in [Events -> Nat] /\ counter' \in Nat
    BY <1>1, <2>3 DEF Types
  <2>6. Numbered'
    <3>1. CASE pc' = [pc EXCEPT ![e] = "stored"] /\ UNCHANGED seq
      BY <3>1 DEF Types, Numbered
    <3>2. CASE pc' = [pc EXCEPT ![e] = "renumbered"] /\ seq' = [seq EXCEPT ![e] = counter + 1]
      BY <1>1, <3>2 DEF Types, Numbered
    <3> QED BY <2>3, <3>1, <3>2
  <2>5. pc' \in [Events -> {"new", "queued", "taken", "allocating", "numbered", "renumbered",
                            "stored", "stripped", "fanned", "over"}]
    BY <2>3 DEF Types
  <2> QED BY <1>3, <2>1, <2>2, <2>4, <2>5, <2>6, RowTypes DEF Insert, Types
<1>4. CASE ConflictAgain(e)
  BY <1>1, <1>4 DEF ConflictAgain, Types, Numbered
<1>5. CASE InsertFails(e)
  <2>1. seq[e] # 0
    BY <1>5 DEF InsertFails, Numbered
  <2>2. rows' \in {rows, rows \cup {[seq |-> seq[e], ev |-> e]}}
    BY <1>5 DEF InsertFails
  <2>3. faults' \in 0..MaxFaults
    BY <1>5, OutboxAssumption DEF InsertFails, Fault, Types
  <2>4. seq' \in [Events -> Nat] /\ counter' \in Nat /\ locker' \in Events \cup {None} /\ Numbered'
    BY <1>1, <1>5 DEF InsertFails, Types, Numbered
  <2> QED BY <1>5, <2>1, <2>2, <2>3, <2>4, RowTypes DEF InsertFails, Types
<1>6. CASE AllocBegin(e)
  BY <1>1, <1>6 DEF AllocBegin, Types, Numbered
<1>7. CASE AllocCommit(e)
  <2>1. seq[e] # 0
    BY <1>7 DEF AllocCommit, Numbered
  <2>2. rows' \in {rows, rows \cup {[seq |-> seq[e], ev |-> e]}}
    BY <1>7 DEF AllocCommit
  <2>3. counter' \in Nat /\ locker' \in Events \cup {None} /\ Numbered'
    BY <1>1, <1>7 DEF AllocCommit, Types, Numbered
  <2> QED BY <1>7, <2>1, <2>2, <2>3, RowTypes DEF AllocCommit, Types
<1> QED BY <1>2, <1>3, <1>4, <1>5, <1>6, <1>7

LEMMA FanTypes ==
  ASSUME Types, Numbered, NEW e \in Events,
         Fan(e) \/ FanDrop(e) \/ Mark(e) \/ MarkFails(e) \/ RestoreCounter
  PROVE  Types' /\ Numbered'
<1> USE DEF connVars, sweepVars, Goto, Leave
<1>1. CASE Fan(e)
  BY <1>1, OutboxAssumption DEF Fan, Types, Numbered
<1>2. CASE FanDrop(e)
  BY <1>2 DEF FanDrop, Types, Numbered
<1>3. CASE Mark(e)
  <2>1. published' \subseteq {r.seq : r \in rows}
    BY <1>3 DEF Mark, AtSeq, Types
  <2> QED BY <1>3, <2>1 DEF Mark, Types, Numbered
<1>4. CASE MarkFails(e)
  BY <1>4, OutboxAssumption DEF MarkFails, Fault, Types, Numbered
<1>5. CASE RestoreCounter
  <2>1. counter' \in Nat
    BY <1>5 DEF RestoreCounter, Types
  <2> QED BY <1>5, <2>1 DEF RestoreCounter, Types, Numbered
<1> QED BY <1>1, <1>2, <1>3, <1>4, <1>5

(* What a broadcast leaves in the high queue is what was there, or that    *)
(* and the row.                                                            *)
LEMMA BroadcastAdds ==
  ASSUME Types, NEW row \in Frames, Broadcast(row)
  PROVE  /\ high' \in {high, Append(high, row)} /\ doomed' \in BOOLEAN
         /\ high' \in Seq(Frames) /\ Len(high') <= HighCap
<1>1. CASE conn = "off"
  BY <1>1, Limits DEF Broadcast, Types
<1>2. CASE conn # "off" /\ Len(high) < HighCap
  <2>1. high' = Append(high, row) /\ doomed' = doomed
    BY <1>2 DEF Broadcast
  <2> QED BY <1>2, <2>1, Limits DEF Types
<1>3. CASE conn # "off" /\ Len(high) = HighCap
  <2>1. ~(Len(high) < HighCap)
    BY <1>3, Limits
  <2>2. high' = high /\ doomed' = TRUE
    BY <1>3, <2>1 DEF Broadcast
  <2> QED BY <2>2 DEF Types
<1>4. Len(high) < HighCap \/ Len(high) = HighCap
  BY Limits DEF Types
<1> QED BY <1>1, <1>2, <1>3, <1>4

LEMMA ConnTypes ==
  ASSUME Types, Numbered,
         Forward \/ Connect \/ ListAfter \/ Replay \/ StartWriter \/ Deliver
           \/ CloseDrained \/ Disconnect
  PROVE  Types' /\ Numbered'
<1> USE DEF publishVars, sweepVars
<1>1. CASE Forward
  <2>1. Head(bus) \in Events /\ Tail(bus) \in Seq(Events) /\ Len(Tail(bus)) <= BusCap
    BY <1>1, OutboxAssumption DEF Forward, Types
  <2>2. [seq |-> seq[Head(bus)], ev |-> Head(bus)] \in Frames
    BY <2>1 DEF Types, Frames
  <2> QED BY <1>1, <2>1, <2>2, BroadcastAdds DEF Forward, Types, Numbered
<1>2. CASE Connect \/ StartWriter
  BY <1>2, OutboxAssumption DEF Connect, StartWriter, Types, Numbered
<1>3. CASE ListAfter
  <2>1. replay' \subseteq rows
    BY <1>3 DEF ListAfter, After, Newest, Types
  <2>2. faults' \in 0..MaxFaults
    BY <1>3, FaultTypes DEF ListAfter, Types
  <2> QED BY <1>3, <2>1, <2>2 DEF ListAfter, Types, Numbered
<1>4. CASE Replay
  <2>1. PICK row \in First(replay) :
          IF Len(high) < HighCap
          THEN high' = Append(high, row) /\ replay' = replay \ {row}
          ELSE replay' = {} /\ UNCHANGED high
    BY <1>4 DEF Replay
  <2>2. row \in Frames
    BY DEF First, Types, Frames
  <2>3. high' \in Seq(Frames) /\ Len(high') <= HighCap
    <3>1. high \in Seq(Frames) /\ Len(high) <= HighCap
      BY DEF Types
    <3>2. CASE Len(high) < HighCap
      BY <2>1, <2>2, <3>1, <3>2, Limits
    <3>3. CASE ~(Len(high) < HighCap)
      BY <2>1, <3>1, <3>3
    <3> QED BY <3>2, <3>3
  <2>4. replay' \subseteq rows
    BY <2>1 DEF Types
  <2> QED BY <1>4, <2>3, <2>4 DEF Replay, Types, Numbered
<1>5. CASE Deliver
  <2>1. Head(high) \in Frames /\ Tail(high) \in Seq(Frames)
        /\ Len(Tail(high)) <= HighCap
    <3>1. high \in Seq(Frames) /\ high # <<>> /\ Len(high) <= HighCap
      BY <1>5 DEF Deliver, Types
    <3> QED BY <3>1, Limits
  <2>2. cursor' \in [seq : Nat \ {0}, of : Events \cup {None}] \cup {NoCursor}
    BY <1>5, <2>1 DEF Deliver, EventID, Types, Frames
  <2>3. got' \subseteq Events
    BY <1>5, <2>1 DEF Deliver, Types, Frames
  <2> QED BY <1>5, <2>1, <2>2, <2>3 DEF Deliver, Types, Numbered
<1>6. CASE CloseDrained
  BY <1>6, HangupTypes DEF CloseDrained, Types, Numbered
<1>7. CASE Disconnect
  BY <1>7, HangupTypes, FaultTypes DEF Disconnect, Types, Numbered
<1> QED BY <1>1, <1>2, <1>3, <1>4, <1>5, <1>6, <1>7

LEMMA SweepTypes ==
  ASSUME Types, Numbered, Sweep \/ SweepMarkFails \/ Restart
  PROVE  Types' /\ Numbered'
<1> USE DEF publishVars, connVars
<1>1. CASE SweepList
  BY <1>1 DEF SweepList, Types, Numbered
<1>2. CASE SweepBroadcast
  <2>1. PICK row \in First(batch) :
          /\ Broadcast(row)
          /\ batch' = batch \ {row} /\ swept' = swept \cup {row}
    BY <1>2 DEF SweepBroadcast
  <2>2. row \in rows /\ row \in Frames
    BY DEF First, Types, Frames
  <2> QED BY <1>2, <2>1, <2>2, BroadcastAdds DEF SweepBroadcast, Types, Numbered
<1>3. CASE SweepMark
  <2>1. published' \subseteq {r.seq : r \in rows}
    BY <1>3 DEF SweepMark, Types
  <2> QED BY <1>3, <2>1 DEF SweepMark, Types, Numbered
<1>4. CASE SweepMarkFails
  BY <1>4, OutboxAssumption DEF SweepMarkFails, Fault, Types, Numbered
<1>5. CASE Restart
  <2>1. faults' \in 0..MaxFaults
    BY <1>5, FaultTypes DEF Restart
  <2>2. /\ pc' \in [Events -> {"new", "queued", "taken", "allocating", "numbered", "renumbered",
                               "stored", "stripped", "fanned", "over"}]
        /\ Numbered' /\ counter' \in Nat
    BY <1>5 DEF Restart, Types, Numbered
  <2>3. queue' \in Seq(Events) /\ Len(queue') <= QueueCap /\ bus' \in Seq(Events) /\ Len(bus') <= BusCap
    BY <1>5, Limits DEF Restart
  <2> QED BY <1>5, <2>1, <2>2, <2>3, HangupTypes DEF Restart, Types
<1> QED BY <1>1, <1>2, <1>3, <1>4, <1>5 DEF Sweep

-----------------------------------------------------------------------------
(* The stamps.                                                             *)

(* Rows stay, so what has a row keeps it.                                  *)
LEMMA RowsKeepLinks ==
  ASSUME rows \subseteq rows', UNCHANGED allocating, NEW s, NEW e, Linked(s, e)
  PROVE  Linked(s, e)'
  BY DEF Linked, EventID

LEMMA CursorStays ==
  ASSUME CursorHasItsRow, rows \subseteq rows', UNCHANGED cursor
  PROVE  CursorHasItsRow'
  BY DEF CursorHasItsRow, EventID

(* What is on the bus and in the high queue keeps its row when the table   *)
(* only grows and its events are not stamped again.                        *)
LEMMA StampsStay ==
  ASSUME StampsHaveRows, Types, rows \subseteq rows', UNCHANGED <<allocating, bus, high>>,
         NEW e \in Events, NEW to, pc' = [pc EXCEPT ![e] = to],
         pc[e] = "fanned" => to = "over", pc[e] # "over",
         \A d \in Events \ {e} : seq'[d] = seq[d],
         pc[e] = "fanned" => seq'[e] = seq[e],
         to \in {"stored", "fanned"} => Linked(seq[e], e)' /\ seq'[e] = seq[e],
         to = "stripped" => seq'[e] = 0
  PROVE  StampsHaveRows'
<1>1. ASSUME NEW d \in Events
      PROVE  /\ pc'[d] \in {"stored", "fanned"} => Linked(seq[d], d)'
             /\ pc'[d] \in {"stored", "fanned"} => seq'[d] = seq[d]
             /\ pc'[d] = "stripped" => seq'[d] = 0
  <2>1. CASE d = e
    BY <2>1 DEF Types
  <2>2. CASE d # e
    <3>1. pc'[d] = pc[d] /\ seq'[d] = seq[d]
      BY <2>2 DEF Types
    <3> QED BY <3>1, RowsKeepLinks DEF StampsHaveRows
  <2> QED BY <2>1, <2>2
<1>2. ASSUME NEW i \in 1..Len(bus)
      PROVE  /\ pc'[bus[i]] \in {"fanned", "over"} /\ seq'[bus[i]] = seq[bus[i]]
             /\ Linked(seq[bus[i]], bus[i])'
  <2>1. bus[i] \in Events /\ pc[bus[i]] \in {"fanned", "over"} /\ Linked(seq[bus[i]], bus[i])
    BY DEF StampsHaveRows, Types
  <2>2. Linked(seq[bus[i]], bus[i])'
    BY <2>1, RowsKeepLinks
  <2> QED BY <2>1, <2>2 DEF Types
<1>3. ASSUME NEW i \in 1..Len(high) PROVE Linked(high[i].seq, high[i].ev)'
  BY RowsKeepLinks DEF StampsHaveRows
<1> QED BY <1>1, <1>2, <1>3 DEF StampsHaveRows

LEMMA PublishStamps ==
  ASSUME IInv, NEW e \in Events,
         Enqueue(e) \/ Direct(e) \/ Take \/ NextSeq(e) \/ ConflictAgain(e) \/ InsertFails(e)
           \/ AllocBegin(e) \/ FanDrop(e) \/ Mark(e) \/ MarkFails(e)
  PROVE  StampsHaveRows' /\ CursorHasItsRow'
<1> USE DEF IInv, connVars, Goto
<1>1. rows \subseteq rows' /\ UNCHANGED <<allocating, high, cursor>>
  BY DEF Enqueue, Direct, Take, NextSeq, ConflictAgain, InsertFails, AllocBegin, FanDrop, Mark, MarkFails
<1>2. CASE Enqueue(e)
  BY <1>1, <1>2, StampsStay, CursorStays DEF Enqueue
<1>3. CASE Direct(e)
  BY <1>1, <1>3, StampsStay, CursorStays DEF Direct
<1>4. CASE Take
  <2>1. Head(queue) \in Events
    BY <1>4 DEF Take, Types
  <2> QED BY <1>1, <1>4, <2>1, StampsStay, CursorStays DEF Take
<1>5. CASE NextSeq(e)
  BY <1>1, <1>5, StampsStay, CursorStays DEF NextSeq, Types
<1>6. CASE ConflictAgain(e)
  BY <1>1, <1>6, StampsStay, CursorStays DEF ConflictAgain, Types
<1>7. CASE InsertFails(e)
  BY <1>1, <1>7, StampsStay, CursorStays DEF InsertFails, Types
<1>8. CASE AllocBegin(e)
  BY <1>1, <1>8, StampsStay, CursorStays DEF AllocBegin, Types
<1>9. CASE FanDrop(e)
  BY <1>1, <1>9, StampsStay, CursorStays DEF FanDrop
<1>10. CASE Mark(e)
  BY <1>1, <1>10, StampsStay, CursorStays DEF Mark
<1>11. CASE MarkFails(e)
  BY <1>1, <1>11, StampsStay, CursorStays DEF MarkFails
<1> QED BY <1>2, <1>3, <1>4, <1>5, <1>6, <1>7, <1>8, <1>9, <1>10, <1>11

(* The insert stores the row, or finds one of the same event_id.           *)
LEMMA StoreStamps ==
  ASSUME IInv, NEW e \in Events, Insert(e) \/ AllocCommit(e)
  PROVE  StampsHaveRows' /\ CursorHasItsRow'
<1> USE DEF IInv, connVars
<1> DEFINE row == [seq |-> seq[e], ev |-> e]
<1>1. rows \subseteq rows' /\ UNCHANGED <<allocating, bus, high, cursor>>
  BY DEF Insert, AllocCommit
<1>2. pc[e] \notin {"fanned", "over"}
  BY DEF Insert, AllocCommit, Goto
<1>3. CASE /\ pc' = [pc EXCEPT ![e] = "stored"] /\ UNCHANGED seq
           /\ \E r \in rows' : EventID(r) = EventID(row) /\ (allocating => r.ev = e)
  <2>1. Linked(seq[e], e)'
    BY <1>1, <1>3 DEF Linked, EventID
  <2> QED BY <1>1, <1>2, <1>3, <2>1, StampsStay, CursorStays
<1>4. CASE pc' = [pc EXCEPT ![e] = "renumbered"] /\ \A d \in Events \ {e} : seq'[d] = seq[d]
  BY <1>1, <1>2, <1>4, StampsStay, CursorStays
<1>5. CASE Insert(e)
  <2>1. \/ row \in rows' /\ Goto(e, {"numbered", "renumbered"}, "stored") /\ UNCHANGED seq
        \/ /\ ~allocating /\ \E r \in rows' : EventID(r) = EventID(row)
           /\ Goto(e, {"numbered", "renumbered"}, "stored") /\ UNCHANGED seq
        \/ Goto(e, {"numbered"}, "renumbered") /\ seq' = [seq EXCEPT ![e] = counter']
    BY <1>5 DEF Insert, AtSeq, Goto, Allocated
  <2> QED BY <2>1, <1>3, <1>4 DEF Goto, Types
<1>6. CASE AllocCommit(e)
  BY <1>3, <1>6 DEF AllocCommit, Goto
<1> QED BY <1>5, <1>6

LEMMA FanStamps ==
  ASSUME IInv, NEW e \in Events, Fan(e)
  PROVE  StampsHaveRows' /\ CursorHasItsRow'
<1> USE DEF IInv, connVars
<1>1. /\ UNCHANGED <<allocating, rows, seq, high, cursor>> /\ bus' = Append(bus, e)
      /\ pc[e] \in {"stored", "stripped"} /\ bus \in Seq(Events)
      /\ pc' = [pc EXCEPT ![e] = IF pc[e] = "stored" THEN "fanned" ELSE "over"]
  BY DEF Fan, Goto, Types
<1>2. Linked(seq[e], e)
  BY <1>1 DEF StampsHaveRows, Linked
<1>3. \A s, d : Linked(s, d) => Linked(s, d)'
  BY <1>1 DEF Linked, EventID
<1>4. ASSUME NEW d \in Events
      PROVE  /\ pc'[d] \in {"stored", "fanned"} => Linked(seq[d], d)'
             /\ pc'[d] = "stripped" => seq'[d] = 0
  <2>1. pc'[d] \in {"stored", "fanned"} => Linked(seq[d], d)
    BY <1>1, <1>2 DEF StampsHaveRows, Types
  <2> QED BY <1>1, <1>3, <2>1 DEF StampsHaveRows, Types
<1>5. ASSUME NEW i \in 1..Len(bus')
      PROVE  pc'[bus'[i]] \in {"fanned", "over"} /\ Linked(seq[bus[i]], bus[i])'
  <2>1. CASE i = Len(bus) + 1
    <3>1. bus'[i] = e
      BY <1>1, <2>1
    <3> QED BY <1>1, <1>2, <1>3, <3>1 DEF Types
  <2>2. CASE i \in 1..Len(bus)
    <3>1. bus'[i] = bus[i] /\ bus[i] \in Events
      BY <1>1, <2>2
    <3>2. Linked(seq[bus[i]], bus[i]) /\ pc[bus[i]] \in {"fanned", "over"}
      BY <2>2 DEF StampsHaveRows
    <3>3. Linked(seq[bus[i]], bus[i])'
      BY <1>1, <1>3, <3>1, <3>2
    <3> QED BY <1>1, <3>1, <3>2, <3>3 DEF Types
  <2> QED BY <1>1, <2>1, <2>2
<1>6. ASSUME NEW i \in 1..Len(high') PROVE Linked(high[i].seq, high[i].ev)'
  BY <1>1, <1>3 DEF StampsHaveRows
<1>7. StampsHaveRows'
  BY <1>4, <1>5, <1>6 DEF StampsHaveRows
<1> QED BY <1>1, <1>7, CursorStays

(* A step of the connection or of the sweep: rows and stamps stay, the bus *)
(* loses at most its head, and a row, or a stamp of the bus, is added to   *)
(* the high queue.                                                         *)
LEMMA QueueStamps ==
  ASSUME IInv, UNCHANGED <<allocating, rows, pc, seq>>,
         bus' = bus \/ (bus # <<>> /\ bus' = Tail(bus)),
         NEW row \in Frames, Linked(row.seq, row.ev),
         \/ high' \in {high, Append(high, row), <<>>}
         \/ high # <<>> /\ high' = Tail(high)
  PROVE  StampsHaveRows'
<1> USE DEF IInv
<1>1. \A s, d : Linked(s, d) => Linked(s, d)'
  BY DEF Linked, EventID
<1>2. ASSUME NEW i \in 1..Len(bus')
      PROVE  pc'[bus'[i]] \in {"fanned", "over"} /\ Linked(seq[bus[i]], bus[i])'
  <2>1. bus \in Seq(Events)
    BY DEF Types
  <2>2. PICK j \in 1..Len(bus) : bus'[i] = bus[j]
    <3>1. CASE bus' = bus
      BY <3>1
    <3>2. CASE bus # <<>> /\ bus' = Tail(bus)
      <4>1. i + 1 \in 1..Len(bus) /\ bus'[i] = bus[i + 1]
        BY <2>1, <3>2
      <4> QED BY <4>1
    <3> QED BY <3>1, <3>2
  <2>3. pc[bus[j]] \in {"fanned", "over"} /\ Linked(seq[bus[j]], bus[j])
    BY DEF StampsHaveRows
  <2>4. seq'[bus'[i]] = seq[bus[j]]
    BY <2>2
  <2> QED BY <1>1, <2>2, <2>3, <2>4
<1>3. ASSUME NEW i \in 1..Len(high') PROVE Linked(high[i].seq, high[i].ev)'
  <2>1. high \in Seq(Frames)
    BY DEF Types
  <2>2. \A j \in 1..Len(high) : Linked(high[j].seq, high[j].ev)
    BY DEF StampsHaveRows
  <2>3. CASE high' = high
    BY <1>1, <2>2, <2>3
  <2>4. CASE high' = Append(high, row)
    <3>1. CASE i = Len(high) + 1
      <4>1. high'[i] = row
        BY <2>1, <2>4, <3>1
      <4> QED BY <1>1, <4>1
    <3>2. CASE i \in 1..Len(high)
      <4>1. high'[i] = high[i]
        BY <2>1, <2>4, <3>2
      <4> QED BY <1>1, <2>2, <3>2, <4>1
    <3> QED BY <2>1, <2>4, <3>1, <3>2
  <2>5. CASE high # <<>> /\ high' = Tail(high)
    <3>1. i + 1 \in 1..Len(high) /\ high'[i] = high[i + 1]
      BY <2>1, <2>5
    <3> QED BY <1>1, <2>2, <3>1
  <2>6. CASE high' = <<>>
    BY <2>6
  <2> QED BY <2>3, <2>4, <2>5, <2>6
<1>4. \A e \in Events : /\ pc'[e] \in {"stored", "fanned"} => Linked(seq[e], e)'
                        /\ pc'[e] = "stripped" => seq'[e] = 0
  BY <1>1 DEF StampsHaveRows
<1> QED BY <1>2, <1>3, <1>4 DEF StampsHaveRows

LEMMA RowIsLinked ==
  ASSUME Types, NEW row \in rows
  PROVE  row \in Frames /\ Linked(row.seq, row.ev)
  BY DEF Types, Frames, Linked, EventID

LEMMA QuietStamps ==
  ASSUME IInv, UNCHANGED <<allocating, rows, pc, seq, bus, cursor>>, high' \in {high, <<>>}
  PROVE  StampsHaveRows' /\ CursorHasItsRow'
<1> USE DEF IInv
<1>1. \A s, d : Linked(s, d) => Linked(s, d)'
  BY DEF Linked, EventID
<1>2. ASSUME NEW i \in 1..Len(high') PROVE Linked(high[i].seq, high[i].ev)'
  BY <1>1 DEF StampsHaveRows
<1>3. ASSUME NEW i \in 1..Len(bus')
      PROVE  pc'[bus'[i]] \in {"fanned", "over"} /\ Linked(seq[bus[i]], bus[i])'
  BY <1>1 DEF StampsHaveRows
<1>4. \A e \in Events : /\ pc'[e] \in {"stored", "fanned"} => Linked(seq[e], e)'
                        /\ pc'[e] = "stripped" => seq'[e] = 0
  BY <1>1 DEF StampsHaveRows
<1> QED BY <1>2, <1>3, <1>4, CursorStays DEF StampsHaveRows

LEMMA ConnStamps ==
  ASSUME IInv,
         Forward \/ Connect \/ ListAfter \/ Replay \/ StartWriter \/ Deliver
           \/ CloseDrained \/ Disconnect
  PROVE  StampsHaveRows' /\ CursorHasItsRow'
<1> USE DEF IInv, publishVars
<1>1. CASE Forward
  <2> DEFINE row == [seq |-> seq[Head(bus)], ev |-> Head(bus)]
  <2>1. Head(bus) \in Events /\ Head(bus) = bus[1] /\ 1 \in 1..Len(bus)
    BY <1>1, OutboxAssumption DEF Forward, Types
  <2>2. row \in Frames
    BY <2>1 DEF Types, Frames
  <2>3. Linked(row.seq, row.ev)
    BY <2>1 DEF StampsHaveRows
  <2>4. high' \in {high, Append(high, row)}
    BY <1>1, <2>2, BroadcastAdds DEF Forward
  <2>5. StampsHaveRows'
    BY <1>1, <2>2, <2>3, <2>4, QueueStamps DEF Forward
  <2> QED BY <1>1, <2>5, CursorStays DEF Forward
<1>2. CASE Connect \/ ListAfter \/ StartWriter
  BY <1>2, QuietStamps DEF Connect, ListAfter, StartWriter
<1>3. CASE CloseDrained \/ Disconnect
  BY <1>3, QuietStamps DEF CloseDrained, Disconnect, Hangup
<1>4. CASE Replay
  <2>1. PICK row \in First(replay) : high' \in {high, Append(high, row)}
    BY <1>4 DEF Replay
  <2>2. row \in rows
    BY DEF First, Types
  <2>3. StampsHaveRows'
    BY <1>4, <2>1, <2>2, RowIsLinked, QueueStamps DEF Replay
  <2> QED BY <1>4, <2>3, CursorStays DEF Replay
<1>5. CASE Deliver
  <2>1. high \in Seq(Frames) /\ high # <<>>
    BY <1>5 DEF Deliver, Types
  <2>2. Head(high) \in Frames /\ Head(high) = high[1] /\ 1 \in 1..Len(high)
    BY <2>1
  <2>3. Linked(Head(high).seq, Head(high).ev)
    BY <2>2 DEF StampsHaveRows
  <2>4. StampsHaveRows'
    BY <1>5, <2>2, <2>3, QueueStamps DEF Deliver
  <2>5. CursorHasItsRow'
    <3>1. CASE Head(high).seq > 0
      <4>1. cursor' = EventID(Head(high)) /\ rows' = rows
        BY <1>5, <3>1 DEF Deliver
      <4>2. \E r \in rows : EventID(r) = EventID(Head(high))
        BY <2>2, <2>3, <3>1 DEF Linked, EventID, Frames
      <4> QED BY <4>1, <4>2 DEF CursorHasItsRow, EventID
    <3>2. CASE ~(Head(high).seq > 0)
      BY <1>5, <3>2, CursorStays DEF Deliver
    <3> QED BY <3>1, <3>2
  <2> QED BY <2>4, <2>5
<1> QED BY <1>1, <1>2, <1>3, <1>4, <1>5

LEMMA OtherStamps ==
  ASSUME IInv, RestoreCounter \/ Sweep \/ SweepMarkFails \/ Restart
  PROVE  StampsHaveRows' /\ CursorHasItsRow'
<1> USE DEF IInv, publishVars, connVars
<1>1. CASE RestoreCounter \/ SweepList \/ SweepMark \/ SweepMarkFails
  BY <1>1, QuietStamps DEF RestoreCounter, SweepList, SweepMark, SweepMarkFails
<1>2. CASE SweepBroadcast
  <2>1. PICK row \in First(batch) : Broadcast(row)
    BY <1>2 DEF SweepBroadcast
  <2>2. row \in rows
    BY DEF First, Types
  <2>3. StampsHaveRows'
    BY <1>2, <2>1, <2>2, RowIsLinked, BroadcastAdds, QueueStamps DEF SweepBroadcast
  <2> QED BY <1>2, <2>3, CursorStays DEF SweepBroadcast
<1>3. CASE Restart
  <2>1. \A e \in Events : pc'[e] \in {"new", "over"}
    BY <1>3 DEF Restart
  <2>2. bus' = <<>> /\ high' = <<>>
    BY <1>3 DEF Restart, Hangup
  <2>3. StampsHaveRows'
    BY <2>1, <2>2 DEF StampsHaveRows
  <2> QED BY <1>3, <2>3, CursorStays DEF Restart
<1> QED BY <1>1, <1>2, <1>3 DEF Sweep

-----------------------------------------------------------------------------
(* The allocating transaction.                                             *)

LEMMA AllocationStays ==
  ASSUME Allocated, Types, UNCHANGED <<allocating, rows, counter, locker>>,
         NEW e \in Events, NEW to, pc' = [pc EXCEPT ![e] = to],
         to \notin {"allocating", "numbered", "renumbered"},
         \A d \in Events \ {e} : seq'[d] = seq[d]
  PROVE  Allocated'
  BY DEF Allocated, Types

LEMMA AllocationQuiet ==
  ASSUME Allocated, UNCHANGED <<allocating, pc, seq, rows, counter, locker>>
  PROVE  Allocated'
  BY DEF Allocated

LEMMA PublishAllocation ==
  ASSUME IInv, NEW e \in Events,
         Enqueue(e) \/ Direct(e) \/ Take \/ Publish(e) \/ InsertFails(e) \/ MarkFails(e)
  PROVE  Allocated'
<1> USE DEF IInv, Goto
<1>1. CASE Enqueue(e) \/ Direct(e) \/ ConflictAgain(e) \/ FanDrop(e) \/ Mark(e) \/ MarkFails(e)
  BY <1>1, AllocationStays DEF Enqueue, Direct, ConflictAgain, FanDrop, Mark, MarkFails, Types
<1>2. CASE Fan(e)
  BY <1>2, AllocationStays DEF Fan
<1>3. CASE Take
  <2>1. Head(queue) \in Events
    BY <1>3 DEF Take, Types
  <2> QED BY <1>3, <2>1, AllocationStays DEF Take
<1>4. CASE NextSeq(e)
  BY <1>4 DEF NextSeq, Allocated, Types
<1>5. CASE Insert(e)
  BY <1>5 DEF Insert, Allocated, Types
<1>6. CASE AllocBegin(e)
  BY <1>6, Limits DEF AllocBegin, Allocated, Types, None
<1>7. CASE AllocCommit(e)
  BY <1>7 DEF AllocCommit, Allocated, Types
<1>8. CASE InsertFails(e)
  BY <1>8 DEF InsertFails, Allocated, Types
<1> QED BY <1>1, <1>2, <1>3, <1>4, <1>5, <1>6, <1>7, <1>8 DEF Publish

LEMMA OtherAllocation ==
  ASSUME IInv,
         \/ RestoreCounter \/ Forward \/ Connect \/ ListAfter \/ Replay \/ StartWriter
         \/ Deliver \/ CloseDrained \/ Disconnect \/ Sweep \/ SweepMarkFails \/ Restart
  PROVE  Allocated'
<1> USE DEF IInv, publishVars, connVars
<1>1. CASE RestoreCounter
  BY <1>1 DEF RestoreCounter, Allocated
<1>2. CASE Forward \/ Connect \/ ListAfter \/ Replay \/ StartWriter \/ Deliver
             \/ CloseDrained \/ Disconnect
  BY <1>2, AllocationQuiet
     DEF Forward, Connect, ListAfter, Replay, StartWriter, Deliver, CloseDrained, Disconnect
<1>3. CASE Sweep \/ SweepMarkFails
  BY <1>3, AllocationQuiet DEF Sweep, SweepList, SweepBroadcast, SweepMark, SweepMarkFails
<1>4. CASE Restart
  BY <1>4 DEF Restart, Allocated
<1> QED BY <1>1, <1>2, <1>3, <1>4

-----------------------------------------------------------------------------
(* The keys of the table.                                                  *)

LEMMA KeysStay ==
  ASSUME OneRowEach, Types, UNCHANGED rows,
         \A e \in Events : pc[e] \in Inserted => pc'[e] \in Inserted
  PROVE  OneRowEach'
  BY DEF OneRowEach, Types, Inserted

(* A row with a free seq, of an event that had none.                       *)
LEMMA KeysGrow ==
  ASSUME OneRowEach, Types, NEW e \in Events, pc[e] \notin Inserted, AtSeq(seq[e]) = {},
         rows' = rows \cup {[seq |-> seq[e], ev |-> e]},
         NEW to \in Inserted, pc' = [pc EXCEPT ![e] = to]
  PROVE  OneRowEach'
<1>1. \A r \in rows : r.ev \in Events /\ r.ev # e /\ r.seq # seq[e]
  BY DEF OneRowEach, AtSeq, Types
<1>2. \A d \in Events : pc'[d] = IF d = e THEN to ELSE pc[d]
  BY DEF Types
<1>3. \A r \in rows' : pc'[r.ev] \in Inserted
  BY <1>1, <1>2 DEF OneRowEach
<1>4. \A r, x \in rows' : r.seq = x.seq \/ r.ev = x.ev => r = x
  BY <1>1 DEF OneRowEach
<1> QED BY <1>3, <1>4 DEF OneRowEach

(* Who allocates has the lock, and with it the first seq past all rows.    *)
LEMMA AllocatedIsFree ==
  ASSUME IInv, NEW e \in Events, pc[e] = "allocating"
  PROVE  AtSeq(seq[e]) = {}
<1>1. allocating /\ seq[e] = counter + 1 /\ counter \in Nat
  BY DEF IInv, Types, Allocated
<1>2. \A r \in rows : r.seq \in Nat /\ r.seq <= counter
  BY <1>1 DEF IInv, Types, Allocated
<1> QED BY <1>1, <1>2 DEF AtSeq

LEMMA PublishKeys ==
  ASSUME IInv, NEW e \in Events,
         Enqueue(e) \/ Direct(e) \/ Take \/ Publish(e) \/ InsertFails(e) \/ MarkFails(e)
  PROVE  OneRowEach'
<1> USE DEF IInv, Goto, Inserted
<1>1. CASE \/ Enqueue(e) \/ Direct(e) \/ Take \/ NextSeq(e) \/ ConflictAgain(e) \/ AllocBegin(e)
           \/ Fan(e) \/ FanDrop(e) \/ Mark(e) \/ MarkFails(e)
  <2>1. rows' = rows
    BY <1>1 DEF Enqueue, Direct, Take, NextSeq, ConflictAgain, AllocBegin, Fan, FanDrop, Mark, MarkFails
  <2>2. \A d \in Events : pc[d] \in Inserted => pc'[d] \in Inserted
    BY <1>1 DEF Enqueue, Direct, Take, NextSeq, ConflictAgain, AllocBegin, Fan, FanDrop, Mark,
                MarkFails, Types
  <2> QED BY <2>1, <2>2, KeysStay
<1>2. CASE Insert(e)
  <2>1. CASE UNCHANGED rows
    <3>1. \A d \in Events : pc[d] \in Inserted => pc'[d] \in Inserted
      BY <1>2 DEF Insert, Types
    <3> QED BY <2>1, <3>1, KeysStay
  <2>2. CASE /\ AtSeq(seq[e]) = {} /\ rows' = rows \cup {[seq |-> seq[e], ev |-> e]}
             /\ pc' = [pc EXCEPT ![e] = "stored"]
    <3>1. pc[e] \notin Inserted
      BY <1>2 DEF Insert
    <3> QED BY <2>2, <3>1, KeysGrow
  <2> QED BY <1>2, <2>1, <2>2 DEF Insert
<1>3. CASE AllocCommit(e)
  <2>1. AtSeq(seq[e]) = {}
    BY <1>3, AllocatedIsFree DEF AllocCommit
  <2> QED BY <1>3, <2>1, KeysGrow DEF AllocCommit
<1>4. CASE InsertFails(e)
  <2>1. CASE UNCHANGED rows
    <3>1. \A d \in Events : pc[d] \in Inserted => pc'[d] \in Inserted
      BY <1>4 DEF InsertFails, Types
    <3> QED BY <2>1, <3>1, KeysStay
  <2>2. CASE AtSeq(seq[e]) = {} /\ rows' = rows \cup {[seq |-> seq[e], ev |-> e]}
    <3>1. pc[e] \notin Inserted /\ pc' = [pc EXCEPT ![e] = "stripped"]
      BY <1>4 DEF InsertFails
    <3> QED BY <2>2, <3>1, KeysGrow
  <2> QED BY <1>4, <2>1, <2>2 DEF InsertFails
<1> QED BY <1>1, <1>2, <1>3, <1>4 DEF Publish

LEMMA OtherKeys ==
  ASSUME IInv,
         \/ RestoreCounter \/ Forward \/ Connect \/ ListAfter \/ Replay \/ StartWriter
         \/ Deliver \/ CloseDrained \/ Disconnect \/ Sweep \/ SweepMarkFails \/ Restart
  PROVE  OneRowEach'
<1> USE DEF IInv, publishVars, connVars
<1>1. rows' = rows
  BY DEF RestoreCounter, Forward, Connect, ListAfter, Replay, StartWriter, Deliver,
         CloseDrained, Disconnect, Sweep, SweepList, SweepBroadcast, SweepMark, SweepMarkFails,
         Restart
<1>2. CASE Restart
  BY <1>1, <1>2, KeysStay DEF Restart, Inserted
<1>3. CASE ~Restart
  <2>1. pc' = pc
    BY <1>3 DEF RestoreCounter, Forward, Connect, ListAfter, Replay, StartWriter, Deliver,
                CloseDrained, Disconnect, Sweep, SweepList, SweepBroadcast, SweepMark,
                SweepMarkFails
  <2> QED BY <1>1, <2>1, KeysStay
<1> QED BY <1>2, <1>3

-----------------------------------------------------------------------------
LEMMA StepInvariant == IInv /\ [Next]_vars => IInv'
<1> SUFFICES ASSUME IInv, [Next]_vars PROVE IInv'
  OBVIOUS
<1> USE DEF IInv
<1>1. ASSUME NEW e \in Events, Enqueue(e) \/ Direct(e) PROVE IInv'
  BY <1>1, EntryTypes, PublishStamps, PublishAllocation, PublishKeys
<1>2. ASSUME NEW e \in Events, Publish(e) \/ InsertFails(e) \/ MarkFails(e) PROVE IInv'
  <2>1. Types' /\ Numbered'
    BY <1>2, InsertTypes, FanTypes DEF Publish
  <2>2. StampsHaveRows' /\ CursorHasItsRow'
    BY <1>2, PublishStamps, StoreStamps, FanStamps DEF Publish
  <2> QED BY <1>2, <2>1, <2>2, PublishAllocation, PublishKeys
<1>3. CASE Take
  <2>1. PICK e \in Events : e = Head(queue)
    BY <1>3 DEF Take, Types
  <2> QED BY <1>3, <2>1, EntryTypes, PublishStamps, PublishAllocation, PublishKeys
<1>4. CASE RestoreCounter
  <2>1. Types' /\ Numbered'
    <3>1. counter' \in Nat
      BY <1>4 DEF RestoreCounter, Types
    <3> QED BY <1>4, <3>1 DEF RestoreCounter, Types, Numbered, connVars, sweepVars
  <2> QED BY <1>4, <2>1, OtherStamps, OtherAllocation, OtherKeys
<1>5. CASE Forward \/ Connect \/ ListAfter \/ Replay \/ StartWriter \/ Deliver
             \/ CloseDrained \/ Disconnect
  BY <1>5, ConnTypes, ConnStamps, OtherAllocation, OtherKeys
<1>6. CASE Sweep \/ SweepMarkFails \/ Restart
  BY <1>6, SweepTypes, OtherStamps, OtherAllocation, OtherKeys
<1>7. CASE UNCHANGED vars
  BY <1>7, QuietStamps, AllocationQuiet, KeysStay
     DEF vars, publishVars, connVars, sweepVars, Types, Numbered
<1> QED BY <1>1, <1>2, <1>3, <1>4, <1>5, <1>6, <1>7 DEF Next

THEOREM Invariance == Spec => []IInv
  BY InitInvariant, StepInvariant, PTL DEF Spec

(* Type correctness: queues stay within their places, marks and batches    *)
(* name rows, the cursor has the shape of an event_id (sequencer.go:589,   *)
(* ws_priority.go:111, ws_outbox_sweeper.go:217).                          *)
THEOREM TypesHold == Spec => []TypeOK
<1>1. IInv => TypeOK
  BY AllocatedIsFree DEF IInv, TypeOK, KeysUnique, OneRowEach
<1> QED BY Invariance, <1>1, PTL

(* Through failed and ambiguous inserts, seqs taken by others, restarts    *)
(* with a counter of zero, drops and lost connections, the cursor that the *)
(* browser comes back with is the event_id of a row                        *)
(* (sequencer.go:670-749, ws_v2_subscriber.go:113-120).                    *)
THEOREM CursorNeverPhantom == Spec => []CursorHasItsRow
  BY Invariance, PTL DEF IInv

(* With the allocator in the database, rows appear in the order of their   *)
(* seqs, however many publish at once and whatever fails                   *)
(* (event_delivery_outbox.go:203-309 of internal/data).                    *)
THEOREM AllocationOrder == Spec => RowsAppearInOrder
<1> DEFINE Ordered == allocating => \A new \in rows' \ rows : \A old \in rows : old.seq < new.seq
<1>1. ASSUME IInv, Next, allocating, NEW new \in rows' \ rows, NEW old \in rows
      PROVE  old.seq < new.seq
  <2>1. PICK e \in Events : Insert(e) \/ AllocCommit(e) \/ InsertFails(e)
    BY <1>1 DEF Next, Publish, Enqueue, Direct, NextSeq, ConflictAgain, AllocBegin, Fan, FanDrop,
                Mark, MarkFails, Take, RestoreCounter, Forward, Connect, ListAfter, Replay,
                StartWriter, Deliver, CloseDrained, Disconnect, Sweep, SweepList, SweepBroadcast,
                SweepMark, SweepMarkFails, Restart
  <2>2. new = [seq |-> seq[e], ev |-> e]
    BY <1>1, <2>1 DEF Insert, AllocCommit, InsertFails
  <2>3. pc[e] = "allocating"
    BY <1>1, <2>1 DEF Insert, AllocCommit, InsertFails, Goto, IInv, Allocated
  <2> QED BY <1>1, <2>2, <2>3 DEF IInv, Types, Allocated
<1>2. IInv /\ [Next]_vars => [Ordered]_vars
  BY <1>1
<1> QED BY <1>2, Invariance, PTL DEF Spec, RowsAppearInOrder

(* A seq has one row and an event has at most one, though inserts fail     *)
(* after they were executed and seqs are drawn twice, and without a        *)
(* replica that counts for itself no allocating transaction gets into the  *)
(* branch that repairs a conflict (event_delivery_outbox.go:169-172,       *)
(* 279-300 of internal/data, sequencer.go:690-749).                        *)
THEOREM KeysHold == Spec => []KeysUnique
  BY TypesHold, PTL DEF TypeOK

(* What the allocator in the database is there for: "a last_event_id       *)
(* strict-cursor replay never sees seq N+1 without N"                      *)
(* (event_delivery_outbox.go:165-168).  No row appears behind a cursor     *)
(* that a browser already holds, where no replay would find it.            *)
THEOREM NothingBehindTheCursor ==
  Spec => [][allocating /\ cursor # NoCursor =>
               \A new \in rows' \ rows : cursor.seq < new.seq]_vars
<1> DEFINE Ordered == allocating => \A new \in rows' \ rows : \A old \in rows : old.seq < new.seq
           Ahead == allocating /\ cursor # NoCursor =>
                      \A new \in rows' \ rows : cursor.seq < new.seq
<1>1. IInv /\ [Ordered]_vars => [Ahead]_vars
  <2> SUFFICES ASSUME IInv, Ordered, allocating, cursor # NoCursor, NEW new \in rows' \ rows
               PROVE  cursor.seq < new.seq
    OBVIOUS
  <2>1. PICK old \in rows : EventID(old) = cursor
    BY DEF IInv, CursorHasItsRow
  <2>2. old.seq = cursor.seq
    BY <2>1 DEF EventID
  <2>3. old.seq < new.seq
    BY <2>1
  <2> QED BY <2>2, <2>3
<1> QED BY <1>1, AllocationOrder, Invariance, PTL DEF RowsAppearInOrder

(* With the allocator in the database, the subscriber's comment is true:   *)
(* "live frames and reconnect replays are identical"                       *)
(* (ws_v2_subscriber.go:111-113).  Every stamped frame that waits for the  *)
(* browser, live, replayed or swept, is a row of the table, that of its    *)
(* own event.                                                              *)
THEOREM AllocatedFramesAreRows == Spec => [](allocating => LiveFramesAreTheirRows)
<1>1. IInv => (allocating => LiveFramesAreTheirRows)
  <2> SUFFICES ASSUME IInv, allocating, NEW i \in DOMAIN high, high[i].seq > 0
               PROVE  high[i] \in rows
    BY DEF LiveFramesAreTheirRows
  <2>1. i \in 1..Len(high) /\ high[i] \in Frames
    BY DEF IInv, Types
  <2>2. PICK r \in rows : /\ EventID(r) = EventID([seq |-> high[i].seq, ev |-> high[i].ev])
                         /\ r.ev = high[i].ev
    BY <2>1 DEF IInv, StampsHaveRows, Linked, Frames
  <2>3. r \in Frames /\ r.seq = high[i].seq
    BY <2>2 DEF EventID, IInv, Types, Frames
  <2>4. r = high[i]
    BY <2>1, <2>2, <2>3 DEF Frames
  <2> QED BY <2>4
<1> QED BY <1>1, Invariance, PTL
=============================================================================
