----------------------- MODULE PendingQueueData_proofs -----------------------
(***************************************************************************)
(* What the queues, the snapshots, the file and the table hold: the limit  *)
(* of a session's queue, and that no entry is in it twice, survive every   *)
(* way of writing it and of reading it back, the mark of a restored        *)
(* session is right, and no row is lost that was not taken, for any        *)
(* sessions, messages, goroutines and bounds.                              *)
(*                                                                         *)
(* A message that nobody has sent is nowhere yet: so a new one is never    *)
(* taken for one that was loaded (RestoredMark).  A row of the table is in *)
(* the last snapshot, and what is in the last snapshot is in memory,       *)
(* unless it was taken or this process never had it (RowsAccounted,        *)
(* SeenAccounted): so the snapshot that replaces the table misses no other *)
(* row, although it may be old by then.                                    *)
(***************************************************************************)
EXTENDS PendingQueue_proofs, SequenceTheorems, FiniteSetTheorems, WellFoundedInduction

(* A queue of s as the operations leave it, when new is still to be sent.  *)
SoundQueue(s, q, new) ==
  /\ q \in Seq(Entry) /\ Len(q) <= MaxPending
  /\ \A i \in DOMAIN q : SessionOf[q[i].id] = s /\ q[i].id \notin new
  /\ \A i, j \in DOMAIN q : q[i].id = q[j].id => i = j

Sound(q, new) == q \in Queues /\ \A s \in Sessions : SoundQueue(s, q[s], new)

OfSession(entries, s) == {e \in entries : SessionOf[e.id] = s}

(* Entries of the table: within the limits, so that they can be loaded.    *)
SoundEntries(entries, new) ==
  /\ entries \subseteq Entry
  /\ \A e \in entries : e.id \notin new
  /\ \A d, e \in entries : d.id = e.id => d = e
  /\ \A s \in Sessions : /\ IsFiniteSet(OfSession(entries, s))
                         /\ Cardinality(OfSession(entries, s)) <= MaxPending

QueuesSound == Sound(queues, unsent)

SnapsSound ==
  /\ snap \in [Writers \cup {Ticker} -> Queues]
  /\ \A w \in Writers \cup {Ticker} : Sound(snap[w], unsent)

FileSound == file = Unreadable \/ Sound(file, unsent)

RowsSound == SoundEntries(rows, unsent)

NotSentYet == unsent \subseteq Messages /\ loaded \cap unsent = {}

Small ==
  /\ restored \subseteq Sessions
  /\ timerSet \in BOOLEAN /\ flushMu \in Writers \cup {None}
  /\ phase \in {"up", "closing", "closed", "stopped", "crashed"}
  /\ clock \in 0..MaxClock /\ ops \in 0..MaxOps /\ faults \in 0..MaxFaults
  /\ seen \in Queues /\ synced \in BOOLEAN /\ late \in BOOLEAN
  /\ taken \cup missed \cup loaded \subseteq Messages

SeenAccounted ==
  Running => Ids(Entries(seen)) \subseteq taken \cup missed \cup Ids(Entries(queues))

RowsAccounted ==
  Running => Ids(rows) \subseteq taken \cup missed \cup Ids(Entries(seen))

DataInv == /\ QueuesSound /\ SnapsSound /\ FileSound /\ RowsSound /\ NotSentYet
           /\ Small /\ RestoredMark /\ SeenAccounted /\ RowsAccounted

-----------------------------------------------------------------------------
(* Sequences of entries and sets of ids.                                   *)

LEMMA IdInQueue ==
  ASSUME NEW q, NEW x
  PROVE  x \in Ids(ToSet(q)) <=> \E i \in DOMAIN q : q[i].id = x
BY DEF Ids, ToSet

LEMMA IdInEntries ==
  ASSUME NEW q, NEW x
  PROVE  x \in Ids(Entries(q)) <=> \E s \in Sessions : x \in Ids(ToSet(q[s]))
BY DEF Ids, Entries

LEMMA SameIds ==
  ASSUME NEW p, NEW q, DOMAIN p = DOMAIN q, \A i \in DOMAIN q : p[i].id = q[i].id
  PROVE  Ids(ToSet(p)) = Ids(ToSet(q))
<1>1. \A x : x \in Ids(ToSet(p)) <=> x \in Ids(ToSet(q))
  BY IdInQueue
<1> QED BY <1>1

(* Fewer entries, or the same in another order, are within the limits too: *)
(* f says where each was.                                                  *)
LEMMA PartIsSound ==
  ASSUME NEW new, NEW s, NEW q, SoundQueue(s, q, new),
         NEW p \in Seq(Entry), Len(p) <= MaxPending,
         NEW f \in [DOMAIN p -> DOMAIN q],
         \A i \in DOMAIN p : p[i].id = q[f[i]].id,
         \A i, j \in DOMAIN p : f[i] = f[j] => i = j
  PROVE  SoundQueue(s, p, new) /\ Ids(ToSet(p)) \subseteq Ids(ToSet(q))
<1>1. SoundQueue(s, p, new)
  BY DEF SoundQueue
<1>2. ASSUME NEW x \in Ids(ToSet(p)) PROVE x \in Ids(ToSet(q))
  <2>1. PICK i \in DOMAIN p : p[i].id = x
    BY IdInQueue
  <2>2. f[i] \in DOMAIN q /\ p[i].id = q[f[i]].id
    OBVIOUS
  <2> QED BY <2>1, <2>2, IdInQueue
<1> QED BY <1>1, <1>2

LEMMA SuffixIsSound ==
  ASSUME NEW new, NEW s, NEW q, SoundQueue(s, q, new), NEW n \in 1..Len(q) + 1
  PROVE  LET p == SubSeq(q, n, Len(q))
         IN  SoundQueue(s, p, new) /\ Ids(ToSet(p)) \subseteq Ids(ToSet(q))
<1> DEFINE p == SubSeq(q, n, Len(q))
<1>1. q \in Seq(Entry) /\ Len(q) <= MaxPending
  BY DEF SoundQueue
<1>2. Len(q) \in Nat /\ DOMAIN q = 1..Len(q) /\ MaxPending \in Nat
  BY <1>1, LenProperties, QueueAssumption
<1>3. \A i \in n..Len(q) : q[i] \in Entry
  BY <1>1, <1>2
<1>4. /\ p \in Seq(Entry) /\ Len(p) = IF n <= Len(q) THEN Len(q) - n + 1 ELSE 0
      /\ \A i \in 1..(Len(q) - n + 1) : p[i] = q[n + i - 1]
  BY <1>2, <1>3, SubSeqProperties
<1>5. DOMAIN p = 1..Len(p)
  BY <1>4, LenProperties
<1>6. Len(p) <= MaxPending
  BY <1>1, <1>2, <1>4
<1> DEFINE f == [i \in DOMAIN p |-> n + i - 1]
<1>7. ASSUME NEW i \in DOMAIN p PROVE f[i] \in DOMAIN q /\ p[i].id = q[f[i]].id
  <2>1. i \in 1..(Len(q) - n + 1) /\ n + i - 1 \in 1..Len(q)
    BY <1>2, <1>4, <1>5
  <2>2. p[i] = q[n + i - 1]
    BY <2>1, <1>4
  <2> QED BY <2>1, <2>2, <1>2
<1> HIDE DEF p
<1>8. \A i, j \in DOMAIN p : f[i] = f[j] => i = j
  BY <1>2, <1>4, <1>5
<1>9. f \in [DOMAIN p -> DOMAIN q]
  BY <1>7
<1> HIDE DEF f
<1>10. SoundQueue(s, p, new) /\ Ids(ToSet(p)) \subseteq Ids(ToSet(q))
  BY <1>4, <1>6, <1>7, <1>8, <1>9, PartIsSound
<1> QED BY <1>10 DEF p

(* The entry at i taken out.                                               *)
LEMMA RemoveAtFacts ==
  ASSUME NEW q \in Seq(Entry), NEW i \in 1..Len(q)
  PROVE  /\ RemoveAt(q, i) \in Seq(Entry) /\ Len(RemoveAt(q, i)) = Len(q) - 1
         /\ \A k \in 1..Len(q) - 1 : RemoveAt(q, i)[k] = IF k < i THEN q[k] ELSE q[k + 1]
<1> DEFINE a == SubSeq(q, 1, i - 1)
           b == SubSeq(q, i + 1, Len(q))
<1>0. Len(q) \in Nat /\ i \in 1..Len(q)
  BY LenProperties
<1>1. \A k \in 1..Len(q) : q[k] \in Entry
  BY LenProperties
<1>2. /\ a \in Seq(Entry) /\ Len(a) = i - 1
      /\ \A k \in 1..(i - 1) : a[k] = q[k]
  <2>1. \A k \in 1..i - 1 : q[k] \in Entry
    BY <1>0, <1>1
  <2>2. /\ a \in Seq(Entry) /\ Len(a) = IF 1 <= i - 1 THEN i - 1 - 1 + 1 ELSE 0
        /\ \A k \in 1..(i - 1 - 1 + 1) : a[k] = q[1 + k - 1]
    BY <1>0, <2>1, SubSeqProperties
  <2> QED BY <1>0, <2>2
<1>3. /\ b \in Seq(Entry) /\ Len(b) = Len(q) - i
      /\ \A k \in 1..(Len(q) - i) : b[k] = q[i + k]
  <2>1. \A k \in i + 1..Len(q) : q[k] \in Entry
    BY <1>0, <1>1
  <2>2. /\ b \in Seq(Entry) /\ Len(b) = IF i + 1 <= Len(q) THEN Len(q) - (i + 1) + 1 ELSE 0
        /\ \A k \in 1..(Len(q) - (i + 1) + 1) : b[k] = q[(i + 1) + k - 1]
    BY <1>0, <2>1, SubSeqProperties
  <2> HIDE DEF b
  <2>3. Len(b) = Len(q) - i
    BY <1>0, <2>2
  <2>4. ASSUME NEW k \in 1..(Len(q) - i) PROVE b[k] = q[i + k]
    <3>1. k \in 1..(Len(q) - (i + 1) + 1) /\ (i + 1) + k - 1 = i + k
      BY <1>0
    <3>2. b[k] = q[(i + 1) + k - 1]
      BY <2>2, <3>1
    <3> QED BY <3>1, <3>2
  <2> QED BY <2>2, <2>3, <2>4
<1> HIDE DEF a, b
<1>4. /\ a \o b \in Seq(Entry) /\ Len(a \o b) = Len(a) + Len(b)
      /\ \A k \in 1..Len(a) + Len(b) : (a \o b)[k] = IF k <= Len(a) THEN a[k] ELSE b[k - Len(a)]
  BY <1>2, <1>3, ConcatProperties
<1>5. Len(a \o b) = Len(q) - 1
  BY <1>1, <1>2, <1>3, <1>4
<1>6. ASSUME NEW k \in 1..Len(q) - 1
      PROVE  (a \o b)[k] = IF k < i THEN q[k] ELSE q[k + 1]
  <2>1. (a \o b)[k] = IF k <= i - 1 THEN a[k] ELSE b[k - (i - 1)]
    BY <1>1, <1>2, <1>3, <1>4
  <2>2. CASE k < i
    BY <1>1, <1>2, <2>1, <2>2
  <2>3. CASE ~(k < i)
    <3>1. k - (i - 1) \in 1..(Len(q) - i) /\ i + (k - (i - 1)) = k + 1
      BY <1>1, <2>3
    <3> QED BY <1>1, <1>3, <2>1, <2>3, <3>1
  <2> QED BY <2>2, <2>3
<1> QED BY <1>4, <1>5, <1>6 DEF a, b, RemoveAt

LEMMA RemoveIsSound ==
  ASSUME NEW new, NEW s, NEW q, SoundQueue(s, q, new), NEW i \in 1..Len(q)
  PROVE  /\ SoundQueue(s, RemoveAt(q, i), new)
         /\ Ids(ToSet(RemoveAt(q, i))) \subseteq Ids(ToSet(q))
<1> DEFINE p == RemoveAt(q, i)
<1>1. q \in Seq(Entry) /\ Len(q) <= MaxPending
  BY DEF SoundQueue
<1>2. Len(q) \in Nat /\ DOMAIN q = 1..Len(q) /\ MaxPending \in Nat
  BY <1>1, LenProperties, QueueAssumption
<1>3. /\ p \in Seq(Entry) /\ Len(p) = Len(q) - 1
      /\ \A k \in 1..Len(q) - 1 : p[k] = IF k < i THEN q[k] ELSE q[k + 1]
  BY <1>1, RemoveAtFacts
<1> HIDE DEF p
<1>4. DOMAIN p = 1..Len(q) - 1
  BY <1>3, LenProperties
<1> DEFINE f == [k \in DOMAIN p |-> IF k < i THEN k ELSE k + 1]
<1>5. ASSUME NEW k \in DOMAIN p PROVE f[k] \in DOMAIN q /\ p[k].id = q[f[k]].id
  <2>1. k \in DOMAIN q /\ k + 1 \in DOMAIN q
    BY <1>2, <1>4
  <2> QED BY <1>3, <1>4, <2>1
<1>6. Len(p) <= MaxPending
  BY <1>1, <1>2, <1>3
<1>7. \A k, j \in DOMAIN p : f[k] = f[j] => k = j
  BY <1>2, <1>4
<1>8. f \in [DOMAIN p -> DOMAIN q]
  BY <1>5
<1> HIDE DEF f
<1>9. p \in Seq(Entry) /\ \A k \in DOMAIN p : p[k].id = q[f[k]].id
  BY <1>3, <1>5
<1>10. SoundQueue(s, p, new) /\ Ids(ToSet(p)) \subseteq Ids(ToSet(q))
  BY <1>6, <1>7, <1>8, <1>9, PartIsSound
<1> QED BY <1>10 DEF p

(* The entry at i moved to the front: the same entries.                    *)
LEMMA PromoteIsSound ==
  ASSUME NEW new, NEW s, NEW q, SoundQueue(s, q, new), NEW i \in 1..Len(q)
  PROVE  LET p == <<q[i]>> \o RemoveAt(q, i)
         IN  SoundQueue(s, p, new) /\ Ids(ToSet(p)) = Ids(ToSet(q))
<1> DEFINE r == RemoveAt(q, i)
           h == <<q[i]>>
           p == h \o r
<1>1. q \in Seq(Entry) /\ Len(q) <= MaxPending
  BY DEF SoundQueue
<1>2. Len(q) \in Nat /\ DOMAIN q = 1..Len(q) /\ MaxPending \in Nat /\ i \in 1..Len(q)
  BY <1>1, LenProperties, QueueAssumption
<1>3. /\ r \in Seq(Entry) /\ Len(r) = Len(q) - 1
      /\ \A k \in 1..Len(q) - 1 : r[k] = IF k < i THEN q[k] ELSE q[k + 1]
  BY <1>1, RemoveAtFacts
<1>4. h \in Seq(Entry) /\ Len(h) = 1 /\ h[1] = q[i]
  BY <1>1, <1>2
<1> HIDE DEF r, h
<1>5. /\ p \in Seq(Entry) /\ Len(p) = Len(h) + Len(r)
      /\ \A k \in 1..Len(h) + Len(r) : p[k] = IF k <= Len(h) THEN h[k] ELSE r[k - Len(h)]
  BY <1>3, <1>4, ConcatProperties
<1> HIDE DEF p
<1>6. Len(p) = Len(q) /\ DOMAIN p = 1..Len(q)
  BY <1>2, <1>3, <1>4, <1>5, LenProperties
<1>7. p[1] = q[i] /\ \A k \in 2..Len(q) : p[k] = r[k - 1]
  BY <1>2, <1>3, <1>4, <1>5
<1> DEFINE f == [k \in DOMAIN p |-> IF k = 1 THEN i ELSE IF k - 1 < i THEN k - 1 ELSE k]
<1>8. ASSUME NEW k \in DOMAIN p PROVE f[k] \in DOMAIN q /\ p[k].id = q[f[k]].id
  <2>1. CASE k = 1
    BY <1>2, <1>7, <2>1
  <2>2. CASE k # 1
    <3>1. k \in 2..Len(q) /\ k - 1 \in 1..Len(q) - 1 /\ (k - 1) + 1 = k /\ k - 1 \in 1..Len(q)
      BY <1>2, <1>6, <2>2
    <3>2. r[k - 1] = IF k - 1 < i THEN q[k - 1] ELSE q[(k - 1) + 1]
      BY <3>1, <1>3
    <3> QED BY <1>2, <1>6, <1>7, <3>1, <3>2
  <2> QED BY <2>1, <2>2
<1>9. ASSUME NEW j \in DOMAIN q PROVE \E k \in DOMAIN p : q[j] = p[k]
  <2>1. CASE j = i
    BY <1>2, <1>6, <1>7, <2>1
  <2>2. CASE j < i
    <3>1. j + 1 \in 2..Len(q) /\ (j + 1) - 1 = j /\ j \in 1..Len(q) - 1
      BY <1>2, <2>2
    <3>2. p[j + 1] = r[j] /\ r[j] = q[j]
      BY <1>3, <1>7, <2>2, <3>1
    <3>3. j + 1 \in DOMAIN p
      BY <1>2, <1>6, <3>1
    <3> QED BY <3>2, <3>3
  <2>3. CASE j > i
    <3>1. j \in 2..Len(q) /\ j - 1 \in 1..Len(q) - 1 /\ (j - 1) + 1 = j /\ ~(j - 1 < i)
      BY <1>2, <2>3
    <3>2. p[j] = r[j - 1]
      BY <1>7, <3>1
    <3>3. r[j - 1] = q[(j - 1) + 1]
      BY <1>3, <3>1
    <3> QED BY <1>2, <1>6, <3>1, <3>2, <3>3
  <2> QED BY <1>2, <2>1, <2>2, <2>3
<1>10. Ids(ToSet(q)) \subseteq Ids(ToSet(p))
  BY <1>9 DEF Ids, ToSet
<1>11. \A k, j \in DOMAIN p : f[k] = f[j] => k = j
  BY <1>2, <1>6
<1>12. f \in [DOMAIN p -> DOMAIN q]
  BY <1>8
<1> HIDE DEF f
<1>13. p \in Seq(Entry) /\ Len(p) <= MaxPending /\ \A k \in DOMAIN p : p[k].id = q[f[k]].id
  BY <1>1, <1>5, <1>6, <1>8
<1>14. SoundQueue(s, p, new) /\ Ids(ToSet(p)) \subseteq Ids(ToSet(q))
  BY <1>11, <1>12, <1>13, PartIsSound
<1> QED BY <1>10, <1>14 DEF p, h, r

-----------------------------------------------------------------------------
(* What is written to the table, and what is loaded again.                 *)

LEMMA QueueIsBounded ==
  ASSUME NEW q \in Seq(Entry)
  PROVE  IsFiniteSet(ToSet(q)) /\ Cardinality(ToSet(q)) <= Len(q)
<1>1. Len(q) \in Nat /\ DOMAIN q = 1..Len(q) /\ q \in [1..Len(q) -> Entry]
  BY LenProperties
<1>2. q \in Surjection(1..Len(q), ToSet(q))
  BY <1>1 DEF Surjection, ToSet
<1>3. IsFiniteSet(1..Len(q)) /\ Cardinality(1..Len(q)) = Len(q)
  BY <1>1, FS_Interval
<1> QED BY <1>2, <1>3, FS_Surjection

(* The table never holds more of a session than its queue may hold.        *)
LEMMA EntriesAreSound ==
  ASSUME NEW new, NEW q, Sound(q, new)
  PROVE  SoundEntries(Entries(q), new)
<1>1. ASSUME NEW e \in Entries(q)
      PROVE  \E s \in Sessions : /\ e \in ToSet(q[s]) /\ SessionOf[e.id] = s
                                /\ e \in Entry /\ e.id \notin new
  <2>1. PICK s \in Sessions : e \in ToSet(q[s])
    BY DEF Entries
  <2>2. PICK i \in DOMAIN q[s] : e = q[s][i]
    BY <2>1 DEF ToSet
  <2>3. SoundQueue(s, q[s], new)
    BY DEF Sound
  <2>4. e \in Entry
    BY <2>2, <2>3, LenProperties DEF SoundQueue
  <2> QED BY <2>1, <2>2, <2>3, <2>4 DEF SoundQueue
<1>2. ASSUME NEW d \in Entries(q), NEW e \in Entries(q), d.id = e.id PROVE d = e
  <2>1. PICK s \in Sessions : d \in ToSet(q[s]) /\ e \in ToSet(q[s])
    BY <1>1, <1>2
  <2>2. PICK i \in DOMAIN q[s], j \in DOMAIN q[s] : d = q[s][i] /\ e = q[s][j]
    BY <2>1 DEF ToSet
  <2> QED BY <1>2, <2>2 DEF Sound, SoundQueue
<1>3. ASSUME NEW s \in Sessions
      PROVE  IsFiniteSet(OfSession(Entries(q), s)) /\ Cardinality(OfSession(Entries(q), s)) <= MaxPending
  <2>1. OfSession(Entries(q), s) = ToSet(q[s])
    <3>1. OfSession(Entries(q), s) \subseteq ToSet(q[s])
      BY <1>1 DEF OfSession
    <3>2. ToSet(q[s]) \subseteq OfSession(Entries(q), s)
      BY DEF OfSession, Entries, ToSet, Sound, SoundQueue
    <3> QED BY <3>1, <3>2
  <2>2. q[s] \in Seq(Entry) /\ Len(q[s]) <= MaxPending
    BY DEF Sound, SoundQueue
  <2>3. IsFiniteSet(ToSet(q[s])) /\ Cardinality(ToSet(q[s])) <= Len(q[s])
    BY <2>2, QueueIsBounded
  <2>4. Cardinality(ToSet(q[s])) \in Nat /\ Len(q[s]) \in Nat /\ MaxPending \in Nat
    BY <2>2, <2>3, FS_CardinalityType, LenProperties, QueueAssumption
  <2> QED BY <2>1, <2>2, <2>3, <2>4
<1> QED BY <1>1, <1>2, <1>3 DEF SoundEntries

LEMMA EmptyIsSound ==
  ASSUME NEW new
  PROVE  Sound(Empty, new) /\ Entries(Empty) = {}
<1>1. Empty \in Queues
  BY EmptySeq DEF Empty, Queues
<1>2. \A s \in Sessions : Empty[s] = <<>>
  BY DEF Empty
<1>3. ASSUME NEW s \in Sessions PROVE SoundQueue(s, <<>>, new)
  BY EmptySeq, QueueAssumption DEF SoundQueue
<1>4. Entries(Empty) = {}
  BY <1>2 DEF Entries, ToSet
<1> QED BY <1>1, <1>2, <1>3, <1>4 DEF Sound

(* An order of entries within the limits is a queue within the limits.     *)
LEMMA OrderIsSound ==
  ASSUME NEW new, NEW s \in Sessions, NEW S \in SUBSET Entry,
         IsFiniteSet(S), Cardinality(S) <= MaxPending,
         \A e \in S : SessionOf[e.id] = s /\ e.id \notin new,
         \A d, e \in S : d.id = e.id => d = e,
         NEW q \in SetToSeqs(S)
  PROVE  SoundQueue(s, q, new)
<1>1. Cardinality(S) \in Nat
  BY FS_CardinalityType
<1>2. q \in [1..Cardinality(S) -> S]
  BY DEF SetToSeqs
<1>3. q \in Seq(Entry) /\ Len(q) = Cardinality(S) /\ DOMAIN q = 1..Cardinality(S)
  BY <1>1, <1>2
<1>4. \A i, j \in DOMAIN q : q[i] = q[j] => i = j
  BY <1>3 DEF SetToSeqs
<1> QED BY <1>2, <1>3, <1>4 DEF SoundQueue

LEMMA RowOrdersAreSound ==
  ASSUME NEW new, SoundEntries(rows, new), NEW s \in Sessions, NEW q \in RowOrders(s)
  PROVE  SoundQueue(s, q, new)
<1> DEFINE S == {e \in rows : Fresh(e) /\ SessionOf[e.id] = s}
<1>1. q \in SetToSeqs(S)
  BY DEF RowOrders
<1>2. S \in SUBSET OfSession(rows, s) /\ S \in SUBSET Entry
  BY DEF OfSession, SoundEntries
<1>3. IsFiniteSet(OfSession(rows, s)) /\ Cardinality(OfSession(rows, s)) <= MaxPending
  BY DEF SoundEntries
<1>4. /\ \A e \in S : SessionOf[e.id] = s /\ e.id \notin new
      /\ \A d, e \in S : d.id = e.id => d = e
  BY DEF SoundEntries
<1> HIDE DEF S
<1>5. IsFiniteSet(S) /\ Cardinality(S) <= Cardinality(OfSession(rows, s))
  BY <1>2, <1>3, FS_Subset
<1>6. Cardinality(S) <= MaxPending
  <2>1. Cardinality(S) \in Nat /\ Cardinality(OfSession(rows, s)) \in Nat /\ MaxPending \in Nat
    BY <1>3, <1>5, FS_CardinalityType, QueueAssumption
  <2> QED BY <1>3, <1>5, <2>1
<1> QED BY <1>1, <1>2, <1>4, <1>5, <1>6, OrderIsSound

LEMMA FileOrdersAreSound ==
  ASSUME NEW new, Sound(file, new), NEW s \in Sessions, NEW q \in FileOrders(s)
  PROVE  SoundQueue(s, q, new)
<1> DEFINE fresh == {i \in DOMAIN file[s] : Fresh(file[s][i])}
<1>1. PICK p \in SetToSeqs(fresh) : q = [k \in DOMAIN p |-> file[s][p[k]]]
  BY DEF FileOrders
<1>2. SoundQueue(s, file[s], new) /\ file[s] \in Seq(Entry) /\ Len(file[s]) <= MaxPending
  BY DEF Sound, SoundQueue
<1>3. Len(file[s]) \in Nat /\ DOMAIN file[s] = 1..Len(file[s]) /\ MaxPending \in Nat
  BY <1>2, LenProperties, QueueAssumption
<1>4. fresh \in SUBSET (1..Len(file[s]))
  BY <1>3
<1> HIDE DEF fresh
<1>5. IsFiniteSet(1..Len(file[s])) /\ Cardinality(1..Len(file[s])) = Len(file[s])
  BY <1>3, FS_Interval
<1>6. IsFiniteSet(fresh) /\ Cardinality(fresh) <= Len(file[s])
  BY <1>4, <1>5, FS_Subset
<1>7. Cardinality(fresh) \in Nat
  BY <1>6, FS_CardinalityType
<1>8. p \in [1..Cardinality(fresh) -> fresh]
  BY DEF SetToSeqs
<1>9. q \in [1..Cardinality(fresh) -> Entry]
  BY <1>1, <1>2, <1>3, <1>4, <1>8, LenProperties
<1>10. q \in Seq(Entry) /\ Len(q) = Cardinality(fresh) /\ DOMAIN q = 1..Cardinality(fresh)
  BY <1>7, <1>9
<1>11. Len(q) <= MaxPending
  BY <1>2, <1>3, <1>6, <1>7, <1>10
<1>12. p \in [DOMAIN q -> DOMAIN file[s]] /\ \A i \in DOMAIN q : q[i].id = file[s][p[i]].id
  BY <1>1, <1>3, <1>4, <1>8, <1>10
<1>13. \A i, j \in DOMAIN q : p[i] = p[j] => i = j
  BY <1>10 DEF SetToSeqs
<1> QED BY <1>2, <1>10, <1>11, <1>12, <1>13, PartIsSound

(* What a process starts with keeps the limits.                            *)
LEMMA LoadedIsSound ==
  ASSUME FileSound, RowsSound
  PROVE  /\ \A q \in FromFile : Sound(q, unsent)
         /\ \A q \in FromStore : Sound(q, unsent)
<1>1. ASSUME NEW q, \A s \in Sessions : SoundQueue(s, q[s], unsent),
             q = [s \in Sessions |-> q[s]]
      PROVE  Sound(q, unsent)
  BY <1>1 DEF Sound, Queues, SoundQueue
<1>2. ASSUME NEW q \in FromFile PROVE Sound(q, unsent)
  <2>1. CASE file = Unreadable
    BY <2>1, EmptyIsSound DEF FromFile
  <2>2. CASE file # Unreadable
    <3>1. Sound(file, unsent)
      BY <2>2 DEF FileSound
    <3>2. /\ q = [s \in Sessions |-> q[s]]
          /\ \A s \in Sessions : q[s] \in FileOrders(s)
      BY <2>2 DEF FromFile, PerSession
    <3> QED BY <1>1, <3>1, <3>2, FileOrdersAreSound
  <2> QED BY <2>1, <2>2
<1>3. ASSUME NEW q \in FromStore PROVE Sound(q, unsent)
  <2>1. /\ q = [s \in Sessions |-> q[s]]
        /\ \A s \in Sessions : q[s] \in RowOrders(s)
    BY DEF FromStore, PerSession
  <2>2. SoundEntries(rows, unsent)
    BY DEF RowsSound
  <2> QED BY <1>1, <2>1, <2>2, RowOrdersAreSound
<1> QED BY <1>2, <1>3

-----------------------------------------------------------------------------
(* The invariant, step by step.                                            *)

(* Fewer messages are unsent: what was sound stays so.                     *)
LEMMA SoundStays ==
  ASSUME NEW new, NEW less, less \subseteq new
  PROVE  /\ \A q : Sound(q, new) => Sound(q, less)
         /\ \A entries : SoundEntries(entries, new) => SoundEntries(entries, less)
BY DEF Sound, SoundQueue, SoundEntries

LEMMA InitData == Init => DataInv
<1> SUFFICES ASSUME Init PROVE DataInv
  OBVIOUS
<1> USE DEF Init
<1>1. QueuesSound /\ FileSound /\ \A new : Sound(Empty, new)
  BY EmptyIsSound DEF QueuesSound, FileSound
<1>2. SnapsSound
  <2>1. Empty \in Queues
    BY <1>1 DEF Sound
  <2> QED BY <1>1, <2>1 DEF SnapsSound
<1>3. RowsSound
  <2>1. /\ rows \subseteq Entry /\ \A e \in rows : e.id \in Stored /\ e.id \notin unsent
        /\ \A d, e \in rows : d.id = e.id => d = e
    <3>1. \A e \in rows : \E m \in Stored : e = NewEntry(m, "followup")
      OBVIOUS
    <3>2. \A m \in Messages : NewEntry(m, "followup") \in Entry /\ NewEntry(m, "followup").id = m
      BY DEF NewEntry, Entry
    <3>3. Stored \subseteq Messages
      BY QueueAssumption
    <3> QED BY <3>1, <3>2, <3>3
  <2>2. ASSUME NEW s \in Sessions
        PROVE  IsFiniteSet(OfSession(rows, s)) /\ Cardinality(OfSession(rows, s)) <= MaxPending
    <3> DEFINE kept == {m \in Stored : SessionOf[m] = s}
    <3>1. OfSession(rows, s) = {NewEntry(m, "followup") : m \in kept}
      BY DEF OfSession, NewEntry
    <3>2. IsFiniteSet(kept) /\ Cardinality(kept) <= MaxPending
      BY QueueAssumption
    <3>3. [m \in kept |-> NewEntry(m, "followup")] \in Surjection(kept, OfSession(rows, s))
      BY <3>1 DEF Surjection
    <3> HIDE DEF kept
    <3>4. IsFiniteSet(OfSession(rows, s)) /\ Cardinality(OfSession(rows, s)) <= Cardinality(kept)
      BY <3>2, <3>3, FS_Surjection
    <3>5. Cardinality(OfSession(rows, s)) \in Nat /\ Cardinality(kept) \in Nat /\ MaxPending \in Nat
      BY <3>2, <3>4, FS_CardinalityType, QueueAssumption
    <3> QED BY <3>2, <3>4, <3>5
  <2> QED BY <2>1, <2>2 DEF RowsSound, SoundEntries
<1>4. NotSentYet
  BY DEF NotSentYet
<1>5. Small
  <2>1. MaxClock \in Nat /\ MaxOps \in Nat /\ MaxFaults \in Nat
    BY QueueAssumption
  <2>2. Empty \in Queues
    BY <1>1 DEF Sound
  <2>3. clock \in 0..MaxClock /\ ops \in 0..MaxOps /\ faults \in 0..MaxFaults
    BY <2>1
  <2>4. seen \in Queues /\ flushMu \in Writers \cup {None} /\ restored \subseteq Sessions
    BY <2>2
  <2>5. /\ timerSet \in BOOLEAN /\ synced \in BOOLEAN /\ late \in BOOLEAN
        /\ phase \in {"up", "closing", "closed", "stopped", "crashed"}
        /\ taken \cup missed \cup loaded \subseteq Messages
    OBVIOUS
  <2> QED BY <2>3, <2>4, <2>5 DEF Small
<1>6. RestoredMark /\ SeenAccounted /\ RowsAccounted
  BY DEF RestoredMark, SeenAccounted, RowsAccounted, Running
<1> QED BY <1>1, <1>2, <1>3, <1>4, <1>5, <1>6 DEF DataInv

(* An operation on a queue: the new queue is within the limits, what it    *)
(* lost was taken, and it holds nothing loaded that it did not hold.       *)
LEMMA ChangeIsSound ==
  ASSUME DataInv, NEW s \in Sessions, NEW q, Change(s, q),
         SoundQueue(s, q, unsent'), unsent' \subseteq unsent,
         taken \subseteq taken', taken' \subseteq Messages,
         Ids(ToSet(queues[s])) \subseteq taken' \cup Ids(ToSet(q)),
         Ids(ToSet(q)) \cap loaded \subseteq Ids(ToSet(queues[s]))
  PROVE  DataInv'
<1> USE DEF Change, diskVars
<1>1. Sound(queues, unsent) /\ queues \in Queues /\ NotSentYet /\ Small
  BY DEF DataInv, QueuesSound, Sound
<1>2. queues'[s] = q /\ \A x \in Sessions : x # s => queues'[x] = queues[x]
  BY <1>1 DEF Queues
<1>3. QueuesSound'
  <2>1. Sound(queues, unsent')
    BY <1>1, SoundStays
  <2>2. queues' \in Queues
    BY <1>1 DEF Queues, SoundQueue
  <2>3. \A x \in Sessions : SoundQueue(x, queues'[x], unsent')
    BY <1>2, <2>1 DEF Sound
  <2> QED BY <2>2, <2>3 DEF QueuesSound, Sound
<1>4. SnapsSound' /\ FileSound' /\ RowsSound'
  BY SoundStays DEF DataInv, SnapsSound, FileSound, RowsSound
<1>5. NotSentYet'
  BY <1>1 DEF NotSentYet
<1>6. Small'
  <2>1. ops' \in 0..MaxOps
    BY <1>1, QueueAssumption DEF Small
  <2>2. late' \in BOOLEAN /\ restored' \subseteq Sessions
    BY <1>1 DEF Small
  <2> QED BY <1>1, <2>1, <2>2 DEF Small
<1>7. RestoredMark'
  <2>1. ASSUME NEW x \in Sessions, x \in restored' PROVE queues'[x] # <<>>
    BY <1>2, <2>1 DEF DataInv, RestoredMark
  <2>2. ASSUME NEW x \in Sessions, Ids(ToSet(queues'[x])) \cap (loaded \ taken') # {}
        PROVE  x \in restored'
    <3>1. CASE x # s
      BY <1>2, <2>2, <3>1 DEF DataInv, RestoredMark, Running
    <3>2. CASE x = s
      <4>1. q # <<>>
        BY <1>2, <2>2, <3>2 DEF Ids, ToSet
      <4>2. s \in restored
        BY <1>2, <2>2, <3>2 DEF DataInv, RestoredMark
      <4> QED BY <3>2, <4>1, <4>2
    <3> QED BY <3>1, <3>2
  <2> QED BY <2>1, <2>2 DEF RestoredMark
<1>8. SeenAccounted' /\ RowsAccounted'
  <2>1. Running /\ missed' = missed
    OBVIOUS
  <2>2. ASSUME NEW x \in Ids(Entries(queues)) PROVE x \in taken' \cup Ids(Entries(queues'))
    <3>1. PICK y \in Sessions : x \in Ids(ToSet(queues[y]))
      BY <2>2, IdInEntries
    <3>2. x \in taken' \/ x \in Ids(ToSet(queues'[y]))
      BY <1>2, <3>1
    <3> QED BY <3>2, IdInEntries
  <2>3. SeenAccounted'
    BY <2>1, <2>2 DEF DataInv, SeenAccounted
  <2>4. RowsAccounted'
    BY <2>1 DEF DataInv, RowsAccounted
  <2> QED BY <2>3, <2>4
<1> QED BY <1>3, <1>4, <1>5, <1>6, <1>7, <1>8 DEF DataInv

(* A new message is in nothing that was loaded.                            *)
LEMMA SendIsSound ==
  ASSUME DataInv, NEW m \in Messages, Send(m)
  PROVE  DataInv'
<1> DEFINE s == SessionOf[m]
           n == Len(queues[s])
<1>1. s \in Sessions
  BY QueueAssumption
<1>2. SoundQueue(s, queues[s], unsent) /\ queues[s] \in Seq(Entry) /\ n <= MaxPending
  BY <1>1 DEF DataInv, QueuesSound, Sound, SoundQueue
<1>3. n \in Nat /\ MaxPending \in Nat /\ DOMAIN queues[s] = 1..n
  BY <1>2, LenProperties, QueueAssumption
<1>4. clock \in Nat /\ taken \subseteq Messages /\ unsent \subseteq Messages /\ loaded \cap unsent = {}
  BY QueueAssumption DEF DataInv, Small, NotSentYet
<1> HIDE DEF s, n
<1>5. ASSUME NEW kind \in {"followup", "inject"}, AppendNew(m, kind) PROVE DataInv'
  <2> DEFINE e == NewEntry(m, kind)
             q == Append(queues[s], e)
  <2>1. e \in Entry /\ e.id = m
    BY <1>4 DEF NewEntry, Entry
  <2>2. /\ m \in unsent /\ n < MaxPending /\ Change(s, q)
        /\ unsent' = unsent \ {m} /\ taken' = taken
    BY <1>5 DEF AppendNew, s, n
  <2> HIDE DEF e
  <2>3. /\ q \in Seq(Entry) /\ Len(q) = n + 1 /\ q[n + 1] = e
        /\ \A i \in 1..n : q[i] = queues[s][i]
    BY <1>2, <2>1, AppendProperties DEF n
  <2>4. DOMAIN q = 1..n + 1
    BY <2>3, LenProperties
  <2> HIDE DEF q
  <2>5. SoundQueue(s, q, unsent')
    <3>1. Len(q) <= MaxPending
      BY <1>3, <2>2, <2>3
    <3>2. ASSUME NEW i \in DOMAIN q PROVE SessionOf[q[i].id] = s /\ q[i].id \notin unsent'
      <4>1. CASE i = n + 1
        BY <2>1, <2>2, <2>3, <4>1 DEF s
      <4>2. CASE i \in 1..n
        BY <1>2, <1>3, <2>2, <2>3, <4>2 DEF SoundQueue
      <4> QED BY <1>3, <2>4, <4>1, <4>2
    <3>3. ASSUME NEW i \in DOMAIN q, NEW j \in DOMAIN q, q[i].id = q[j].id PROVE i = j
      <4>1. \A k \in 1..n : q[k].id # m
        BY <1>2, <1>3, <2>2, <2>3 DEF SoundQueue
      <4>2. CASE i \in 1..n /\ j \in 1..n
        BY <1>2, <1>3, <2>3, <3>3, <4>2 DEF SoundQueue
      <4>3. CASE i = n + 1 \/ j = n + 1
        BY <1>3, <2>1, <2>3, <2>4, <3>3, <4>1, <4>3
      <4> QED BY <1>3, <2>4, <4>2, <4>3
    <3> QED BY <2>3, <3>1, <3>2, <3>3 DEF SoundQueue
  <2>6. Ids(ToSet(queues[s])) \subseteq Ids(ToSet(q))
    <3>1. \A i \in DOMAIN queues[s] : i \in DOMAIN q /\ q[i].id = queues[s][i].id
      BY <1>3, <2>3, <2>4
    <3> QED BY <3>1, IdInQueue
  <2>7. ASSUME NEW x \in Ids(ToSet(q)) \cap loaded PROVE x \in Ids(ToSet(queues[s]))
    <3>1. PICK i \in DOMAIN q : q[i].id = x
      BY <2>7, IdInQueue
    <3>2. i # n + 1
      BY <1>4, <2>1, <2>2, <2>3, <2>7, <3>1
    <3>3. i \in 1..n
      BY <1>3, <2>4, <3>2
    <3> QED BY <1>3, <2>3, <3>1, <3>3, IdInQueue
  <2> QED BY <1>1, <1>4, <2>2, <2>5, <2>6, <2>7, ChangeIsSound
<1>6. ASSUME EnqueueFollowup(m) PROVE DataInv'
  <2> DEFINE e == [queues[s][n] EXCEPT !.text = @ \cup {m}, !.kind = "followup"]
             q == [queues[s] EXCEPT ![n] = e]
  <2>1. n \in 1..n
    BY <1>3, <1>6 DEF EnqueueFollowup, s, n
  <2>2. queues[s][n] \in Entry
    BY <1>2, <2>1, ElementOfSeq DEF n
  <2>3. e \in Entry /\ e.id = queues[s][n].id
    BY <2>2 DEF Entry
  <2>4. /\ Change(s, q)
        /\ unsent' = unsent \ {m} /\ taken' = taken
    BY <1>3, <2>1, <2>2, <1>6 DEF EnqueueFollowup, s, n, Entry
  <2> HIDE DEF e
  <2>5. /\ q \in Seq(Entry) /\ Len(q) = n
        /\ \A i \in 1..n : q[i] = IF i = n THEN e ELSE queues[s][i]
    BY <1>2, <2>1, <2>3, ExceptSeq DEF n
  <2>6. DOMAIN q = 1..n
    BY <2>5, LenProperties
  <2> HIDE DEF q
  <2>7. \A i \in 1..n : q[i].id = queues[s][i].id
    BY <2>3, <2>5
  <2>8. SoundQueue(s, q, unsent')
    BY <1>2, <1>3, <2>4, <2>5, <2>6, <2>7 DEF SoundQueue
  <2>9. Ids(ToSet(queues[s])) = Ids(ToSet(q))
    BY <1>3, <2>6, <2>7, SameIds
  <2> QED BY <1>1, <1>4, <2>4, <2>8, <2>9, ChangeIsSound
<1> QED BY <1>5, <1>6 DEF Send, Enqueue, EnqueueInject

(* What leaves a queue is taken.                                           *)
LEMMA ShrinkIsSound ==
  ASSUME DataInv, NEW s \in Sessions, NEW q, Shrink(s, q),
         SoundQueue(s, q, unsent), Ids(ToSet(q)) \subseteq Ids(ToSet(queues[s]))
  PROVE  DataInv'
<1>1. /\ Change(s, q) /\ unsent' = unsent
      /\ taken' = taken \cup (Ids(ToSet(queues[s])) \ Ids(ToSet(q)))
  BY DEF Shrink
<1>2. Ids(ToSet(queues[s])) \subseteq Messages
  <2>1. queues[s] \in Seq(Entry)
    BY DEF DataInv, QueuesSound, Sound, SoundQueue
  <2>2. \A i \in DOMAIN queues[s] : queues[s][i] \in Entry
    BY <2>1, LenProperties
  <2>3. \A i \in DOMAIN queues[s] : queues[s][i].id \in Messages
    BY <2>2 DEF Entry
  <2> QED BY <2>3, IdInQueue
<1>3. taken' \subseteq Messages
  BY <1>1, <1>2 DEF DataInv, Small
<1> QED BY <1>1, <1>3, ChangeIsSound

LEMMA TakeIsSound ==
  ASSUME DataInv, NEW s \in Sessions, Take(s)
  PROVE  DataInv'
<1> DEFINE q == queues[s]
<1>1. SoundQueue(s, q, unsent) /\ q \in Seq(Entry)
  BY DEF DataInv, QueuesSound, Sound, SoundQueue
<1>2. Len(q) \in Nat /\ DOMAIN q = 1..Len(q)
  BY <1>1, LenProperties
<1>3. SoundQueue(s, <<>>, unsent) /\ Ids(ToSet(<<>>)) \subseteq Ids(ToSet(q))
  <2>1. SubSeq(q, Len(q) + 1, Len(q)) = <<>>
    BY <1>2, SubSeqEmpty
  <2>2. Len(q) + 1 \in 1..Len(q) + 1
    BY <1>2
  <2> QED BY <1>1, <2>1, <2>2, SuffixIsSound
<1>4. CASE FlushLeadingInjects(s) \/ FlushSession(s)
  BY <1>3, <1>4, ShrinkIsSound DEF FlushLeadingInjects, FlushSession
<1>5. CASE DequeueLeadingInjects(s)
  <2> DEFINE others == {i \in 1..Len(q) : ~IsInject(q[i])}
  <2>1. CASE others = {}
    <3>1. SelectInSeq(q, LAMBDA e : ~IsInject(e)) = 0
      BY <2>1 DEF SelectInSeq
    <3>2. Shrink(s, <<>>)
      BY <1>5, <3>1 DEF DequeueLeadingInjects
    <3> QED BY <1>3, <3>2, ShrinkIsSound
  <2>2. CASE others # {}
    <3> DEFINE n == SelectInSeq(q, LAMBDA e : ~IsInject(e))
    <3>1. n = Min(others)
      BY <2>2 DEF SelectInSeq
    <3>2. \E x \in others : \A y \in others : x <= y
      <4>1. others \subseteq Nat
        BY <1>2
      <4>2. PICK x \in others : \A y \in others : ~(<<y, x>> \in OpToRel(<, Nat))
        <5> HIDE DEF others
        <5> QED BY <2>2, <4>1, NatLessThanWellFounded, WFMin
      <4>3. \A y \in others : ~(y < x)
        BY <4>1, <4>2 DEF OpToRel
      <4> QED BY <4>1, <4>3
    <3>3. n \in others
      <4> HIDE DEF others
      <4> QED BY <3>1, <3>2 DEF Min
    <3>4. n \in 1..Len(q) + 1 /\ n # 0
      BY <1>2, <3>3
    <3>5. Shrink(s, SubSeq(q, n, Len(q)))
      BY <1>5, <3>4 DEF DequeueLeadingInjects
    <3> HIDE DEF n, q
    <3> QED BY <1>1, <3>4, <3>5, SuffixIsSound, ShrinkIsSound DEF q
  <2> QED BY <2>1, <2>2
<1>6. CASE Dequeue(s)
  <2>1. q # <<>> /\ Shrink(s, Tail(q))
    BY <1>6 DEF Dequeue
  <2>2. Tail(q) = SubSeq(q, 2, Len(q))
    BY <1>1, <2>1, TailIsSubSeq
  <2>3. 2 \in 1..Len(q) + 1
    BY <1>1, <1>2, <2>1, EmptySeq
  <2> QED BY <1>1, <2>1, <2>2, <2>3, SuffixIsSound, ShrinkIsSound
<1>7. CASE RemoveEntry(s)
  <2>1. PICK i \in 1..Len(q) : Shrink(s, RemoveAt(q, i))
    BY <1>2, <1>7 DEF RemoveEntry
  <2> QED BY <1>1, <2>1, RemoveIsSound, ShrinkIsSound
<1> QED BY <1>4, <1>5, <1>6, <1>7 DEF Take

LEMMA EditIsSound ==
  ASSUME DataInv, NEW s \in Sessions, Edit(s)
  PROVE  DataInv'
<1> DEFINE q == queues[s]
<1>1. SoundQueue(s, q, unsent) /\ q \in Seq(Entry) /\ taken \subseteq Messages
  BY DEF DataInv, QueuesSound, Sound, SoundQueue, Small
<1>2. Len(q) \in Nat /\ DOMAIN q = 1..Len(q)
  BY <1>1, LenProperties
<1>3. CASE Update(s)
  <2>1. PICK i \in DOMAIN q : Rearrange(s, [q EXCEPT ![i].text = {Edited}])
    BY <1>3 DEF Update
  <2> DEFINE e == [q[i] EXCEPT !.text = {Edited}]
             p == [q EXCEPT ![i] = e]
  <2>2. i \in 1..Len(q) /\ q[i] \in Entry
    BY <1>1, <1>2, ElementOfSeq
  <2>3. e \in Entry /\ e.id = q[i].id
    BY <2>2 DEF Entry
  <2>4. Change(s, p) /\ unsent' = unsent /\ taken' = taken
    BY <2>1 DEF Rearrange
  <2> HIDE DEF e
  <2>5. /\ p \in Seq(Entry) /\ Len(p) = Len(q)
        /\ \A k \in 1..Len(q) : p[k] = IF k = i THEN e ELSE q[k]
    BY <1>1, <2>2, <2>3, ExceptSeq
  <2>6. DOMAIN p = 1..Len(q)
    BY <2>5, LenProperties
  <2> HIDE DEF p
  <2>7. \A k \in 1..Len(q) : p[k].id = q[k].id
    BY <2>3, <2>5
  <2>8. SoundQueue(s, p, unsent)
    BY <1>1, <1>2, <2>5, <2>6, <2>7 DEF SoundQueue
  <2>9. Ids(ToSet(q)) = Ids(ToSet(p))
    BY <1>2, <2>6, <2>7, SameIds
  <2> QED BY <1>1, <2>4, <2>8, <2>9, ChangeIsSound
<1>4. CASE PromoteToFront(s)
  <2>1. PICK i \in 1..Len(q) : Rearrange(s, <<q[i]>> \o RemoveAt(q, i))
    BY <1>2, <1>4 DEF PromoteToFront
  <2> DEFINE p == <<q[i]>> \o RemoveAt(q, i)
  <2>2. Change(s, p) /\ unsent' = unsent /\ taken' = taken
    BY <2>1 DEF Rearrange
  <2>3. SoundQueue(s, p, unsent) /\ Ids(ToSet(p)) = Ids(ToSet(q))
    BY <1>1, PromoteIsSound
  <2> HIDE DEF p
  <2> QED BY <1>1, <2>2, <2>3, ChangeIsSound
<1> QED BY <1>3, <1>4 DEF Edit

(* Steps of the timer and of the lock hold no entries.                     *)
LEMMA TimerIsSound ==
  ASSUME DataInv, SchedulePersist \/ (\E w \in Flushers : Fire(w)) \/ \E w \in Writers : BeginFlush(w)
  PROVE  DataInv'
<1>1. /\ UNCHANGED <<memVars, diskVars, snap, phase, clock, ops, faults, histVars>>
      /\ timerSet' \in {TRUE, FALSE, timerSet} /\ flushMu' \in {flushMu} \cup Writers
  BY DEF SchedulePersist, Fire, BeginFlush
<1> USE <1>1 DEF memVars, diskVars, histVars
<1>2. QueuesSound' /\ SnapsSound' /\ FileSound' /\ RowsSound' /\ NotSentYet'
  BY DEF DataInv, QueuesSound, SnapsSound, FileSound, RowsSound, NotSentYet
<1>3. Small'
  BY DEF DataInv, Small
<1>4. RestoredMark' /\ SeenAccounted' /\ RowsAccounted'
  BY DEF DataInv, RestoredMark, SeenAccounted, RowsAccounted, Running
<1> QED BY <1>2, <1>3, <1>4 DEF DataInv

(* The snapshot of one writer replaced by a sound one.                     *)
LEMMA SnapIsSound ==
  ASSUME SnapsSound, unsent' = unsent, NEW w \in Writers \cup {Ticker},
         NEW q, Sound(q, unsent), snap' = [snap EXCEPT ![w] = q]
  PROVE  SnapsSound'
<1>1. q \in Queues
  BY DEF Sound
<1>2. snap' \in [Writers \cup {Ticker} -> Queues]
  BY <1>1 DEF SnapsSound
<1>3. \A x \in Writers \cup {Ticker} : snap'[x] = IF x = w THEN q ELSE snap[x]
  BY DEF SnapsSound
<1> QED BY <1>2, <1>3 DEF SnapsSound

(* A snapshot for the store is memory as it is.                            *)
LEMMA TakeSnapshotIsSound ==
  ASSUME DataInv, NEW w \in Writers, TakeSnapshot(w)
  PROVE  DataInv'
<1> USE DEF TakeSnapshot, memVars, diskVars
<1>1. QueuesSound' /\ FileSound' /\ RowsSound' /\ NotSentYet'
  BY DEF DataInv, QueuesSound, FileSound, RowsSound, NotSentYet
<1>2. SnapsSound'
  BY SnapIsSound DEF DataInv, QueuesSound
<1>3. Small'
  BY DEF DataInv, Small, QueuesSound, Sound
<1>4. RestoredMark'
  BY DEF DataInv, RestoredMark, Running
<1>5. SeenAccounted' /\ RowsAccounted'
  BY DEF DataInv, SeenAccounted, RowsAccounted, Running
<1> QED BY <1>1, <1>2, <1>3, <1>4, <1>5 DEF DataInv

(* The snapshot that replaces the table is the last one: a row it misses   *)
(* was taken, or was never here.                                           *)
LEMMA ReplaceRowsIsSound ==
  ASSUME DataInv, SnapshotIsLast, NEW w \in Writers, ReplaceRows(w)
  PROVE  DataInv'
<1> USE DEF ReplaceRows, memVars
<1>1. wpc[w] = "replace" /\ snap[w] = seen
  BY DEF SnapshotIsLast
<1>2. rows' \in {rows, Entries(seen)}
  BY <1>1
<1>3. QueuesSound' /\ FileSound' /\ NotSentYet'
  BY DEF DataInv, QueuesSound, FileSound, NotSentYet
<1>4. SnapsSound'
  BY SnapIsSound, EmptyIsSound DEF DataInv
<1>5. RowsSound'
  <2>1. Sound(seen, unsent)
    BY <1>1 DEF DataInv, SnapsSound
  <2>2. SoundEntries(Entries(seen), unsent) /\ SoundEntries(rows, unsent)
    BY <2>1, EntriesAreSound DEF DataInv, RowsSound
  <2>3. SoundEntries(rows', unsent)
    BY <1>2, <2>2
  <2> QED BY <2>3 DEF RowsSound
<1>6. Small'
  <2>1. faults' \in 0..MaxFaults
    <3>1. faults \in 0..MaxFaults /\ MaxFaults \in Nat
      BY QueueAssumption DEF DataInv, Small
    <3> QED BY <3>1 DEF Fault
  <2>2. synced' \in BOOLEAN
    BY DEF DataInv, Small
  <2> QED BY <2>1, <2>2 DEF DataInv, Small
<1>7. RestoredMark' /\ SeenAccounted'
  BY DEF DataInv, RestoredMark, SeenAccounted, Running
<1>8. RowsAccounted'
  BY <1>2 DEF DataInv, RowsAccounted, Running
<1> QED BY <1>3, <1>4, <1>5, <1>6, <1>7, <1>8 DEF DataInv

LEMMA TakeFileSnapshotIsSound ==
  ASSUME DataInv, NEW w \in Writers \cup {Ticker}, TakeFileSnapshot(w)
  PROVE  DataInv'
<1> USE DEF TakeFileSnapshot, memVars, diskVars, histVars
<1>1. QueuesSound' /\ FileSound' /\ RowsSound' /\ NotSentYet'
  BY DEF DataInv, QueuesSound, FileSound, RowsSound, NotSentYet
<1>2. SnapsSound'
  BY SnapIsSound DEF DataInv, QueuesSound
<1>3. Small'
  BY DEF DataInv, Small
<1>4. RestoredMark' /\ SeenAccounted' /\ RowsAccounted'
  BY DEF DataInv, RestoredMark, SeenAccounted, RowsAccounted, Running
<1> QED BY <1>1, <1>2, <1>3, <1>4 DEF DataInv

(* Two writers of the file may spoil it, but never leave a queue in it     *)
(* that was not in memory.                                                 *)
LEMMA SaveFileIsSound ==
  ASSUME DataInv, NEW w \in Writers \cup {Ticker}, SaveFile(w)
  PROVE  DataInv'
<1> USE DEF SaveFile, memVars, histVars
<1>1. file' \in {snap[w], Unreadable, file}
  OBVIOUS
<1>2. QueuesSound' /\ RowsSound' /\ NotSentYet'
  BY DEF DataInv, QueuesSound, RowsSound, NotSentYet
<1>3. FileSound'
  BY <1>1 DEF DataInv, SnapsSound, FileSound
<1>4. SnapsSound'
  BY SnapIsSound, EmptyIsSound DEF DataInv
<1>5. Small'
  <2>1. faults' \in 0..MaxFaults
    <3>1. faults \in 0..MaxFaults /\ MaxFaults \in Nat
      BY QueueAssumption DEF DataInv, Small
    <3> QED BY <3>1 DEF Fault
  <2>2. flushMu' \in Writers \cup {None}
    BY DEF DataInv, Small
  <2> QED BY <2>1, <2>2 DEF DataInv, Small
<1>6. RestoredMark' /\ SeenAccounted' /\ RowsAccounted'
  BY DEF DataInv, RestoredMark, SeenAccounted, RowsAccounted, Running
<1> QED BY <1>2, <1>3, <1>4, <1>5, <1>6 DEF DataInv

LEMMA CloseIsSound ==
  ASSUME DataInv, Close
  PROVE  DataInv'
<1> USE DEF Close, memVars, diskVars, histVars
<1>1. QueuesSound' /\ SnapsSound' /\ FileSound' /\ RowsSound' /\ NotSentYet'
  BY DEF DataInv, QueuesSound, SnapsSound, FileSound, RowsSound, NotSentYet
<1>2. Small'
  <2>1. faults' \in 0..MaxFaults
    <3>1. faults \in 0..MaxFaults /\ MaxFaults \in Nat
      BY QueueAssumption DEF DataInv, Small
    <3> QED BY <3>1 DEF Fault
  <2> QED BY <2>1 DEF DataInv, Small
<1>3. RestoredMark' /\ SeenAccounted' /\ RowsAccounted'
  BY DEF DataInv, RestoredMark, SeenAccounted, RowsAccounted, Running
<1> QED BY <1>1, <1>2, <1>3 DEF DataInv

(* The end of the process: the snapshots go, the table and the file stay.  *)
LEMMA EndIsSound ==
  ASSUME DataInv, NEW p \in {"closed", "stopped", "crashed"}, End(p),
         faults' = faults \/ Fault
  PROVE  DataInv'
<1> USE DEF End, memVars, diskVars, histVars
<1>1. QueuesSound' /\ FileSound' /\ RowsSound' /\ NotSentYet'
  BY DEF DataInv, QueuesSound, FileSound, RowsSound, NotSentYet
<1>2. SnapsSound'
  <2>1. Sound(Empty, unsent) /\ Empty \in Queues
    BY EmptyIsSound DEF Sound
  <2>2. DOMAIN snap = Writers \cup {Ticker}
    BY DEF DataInv, SnapsSound
  <2> QED BY <2>1, <2>2 DEF SnapsSound
<1>3. Small'
  <2>1. faults' \in 0..MaxFaults
    <3>1. faults \in 0..MaxFaults /\ MaxFaults \in Nat
      BY QueueAssumption DEF DataInv, Small
    <3> QED BY <3>1 DEF Fault
  <2> QED BY <2>1 DEF DataInv, Small
<1>4. RestoredMark' /\ SeenAccounted' /\ RowsAccounted'
  BY DEF DataInv, RestoredMark, SeenAccounted, RowsAccounted, Running
<1> QED BY <1>1, <1>2, <1>3, <1>4 DEF DataInv

(* The rows that a process does not load are missed from then on; the rest *)
(* is in memory, and in the last snapshot.                                 *)
LEMMA StartIsSound ==
  ASSUME DataInv, Start
  PROVE  DataInv'
<1> USE DEF Start, flushVars
<1>1. queues' \in FromFile \cup FromStore
  BY DEF LoadFails, LoadRows, Migrate
<1>2. Sound(queues', unsent) /\ unsent' = unsent
  BY <1>1, LoadedIsSound DEF DataInv
<1>3. QueuesSound' /\ SnapsSound'
  BY <1>2 DEF DataInv, QueuesSound, SnapsSound
<1>4. rows' \in {rows, Entries(queues')} /\ file' \in {file, queues'}
  BY DEF LoadFails, LoadRows, Migrate, diskVars
<1>5. FileSound'
  BY <1>2, <1>4 DEF DataInv, FileSound
<1>6. RowsSound'
  <2>1. SoundEntries(Entries(queues'), unsent) /\ SoundEntries(rows, unsent)
    BY <1>2, EntriesAreSound DEF DataInv, RowsSound
  <2>2. SoundEntries(rows', unsent')
    BY <1>2, <1>4, <2>1
  <2> QED BY <2>2 DEF RowsSound
<1>7. /\ loaded' \subseteq Messages /\ loaded' \cap unsent = {}
      /\ missed' \subseteq Messages
  <2>1. SoundEntries(Entries(queues'), unsent) /\ SoundEntries(rows, unsent)
    BY <1>2, EntriesAreSound DEF DataInv, RowsSound
  <2>2. ASSUME NEW r, SoundEntries(r, unsent) PROVE Ids(r) \subseteq Messages /\ Ids(r) \cap unsent = {}
    BY <2>2 DEF SoundEntries, Ids, Entry
  <2> QED BY <2>1, <2>2
<1>8. NotSentYet'
  BY <1>2, <1>7 DEF DataInv, NotSentYet
<1>9. Small'
  <2>1. faults' \in 0..MaxFaults
    <3>1. faults \in 0..MaxFaults /\ MaxFaults \in Nat
      BY QueueAssumption DEF DataInv, Small
    <3>2. faults' = faults \/ Fault
      BY DEF LoadFails, LoadRows, Migrate
    <3> QED BY <3>1, <3>2 DEF Fault
  <2>2. seen' \in Queues
    BY <1>2 DEF Sound
  <2>3. synced' \in BOOLEAN
    BY DEF LoadFails, LoadRows, Migrate
  <2> QED BY <1>7, <2>1, <2>2, <2>3 DEF DataInv, Small
<1>10. RestoredMark'
  <2>1. \A s \in Sessions : queues'[s] = <<>> => Ids(ToSet(queues'[s])) = {}
    BY DEF Ids, ToSet
  <2> QED BY <2>1 DEF RestoredMark
<1>11. SeenAccounted'
  BY DEF SeenAccounted
<1>12. RowsAccounted'
  <2>1. Ids(rows') \subseteq missed' \cup Ids(Entries(queues'))
    BY <1>4
  <2> QED BY <2>1 DEF RowsAccounted
<1> QED BY <1>3, <1>5, <1>6, <1>8, <1>9, <1>10, <1>11, <1>12 DEF DataInv

LEMMA TickIsSound ==
  ASSUME DataInv, Tick
  PROVE  DataInv'
<1> USE DEF Tick, memVars, flushVars, diskVars, histVars
<1>1. QueuesSound' /\ SnapsSound' /\ FileSound' /\ RowsSound' /\ NotSentYet'
  BY DEF DataInv, QueuesSound, SnapsSound, FileSound, RowsSound, NotSentYet
<1>2. Small'
  <2>1. clock \in 0..MaxClock /\ MaxClock \in Nat
    BY QueueAssumption DEF DataInv, Small
  <2>2. clock' \in 0..MaxClock
    BY <2>1
  <2> QED BY <2>2 DEF DataInv, Small
<1>3. RestoredMark' /\ SeenAccounted' /\ RowsAccounted'
  BY DEF DataInv, RestoredMark, SeenAccounted, RowsAccounted, Running
<1> QED BY <1>1, <1>2, <1>3 DEF DataInv

(* What the queues and their copies hold, in every behaviour.              *)
THEOREM DataInvariance == Spec => []DataInv
<1>1. DataInv /\ IInv /\ [Next]_vars => DataInv'
  <2> SUFFICES ASSUME DataInv, IInv, [Next]_vars PROVE DataInv'
    OBVIOUS
  <2>1. ASSUME NEW m \in Messages, Send(m) PROVE DataInv'
    BY <2>1, SendIsSound
  <2>2. ASSUME NEW s \in Sessions, Take(s) \/ Edit(s) PROVE DataInv'
    BY <2>2, TakeIsSound, EditIsSound
  <2>3. CASE SchedulePersist \/ \E w \in Flushers : Fire(w)
    BY <2>3, TimerIsSound
  <2>4. ASSUME NEW w \in Writers, Write(w) PROVE DataInv'
    <3>1. SnapshotIsLast
      BY DEF IInv
    <3> QED BY <2>4, <3>1, TimerIsSound, TakeSnapshotIsSound, ReplaceRowsIsSound,
               TakeFileSnapshotIsSound, SaveFileIsSound DEF Write
  <2>5. CASE TakeFileSnapshot(Ticker) \/ SaveFile(Ticker)
    BY <2>5, TakeFileSnapshotIsSound, SaveFileIsSound
  <2>6. CASE Close
    BY <2>6, CloseIsSound
  <2>7. CASE ExitClosed \/ Stop \/ Crash
    BY <2>7, EndIsSound DEF ExitClosed, Stop, Crash
  <2>8. CASE Start
    BY <2>8, StartIsSound
  <2>9. CASE Tick
    BY <2>9, TickIsSound
  <2>10. CASE UNCHANGED vars
    BY <2>10 DEF vars, memVars, flushVars, diskVars, histVars, DataInv, QueuesSound,
                 SnapsSound, FileSound, RowsSound, NotSentYet, Small, RestoredMark,
                 SeenAccounted, RowsAccounted, Running
  <2> QED
    BY <2>1, <2>2, <2>3, <2>4, <2>5, <2>6, <2>7, <2>8, <2>9, <2>10 DEF Next
<1> QED BY InitData, <1>1, Invariance, PTL DEF Spec

(* Types, and no queue beyond MaxPending, whatever was loaded.             *)
THEOREM TypesHold == Spec => []TypeOK
<1>1. DataInv /\ IInv => TypeOK
  <2> SUFFICES ASSUME DataInv, IInv PROVE TypeOK
    OBVIOUS
  <2>1. /\ queues \in Queues /\ \A s \in Sessions : Len(queues[s]) <= MaxPending
        /\ KeysUnique
    BY DEF DataInv, QueuesSound, Sound, SoundQueue, KeysUnique
  <2>2. arming \in Nat /\ ticking \in Nat
    BY DEF IInv, FlushTypes
  <2>3. wpc \in [Writers \cup {Ticker} -> {"idle", "wait", "store", "replace", "take", "save", "closed"}]
    BY DEF IInv, FlushTypes, Stages, FlushSteps
  <2>4. snap \in [Writers \cup {Ticker} -> Queues] /\ rows \subseteq Entry
    BY DEF DataInv, SnapsSound, RowsSound, SoundEntries
  <2>5. file \in Queues \cup {Unreadable} /\ unsent \subseteq Messages
    BY DEF DataInv, FileSound, Sound, NotSentYet
  <2>6. Small
    BY DEF DataInv
  <2>7. unsent \cup taken \cup missed \cup loaded \subseteq Messages
    BY <2>5, <2>6 DEF Small
  <2> QED BY <2>1, <2>2, <2>3, <2>4, <2>5, <2>6, <2>7 DEF TypeOK, Small
<1> QED BY DataInvariance, Invariance, <1>1, PTL

(* What a writer inserts has one row for each key of the table, so that    *)
(* the transaction of ReplaceAll is never refused for a duplicate.         *)
THEOREM SnapshotsKeepTheKey ==
  Spec => [](\A w \in Writers : \A d, e \in Entries(snap[w]) :
               (SessionOf[d.id] = SessionOf[e.id] /\ d.id = e.id) => d = e)
<1>1. DataInv => \A w \in Writers : \A d, e \in Entries(snap[w]) :
                   (SessionOf[d.id] = SessionOf[e.id] /\ d.id = e.id) => d = e
  <2> SUFFICES ASSUME DataInv, NEW w \in Writers PROVE SoundEntries(Entries(snap[w]), unsent)
    BY DEF SoundEntries
  <2>1. Sound(snap[w], unsent)
    BY DEF DataInv, SnapsSound
  <2> QED BY <2>1, EntriesAreSound
<1> QED BY DataInvariance, <1>1, PTL

(* A session is marked restored as long as it holds anything it was loaded *)
(* with, and not when it holds nothing.                                    *)
THEOREM RestoredMarkHolds == Spec => []RestoredMark
<1>1. DataInv => RestoredMark
  BY DEF DataInv
<1> QED BY DataInvariance, <1>1, PTL

(* No row leaves the table that was not taken, missed at start-up or old.  *)
THEOREM RowsStay == Spec => RowsLeaveOnlyWhenTaken
<1> DEFINE Kept(e) == e.id \notin Ids(rows') => (e.id \in taken \cup missed \/ ~Fresh(e))
<1>1. DataInv /\ IInv /\ [Next]_vars => \A e \in rows : Kept(e)
  <2> SUFFICES ASSUME DataInv, IInv, [Next]_vars, NEW e \in rows, e.id \notin Ids(rows')
               PROVE  e.id \in taken \cup missed \/ ~Fresh(e)
    OBVIOUS
  <2>1. e.id \in Ids(rows) /\ rows' # rows
    BY DEF Ids
  <2>2. (\E w \in Writers : ReplaceRows(w)) \/ Start
    <3>1. ASSUME NEW m \in Messages, Send(m) PROVE FALSE
      BY <2>1, <3>1 DEF Send, Enqueue, EnqueueInject, EnqueueFollowup, AppendNew, Change, diskVars
    <3>2. ASSUME NEW s \in Sessions, Take(s) PROVE FALSE
      BY <2>1, <3>2 DEF Take, FlushLeadingInjects, DequeueLeadingInjects, Dequeue,
                        RemoveEntry, FlushSession, Shrink, Change, diskVars
    <3>3. ASSUME NEW s \in Sessions, Edit(s) PROVE FALSE
      BY <2>1, <3>3 DEF Edit, Update, PromoteToFront, Rearrange, Change, diskVars
    <3>4. ASSUME NEW w \in Writers \cup {Ticker},
                 BeginFlush(w) \/ TakeSnapshot(w) \/ TakeFileSnapshot(w) \/ SaveFile(w)
          PROVE  FALSE
      BY <2>1, <3>4 DEF BeginFlush, TakeSnapshot, TakeFileSnapshot, SaveFile, diskVars
    <3>5. ASSUME SchedulePersist \/ (\E w \in Flushers : Fire(w)) \/ Close \/ ExitClosed \/ Stop
                   \/ Crash \/ Tick \/ UNCHANGED vars
          PROVE  FALSE
      BY <2>1, <3>5 DEF SchedulePersist, Fire, Close, ExitClosed, Stop, Crash, End, Tick, vars, diskVars
    <3> QED BY <3>1, <3>2, <3>3, <3>4, <3>5 DEF Next, Write
  <2>3. ASSUME NEW w \in Writers, ReplaceRows(w) PROVE e.id \in taken \cup missed
    <3>1. snap[w] = seen /\ Running
      BY <2>3 DEF IInv, SnapshotIsLast, ReplaceRows
    <3>2. rows' = Entries(seen)
      BY <2>1, <2>3, <3>1 DEF ReplaceRows
    <3> QED BY <2>1, <3>1, <3>2 DEF DataInv, RowsAccounted
  <2>4. CASE Start
    <3>1. Migrate
      BY <2>1, <2>4 DEF Start, LoadFails, LoadRows, diskVars
    <3> QED BY <3>1 DEF Migrate
  <2> QED BY <2>2, <2>3, <2>4
<1> QED BY DataInvariance, Invariance, <1>1, PTL DEF Spec, RowsLeaveOnlyWhenTaken
=============================================================================
