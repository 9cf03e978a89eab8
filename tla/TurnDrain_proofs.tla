-------------------------- MODULE TurnDrain_proofs --------------------------
(***************************************************************************)
(* For any messages, senders, loops, limits and restored rows: one turn    *)
(* and one loop at a time, and a message is in one place at most, an       *)
(* accepted follow-up in one place exactly.                                *)
(*                                                                         *)
(* The first two are about control (Guarded): the session lock is held     *)
(* from the last look at the slot to the registration (LockHeld), so the   *)
(* slot stays free meanwhile (SlotFree), and a run under way is the one in *)
(* the slot (SlotOwned).  The others follow the messages (Located): what   *)
(* each queue operation takes out or puts in (Splits), that queue, turns   *)
(* and fates are disjoint (Apart), that a message still with its sender is *)
(* nowhere else (Fresh), and that what a refused turn loses is an inject   *)
(* (Loads, Clean): an entry that still is an inject holds no follow-up,    *)
(* because a merge makes it a followup.                                    *)
(*                                                                         *)
(* A Cancel that removes the entry of a run under way ends the second and  *)
(* the third for good (forced); everything else does without them.         *)
(*                                                                         *)
(* Who serves a queue is a third matter (Attended): the flag of            *)
(* pendingLoops is only up for a loop that will look, and a slot that is   *)
(* taken is taken by a run, unless a panic has orphaned it.  With these    *)
(* the steps that leave a queue to itself can be listed (OnlyTheseStrand). *)
(***************************************************************************)
EXTENDS TurnDrain, FiniteSetTheorems, SequenceTheorems, WellFoundedInduction, TLAPS

-----------------------------------------------------------------------------
(* The queue as a sequence of entries.                                     *)

Entries == [id : Messages, msgs : SUBSET Messages, kind : Kinds]

Held(q, x) == \E i \in 1..Len(q) : x \in q[i].msgs

(* No message is in two entries.                                           *)
Once(q) ==
  \A i, j \in 1..Len(q) : \A x : x \in q[i].msgs /\ x \in q[j].msgs => i = j

(* An entry that is still an inject holds no follow-up.                    *)
Clean(q) ==
  \A i \in 1..Len(q) : q[i].kind = "inject" => q[i].msgs \cap Followups = {}

QueueOK(q) == q \in Seq(Entries) /\ Once(q) /\ Clean(q)

(* Every entry of r is one of q.                                           *)
From(r, q) == \A i \in 1..Len(r) : \E j \in 1..Len(q) : r[i] = q[j]

(* q holds what r holds, and the messages of T besides.                    *)
Splits(q, T, r) ==
  /\ \A x : Held(q, x) <=> Held(r, x) \/ x \in T
  /\ \A x \in T : ~Held(r, x)

(* Min is the least element, by the well-foundedness of < on Nat.          *)
LEMMA Smallest ==
  ASSUME NEW n \in Nat, NEW I \in SUBSET (1..n), I # {}
  PROVE  Min(I) \in I /\ \A y \in I : Min(I) <= y
<1>1. PICK x \in I : \A y \in I : ~(<<y, x>> \in OpToRel(<, Nat))
  <2>1. I \subseteq Nat
    OBVIOUS
  <2> QED BY <2>1, NatLessThanWellFounded, WFMin, Zenon
<1>2. \A y \in I : x <= y
  <2>1. ASSUME NEW y \in I, y < x PROVE FALSE
    <3>1. <<y, x>> \in OpToRel(<, Nat)
      BY <2>1 DEF OpToRel
    <3> QED BY <1>1, <3>1
  <2> QED BY <2>1
<1> QED BY <1>2 DEF Min

(* SplitLeadingInjects: what precedes the first followup is injects.       *)
LEMMA FirstFollowupFacts ==
  ASSUME queue \in Seq(Entries)
  PROVE  /\ FirstFollowup \in 0..Len(queue)
         /\ FirstFollowup = 0 => \A i \in 1..Len(queue) : queue[i].kind = "inject"
         /\ \A i \in 1..FirstFollowup - 1 : queue[i].kind = "inject"
<1> DEFINE I == {i \in 1..Len(queue) : Dispatchable(queue[i])}
<1>1. FirstFollowup = IF I # {} THEN Min(I) ELSE 0
  BY DEF FirstFollowup, SelectInSeq
<1>2. Len(queue) \in Nat
  BY LenProperties
<1>3. CASE I = {}
  BY <1>1, <1>2, <1>3 DEF Dispatchable
<1>4. CASE I # {}
  <2>1. Min(I) \in I /\ \A y \in I : Min(I) <= y
    BY <1>2, <1>4, Smallest
  <2>2. FirstFollowup = Min(I)
    BY <1>1, <1>4
  <2> HIDE DEF I
  <2>3. FirstFollowup \in 1..Len(queue) /\ \A y \in I : FirstFollowup <= y
    BY <2>1, <2>2 DEF I
  <2>4. ASSUME NEW i \in 1..FirstFollowup - 1 PROVE queue[i].kind = "inject"
    BY <1>2, <2>3, <2>4 DEF I, Dispatchable
  <2> QED BY <1>2, <2>3, <2>4
<1> QED BY <1>3, <1>4

(* At, when it is not 0, is a position of the queue.                       *)
LEMMA AtFacts ==
  ASSUME queue \in Seq(Entries), NEW m, At(m) # 0
  PROVE  At(m) \in 1..Len(queue)
<1> DEFINE I == {i \in 1..Len(queue) : queue[i].id = m}
<1>1. At(m) = IF I # {} THEN Min(I) ELSE 0
  BY DEF At, SelectInSeq
<1>2. Len(queue) \in Nat
  BY LenProperties
<1>3. I # {}
  BY <1>1
<1>4. Min(I) \in I
  BY <1>2, <1>3, Smallest
<1> QED BY <1>1, <1>3, <1>4

-----------------------------------------------------------------------------
(* What each operation makes of a queue.                                   *)

(* Dequeue and DequeueLeadingInjects: the first n entries go.              *)
LEMMA DropFirst ==
  ASSUME NEW q, QueueOK(q), NEW n \in 0..Len(q)
  PROVE  LET r == SubSeq(q, n + 1, Len(q)) IN
         /\ QueueOK(r)
         /\ Len(r) = Len(q) - n
         /\ Splits(q, UNION {q[i].msgs : i \in 1..n}, r)
<1> DEFINE r == SubSeq(q, n + 1, Len(q))
           T == UNION {q[i].msgs : i \in 1..n}
<1>1. q \in Seq(Entries) /\ Len(q) \in Nat /\ \A i \in 1..Len(q) : q[i] \in Entries
  BY LenProperties, ElementOfSeq DEF QueueOK
<1>2. r \in Seq(Entries)
  <2>1. \A i \in n + 1 .. Len(q) : q[i] \in Entries
    BY <1>1
  <2> QED BY <1>1, <2>1, SubSeqProperties
<1>3. Len(r) = Len(q) - n /\ \A i \in 1..Len(r) : r[i] = q[n + i]
  <2>1. \A i \in n + 1 .. Len(q) : q[i] \in Entries
    BY <1>1
  <2>2. Len(r) = IF n + 1 <= Len(q) THEN Len(q) - (n + 1) + 1 ELSE 0
    BY <1>1, <2>1, SubSeqProperties
  <2>3. \A i \in 1 .. Len(q) - (n + 1) + 1 : r[i] = q[n + 1 + i - 1]
    BY <1>1, <2>1, SubSeqProperties
  <2> QED BY <1>1, <2>2, <2>3
<1> HIDE DEF r
<1>4. Once(r)
  BY <1>1, <1>3 DEF QueueOK, Once
<1>5. Clean(r)
  BY <1>1, <1>3 DEF QueueOK, Clean
<1>6. ASSUME NEW x, Held(r, x) PROVE Held(q, x) /\ x \notin T
  <2>1. PICK i \in 1..Len(r) : x \in r[i].msgs
    BY <1>6 DEF Held
  <2>2. n + i \in 1..Len(q) /\ x \in q[n + i].msgs
    BY <1>1, <1>3, <2>1
  <2>3. \A j \in 1..n : x \notin q[j].msgs
    BY <1>1, <2>2 DEF QueueOK, Once
  <2> QED BY <2>2, <2>3 DEF Held
<1>7. ASSUME NEW x, Held(q, x), x \notin T PROVE Held(r, x)
  <2>1. PICK i \in 1..Len(q) : x \in q[i].msgs
    BY <1>7 DEF Held
  <2>2. i > n
    BY <1>1, <1>7, <2>1
  <2>3. i - n \in 1..Len(r) /\ x \in r[i - n].msgs
    BY <1>1, <1>3, <2>1, <2>2
  <2> QED BY <2>3 DEF Held
<1>8. ASSUME NEW x \in T PROVE Held(q, x)
  BY <1>1, <1>8 DEF Held
<1> QED BY <1>2, <1>3, <1>4, <1>5, <1>6, <1>7, <1>8 DEF QueueOK, Splits, r

(* Dequeue.                                                                *)
LEMMA DropHead ==
  ASSUME NEW q, QueueOK(q), q # <<>>
  PROVE  /\ QueueOK(Tail(q))
         /\ Len(Tail(q)) = Len(q) - 1
         /\ Splits(q, Head(q).msgs, Tail(q))
<1>1. q \in Seq(Entries) /\ Len(q) \in Nat \ {0}
  BY EmptySeq DEF QueueOK
<1>2. Tail(q) = SubSeq(q, 1 + 1, Len(q))
  BY <1>1, TailIsSubSeq
<1>3. Head(q).msgs = UNION {q[i].msgs : i \in 1..1}
  BY <1>1
<1>4. 1 \in 0..Len(q)
  BY <1>1
<1> QED BY <1>2, <1>3, <1>4, DropFirst

(* Remove.                                                                 *)
LEMMA DropAt ==
  ASSUME NEW q, QueueOK(q), NEW k \in 1..Len(q)
  PROVE  /\ QueueOK(RemoveAt(q, k))
         /\ Len(RemoveAt(q, k)) = Len(q) - 1
         /\ Splits(q, q[k].msgs, RemoveAt(q, k))
         /\ From(RemoveAt(q, k), q)
<1> DEFINE r == RemoveAt(q, k)
<1>1. q \in Seq(Entries) /\ Len(q) \in Nat /\ \A i \in 1..Len(q) : q[i] \in Entries
  BY LenProperties, ElementOfSeq DEF QueueOK
<1>2. /\ r \in Seq(Entries) /\ Len(r) = Len(q) - 1
      /\ \A i \in 1..Len(r) : r[i] = IF i < k THEN q[i] ELSE q[i + 1]
  <2> DEFINE a == SubSeq(q, 1, k - 1)
             b == SubSeq(q, k + 1, Len(q))
  <2>1. /\ a \in Seq(Entries) /\ Len(a) = k - 1
        /\ \A i \in 1..k - 1 : a[i] = q[i]
    <3>1. \A i \in 1..k - 1 : q[i] \in Entries
      BY <1>1
    <3>2. /\ a \in Seq(Entries)
          /\ Len(a) = IF 1 <= k - 1 THEN (k - 1) - 1 + 1 ELSE 0
          /\ \A i \in 1..(k - 1) - 1 + 1 : a[i] = q[1 + i - 1]
      BY <1>1, <3>1, SubSeqProperties
    <3> QED BY <1>1, <3>2
  <2>2. /\ b \in Seq(Entries) /\ Len(b) = Len(q) - k
        /\ \A i \in 1..Len(q) - k : b[i] = q[k + i]
    <3>1. \A i \in k + 1..Len(q) : q[i] \in Entries
      BY <1>1
    <3>2. /\ b \in Seq(Entries)
          /\ Len(b) = IF k + 1 <= Len(q) THEN Len(q) - (k + 1) + 1 ELSE 0
          /\ \A i \in 1..Len(q) - (k + 1) + 1 : b[i] = q[k + 1 + i - 1]
      BY <1>1, <3>1, SubSeqProperties
    <3> QED BY <1>1, <3>2
  <2>3. r = a \o b
    BY DEF RemoveAt
  <2> HIDE DEF a, b, r
  <2>4. /\ r \in Seq(Entries) /\ Len(r) = Len(a) + Len(b)
        /\ \A i \in 1..Len(a) + Len(b) : r[i] = IF i <= Len(a) THEN a[i] ELSE b[i - Len(a)]
    BY <2>1, <2>2, <2>3, ConcatProperties
  <2>5. Len(r) = Len(q) - 1
    BY <1>1, <2>1, <2>2, <2>4
  <2>6. ASSUME NEW i \in 1..Len(r), i < k PROVE r[i] = q[i]
    BY <1>1, <2>1, <2>4, <2>5, <2>6
  <2>7. ASSUME NEW i \in 1..Len(r), i >= k PROVE r[i] = q[i + 1]
    <3>1. r[i] = b[i - Len(a)] /\ i - Len(a) = i - k + 1 /\ i - k + 1 \in 1..Len(q) - k
      BY <1>1, <2>1, <2>2, <2>4, <2>5, <2>7
    <3>2. b[i - k + 1] = q[k + (i - k + 1)] /\ k + (i - k + 1) = i + 1
      BY <1>1, <2>2, <3>1
    <3> QED BY <3>1, <3>2
  <2> QED BY <1>1, <2>4, <2>5, <2>6, <2>7
<1> HIDE DEF r
<1>3. Once(r)
  BY <1>1, <1>2 DEF QueueOK, Once
<1>4. Clean(r)
  BY <1>1, <1>2 DEF QueueOK, Clean
<1>5. ASSUME NEW x, Held(r, x) PROVE Held(q, x) /\ x \notin q[k].msgs
  <2>1. PICK i \in 1..Len(r) : x \in r[i].msgs
    BY <1>5 DEF Held
  <2>2. PICK j \in 1..Len(q) : j # k /\ x \in q[j].msgs
    BY <1>1, <1>2, <2>1
  <2> QED BY <1>1, <2>2 DEF QueueOK, Once, Held
<1>6. ASSUME NEW x, Held(q, x), x \notin q[k].msgs PROVE Held(r, x)
  <2>1. PICK i \in 1..Len(q) : x \in q[i].msgs
    BY <1>6 DEF Held
  <2>2. CASE i < k
    BY <1>1, <1>2, <2>1, <2>2 DEF Held
  <2>3. CASE i > k
    <3>1. i - 1 \in 1..Len(r) /\ r[i - 1] = q[i]
      BY <1>1, <1>2, <2>3
    <3> QED BY <2>1, <3>1 DEF Held
  <2> QED BY <1>1, <1>6, <2>1, <2>2, <2>3
<1>7. From(r, q)
  <2> SUFFICES ASSUME NEW i \in 1..Len(r) PROVE \E j \in 1..Len(q) : r[i] = q[j]
    BY DEF From
  <2>1. i \in 1..Len(q) /\ i + 1 \in 1..Len(q)
    BY <1>1, <1>2
  <2> QED BY <1>2, <2>1
<1>8. QueueOK(r) /\ Len(r) = Len(q) - 1 /\ Splits(q, q[k].msgs, r)
  BY <1>1, <1>2, <1>3, <1>4, <1>5, <1>6 DEF QueueOK, Splits, Held
<1> QED BY <1>7, <1>8 DEF r

(* PromoteToFront: the same entries in another order.                      *)
LEMMA ToFront ==
  ASSUME NEW q, QueueOK(q), NEW k \in 1..Len(q)
  PROVE  LET r == <<q[k]>> \o RemoveAt(q, k) IN
         /\ QueueOK(r)
         /\ Len(r) = Len(q)
         /\ Splits(q, {}, r)
         /\ From(r, q)
<1> DEFINE s == RemoveAt(q, k)
           r == <<q[k]>> \o s
<1>1. q \in Seq(Entries) /\ Len(q) \in Nat /\ q[k] \in Entries
  BY LenProperties, ElementOfSeq DEF QueueOK
<1>2. QueueOK(s) /\ Len(s) = Len(q) - 1 /\ Splits(q, q[k].msgs, s) /\ From(s, q)
  BY DropAt
<1>3. s \in Seq(Entries) /\ <<q[k]>> \in Seq(Entries) /\ Len(<<q[k]>>) = 1
  BY <1>1, <1>2 DEF QueueOK
<1> HIDE DEF s
<1>4. /\ r \in Seq(Entries) /\ Len(r) = Len(q)
      /\ \A i \in 1..Len(r) : r[i] = IF i <= 1 THEN q[k] ELSE s[i - 1]
  <2>1. /\ r \in Seq(Entries) /\ Len(r) = Len(<<q[k]>>) + Len(s)
        /\ \A i \in 1..Len(<<q[k]>>) + Len(s) :
             r[i] = IF i <= Len(<<q[k]>>) THEN <<q[k]>>[i] ELSE s[i - Len(<<q[k]>>)]
    BY <1>3, ConcatProperties
  <2> QED BY <1>1, <1>2, <1>3, <2>1
<1> HIDE DEF r
<1>5. \A x : Held(s, x) => x \notin q[k].msgs
  BY <1>2 DEF Splits
<1>6. Once(r)
  <2> SUFFICES ASSUME NEW i \in 1..Len(r), NEW j \in 1..Len(r), NEW x,
                      x \in r[i].msgs, x \in r[j].msgs
               PROVE  i = j
    BY DEF Once
  <2> DEFINE Behind(l) == l - 1 \in 1..Len(s) /\ r[l] = s[l - 1]
  <2>0. \A l \in 1..Len(r) : IF l = 1 THEN r[l] = q[k] ELSE Behind(l)
    BY <1>1, <1>2, <1>4
  <2>1. CASE i = 1 /\ j # 1
    <3>1. Held(s, x) /\ x \in q[k].msgs
      BY <2>0, <2>1 DEF Held
    <3> QED BY <1>5, <3>1
  <2>2. CASE i # 1 /\ j = 1
    <3>1. Held(s, x) /\ x \in q[k].msgs
      BY <2>0, <2>2 DEF Held
    <3> QED BY <1>5, <3>1
  <2>3. CASE i # 1 /\ j # 1
    <3>1. Behind(i) /\ Behind(j)
      BY <2>0, <2>3
    <3>2. i - 1 = j - 1
      BY <1>2, <3>1 DEF QueueOK, Once
    <3> QED BY <1>1, <1>4, <3>2
  <2> QED BY <2>1, <2>2, <2>3
<1>7. Clean(r)
  <2> SUFFICES ASSUME NEW i \in 1..Len(r), r[i].kind = "inject"
               PROVE  r[i].msgs \cap Followups = {}
    BY DEF Clean
  <2>1. CASE i = 1
    BY <1>4, <2>1 DEF QueueOK, Clean
  <2>2. CASE i # 1
    <3>1. i - 1 \in 1..Len(s) /\ r[i] = s[i - 1]
      BY <1>1, <1>2, <1>4, <2>2
    <3> QED BY <1>2, <3>1 DEF QueueOK, Clean
  <2> QED BY <2>1, <2>2
<1>8. \A x : Held(r, x) <=> Held(s, x) \/ x \in q[k].msgs
  <2>1. ASSUME NEW x, Held(r, x) PROVE Held(s, x) \/ x \in q[k].msgs
    <3>1. PICK i \in 1..Len(r) : x \in r[i].msgs
      BY <2>1 DEF Held
    <3>2. CASE i = 1
      BY <1>4, <3>1, <3>2
    <3>3. CASE i # 1
      <4>1. i - 1 \in 1..Len(s) /\ r[i] = s[i - 1]
        BY <1>1, <1>2, <1>4, <3>3
      <4> QED BY <3>1, <4>1 DEF Held
    <3> QED BY <3>2, <3>3
  <2>2. ASSUME NEW x, Held(s, x) PROVE Held(r, x)
    <3>1. PICK i \in 1..Len(s) : x \in s[i].msgs
      BY <2>2 DEF Held
    <3>2. i + 1 \in 1..Len(r) /\ r[i + 1] = s[i]
      BY <1>1, <1>2, <1>4
    <3> QED BY <3>1, <3>2 DEF Held
  <2>3. ASSUME NEW x \in q[k].msgs PROVE Held(r, x)
    <3>1. 1 \in 1..Len(r) /\ r[1] = q[k]
      BY <1>1, <1>4
    <3> QED BY <3>1 DEF Held
  <2> QED BY <2>1, <2>2, <2>3
<1>9. From(r, q)
  <2> SUFFICES ASSUME NEW i \in 1..Len(r) PROVE \E j \in 1..Len(q) : r[i] = q[j]
    BY DEF From
  <2>1. CASE i = 1
    BY <1>4, <2>1
  <2>2. CASE i # 1
    <3>1. i - 1 \in 1..Len(s) /\ r[i] = s[i - 1]
      BY <1>1, <1>2, <1>4, <2>2
    <3> QED BY <1>2, <3>1 DEF From
  <2> QED BY <2>1, <2>2
<1>10. QueueOK(r) /\ Len(r) = Len(q) /\ Splits(q, {}, r)
  BY <1>2, <1>4, <1>6, <1>7, <1>8 DEF QueueOK, Splits
<1> QED BY <1>9, <1>10 DEF r, s

(* Enqueue and EnqueueInject: a new entry at the end.                      *)
LEMMA AddLast ==
  ASSUME NEW q, QueueOK(q), NEW m \in Messages, ~Held(q, m), NEW k \in Kinds,
         k = "inject" => m \notin Followups
  PROVE  LET r == Append(q, Entry(m, {m}, k)) IN
         /\ QueueOK(r)
         /\ Len(r) = Len(q) + 1
         /\ Splits(r, {m}, q)
<1> DEFINE e == Entry(m, {m}, k)
           r == Append(q, e)
<1>1. q \in Seq(Entries) /\ Len(q) \in Nat /\ e \in Entries
  BY LenProperties DEF QueueOK, Entries, Entry
<1>2. e.msgs = {m} /\ e.kind = k
  BY DEF Entry
<1> HIDE DEF e
<1>3. /\ r \in Seq(Entries) /\ Len(r) = Len(q) + 1
      /\ \A i \in 1..Len(q) : r[i] = q[i]
      /\ r[Len(q) + 1] = e
  BY <1>1, AppendProperties
<1> HIDE DEF r
<1>4. Once(r)
  BY <1>1, <1>2, <1>3 DEF QueueOK, Once, Held
<1>5. Clean(r)
  BY <1>1, <1>2, <1>3 DEF QueueOK, Clean
<1>6. \A x : Held(r, x) <=> Held(q, x) \/ x \in {m}
  BY <1>1, <1>2, <1>3 DEF Held
<1> QED BY <1>3, <1>4, <1>5, <1>6 DEF QueueOK, Splits, r, e

(* EnqueueFollowup's merge: the last entry takes the message in.           *)
LEMMA JoinLast ==
  ASSUME NEW q, QueueOK(q), Len(q) > 0, NEW m \in Messages, ~Held(q, m)
  PROVE  LET r == [q EXCEPT ![Len(q)] = Entry(@.id, @.msgs \cup {m}, "followup")] IN
         /\ QueueOK(r)
         /\ Len(r) = Len(q)
         /\ Splits(r, {m}, q)
<1> DEFINE n == Len(q)
           e == Entry(q[n].id, q[n].msgs \cup {m}, "followup")
           r == [q EXCEPT ![n] = e]
<1>1. q \in Seq(Entries) /\ n \in Nat /\ n \in 1..Len(q) /\ q[n] \in Entries
  BY LenProperties, ElementOfSeq DEF QueueOK
<1>2. e \in Entries /\ e.msgs = q[n].msgs \cup {m} /\ e.kind = "followup"
  BY <1>1 DEF Entry, Entries, Kinds
<1> HIDE DEF e
<1>3. /\ r \in Seq(Entries) /\ Len(r) = n
      /\ \A i \in 1..n : r[i] = IF i = n THEN e ELSE q[i]
  BY <1>1, <1>2, ExceptSeq
<1> HIDE DEF r
<1>4. Once(r)
  BY <1>1, <1>2, <1>3 DEF QueueOK, Once, Held
<1>5. Clean(r)
  BY <1>1, <1>2, <1>3 DEF QueueOK, Clean
<1>6. \A x : Held(r, x) <=> Held(q, x) \/ x \in {m}
  BY <1>1, <1>2, <1>3 DEF Held
<1> QED BY <1>3, <1>4, <1>5, <1>6 DEF QueueOK, Splits, r, e

(* rescueFullInjectQueue: one entry holds the flushed ones and the message.*)
LEMMA JoinAll ==
  ASSUME NEW q, QueueOK(q), NEW m \in Messages, ~Held(q, m)
  PROVE  LET r == <<Entry(m, {m} \cup UNION {e.msgs : e \in ToSet(q)}, "followup")>> IN
         /\ QueueOK(r)
         /\ Len(r) = 1
         /\ Splits(r, {m}, q)
<1> DEFINE T == UNION {e.msgs : e \in ToSet(q)}
           d == Entry(m, {m} \cup T, "followup")
           r == <<d>>
<1>1. q \in Seq(Entries) /\ DOMAIN q = 1..Len(q) /\ \A i \in 1..Len(q) : q[i] \in Entries
  BY LenProperties, ElementOfSeq DEF QueueOK
<1>2. \A x : x \in T <=> Held(q, x)
  BY <1>1 DEF ToSet, Held
<1>3. T \subseteq Messages
  BY <1>1 DEF ToSet, Entries
<1> HIDE DEF T
<1>4. d \in Entries /\ d.msgs = {m} \cup T /\ d.kind = "followup"
  BY <1>3 DEF Entry, Entries, Kinds
<1> HIDE DEF d
<1>5. r \in Seq(Entries) /\ Len(r) = 1 /\ r[1] = d
  BY <1>4
<1> HIDE DEF r
<1>6. Once(r)
  BY <1>5 DEF Once
<1>7. Clean(r)
  BY <1>4, <1>5 DEF Clean
<1>8. \A x : Held(r, x) <=> Held(q, x) \/ x \in {m}
  BY <1>2, <1>4, <1>5 DEF Held
<1> QED BY <1>5, <1>6, <1>7, <1>8 DEF QueueOK, Splits, r, d, T

-----------------------------------------------------------------------------
(* Where a message is, and how it moves.                                   *)

InLoad(x) == \E o \in Owners : x \in load[o]
InFate(x) == x \in served \/ x \in dlq \/ x \in crashed \/ x \in removed
Somewhere(x) == Held(queue, x) \/ InLoad(x) \/ InFate(x)

Apart ==
  /\ \A o, p \in Owners : \A x : x \in load[o] /\ x \in load[p] => o = p
  /\ \A x : Held(queue, x) => ~InLoad(x) /\ ~InFate(x)
  /\ \A x : InLoad(x) => ~InFate(x)
  /\ \A x : /\ x \in served => x \notin dlq /\ x \notin crashed /\ x \notin removed
            /\ x \in dlq => x \notin crashed /\ x \notin removed
            /\ x \in crashed => x \notin removed

Loading == load \in [Owners -> SUBSET Messages]

(* The queue keeps its messages, the turns theirs.                         *)
LEMMA Stay ==
  ASSUME Apart, Splits(queue, {}, queue'), UNCHANGED <<load, fateVars>>
  PROVE  Apart' /\ \A x : Somewhere(x)' <=> Somewhere(x)
BY DEF Apart, Splits, InLoad, InFate, Somewhere, fateVars

(* A message is queued.                                                    *)
LEMMA Enter ==
  ASSUME Apart, NEW m, ~Somewhere(m), Splits(queue', {m}, queue),
         UNCHANGED <<load, fateVars>>
  PROVE  Apart' /\ \A x : Somewhere(x)' <=> Somewhere(x) \/ x = m
BY DEF Apart, Splits, InLoad, InFate, Somewhere, fateVars

(* A turn takes messages out of the queue.                                 *)
LEMMA Take ==
  ASSUME Apart, Loading, NEW o \in Owners, NEW T, Splits(queue, T, queue'),
         load' = [load EXCEPT ![o] = @ \cup T], UNCHANGED fateVars
  PROVE  Apart' /\ \A x : Somewhere(x)' <=> Somewhere(x)
<1>1. \A x : InLoad(x)' <=> InLoad(x) \/ x \in T
  BY DEF InLoad, Loading
<1>2. \A x : InFate(x)' <=> InFate(x)
  BY DEF InFate, fateVars
<1>3. \A x : x \in T => Held(queue, x) /\ ~Held(queue', x)
  BY DEF Splits
<1>4. \A p \in Owners : load'[p] = IF p = o THEN load[o] \cup T ELSE load[p]
  BY DEF Loading
<1>5. \A p, r \in Owners : \A x : x \in load'[p] /\ x \in load'[r] => p = r
  BY <1>3, <1>4 DEF Apart, InLoad
<1>6. \A x : Held(queue', x) => ~InLoad(x)' /\ ~InFate(x)'
  BY <1>1, <1>2 DEF Apart, Splits
<1>7. \A x : InLoad(x)' => ~InFate(x)'
  BY <1>1, <1>2, <1>3 DEF Apart
<1> QED BY <1>1, <1>2, <1>3, <1>5, <1>6, <1>7 DEF Apart, Somewhere, fateVars, Splits

(* A chat turn takes itself and the leading injects.                       *)
LEMMA Admit ==
  ASSUME Apart, Loading, NEW m \in Owners, ~Somewhere(m), load[m] = {},
         NEW T, Splits(queue, T, queue'),
         load' = [load EXCEPT ![m] = {m} \cup T], UNCHANGED fateVars
  PROVE  Apart' /\ \A x : Somewhere(x)' <=> Somewhere(x) \/ x = m
<1>1. \A x : InLoad(x)' <=> InLoad(x) \/ x \in T \/ x = m
  BY DEF InLoad, Loading
<1>2. \A x : InFate(x)' <=> InFate(x)
  BY DEF InFate, fateVars
<1>3. \A x : x \in T => Held(queue, x) /\ ~Held(queue', x)
  BY DEF Splits
<1>4. \A p \in Owners : load'[p] = IF p = m THEN {m} \cup T ELSE load[p]
  BY DEF Loading
<1>5. \A p, r \in Owners : \A x : x \in load'[p] /\ x \in load'[r] => p = r
  BY <1>3, <1>4 DEF Apart, InLoad, Somewhere
<1>6. \A x : Held(queue', x) => ~InLoad(x)' /\ ~InFate(x)'
  BY <1>1, <1>2 DEF Apart, Splits, Somewhere
<1>7. \A x : InLoad(x)' => ~InFate(x)'
  BY <1>1, <1>2, <1>3 DEF Apart, Somewhere
<1> QED BY <1>1, <1>2, <1>3, <1>5, <1>6, <1>7 DEF Apart, Somewhere, fateVars, Splits

(* A turn ends, whatever becomes of its messages.                          *)
LEMMA Deliver ==
  ASSUME Apart, Loading, NEW o \in Owners, UNCHANGED queue,
         load' = [load EXCEPT ![o] = {}],
         \/ served' = served \cup load[o] /\ UNCHANGED <<dlq, crashed, removed>>
         \/ dlq' = dlq \cup load[o] /\ UNCHANGED <<served, crashed, removed>>
         \/ crashed' = crashed \cup load[o] /\ UNCHANGED <<served, dlq, removed>>
  PROVE  Apart' /\ \A x : Somewhere(x)' <=> Somewhere(x)
<1>1. \A p \in Owners : load'[p] = IF p = o THEN {} ELSE load[p]
  BY DEF Loading
<1>2. \A x : InLoad(x)' <=> InLoad(x) /\ x \notin load[o]
  BY <1>1 DEF Apart, InLoad
<1>3. \A x : InFate(x)' <=> InFate(x) \/ x \in load[o]
  BY DEF InFate
<1>4. \A x : x \in load[o] => InLoad(x) /\ ~InFate(x) /\ ~Held(queue, x)
  BY DEF Apart, InLoad
<1>5. \A p, r \in Owners : \A x : x \in load'[p] /\ x \in load'[r] => p = r
  BY <1>1 DEF Apart
<1>6. \A x : Held(queue', x) => ~InLoad(x)' /\ ~InFate(x)'
  BY <1>2, <1>3, <1>4 DEF Apart
<1>7. \A x : InLoad(x)' => ~InFate(x)'
  BY <1>2, <1>3 DEF Apart
<1>8. \A x : /\ x \in served' => x \notin dlq' /\ x \notin crashed' /\ x \notin removed'
             /\ x \in dlq' => x \notin crashed' /\ x \notin removed'
             /\ x \in crashed' => x \notin removed'
  BY <1>4 DEF Apart, InFate
<1>9. Apart'
  BY <1>5, <1>6, <1>7, <1>8 DEF Apart
<1> QED BY <1>2, <1>3, <1>4, <1>9 DEF Somewhere

(* A turn that is refused loses what it took.                              *)
LEMMA Lose ==
  ASSUME Apart, Loading, NEW o \in Owners, UNCHANGED <<queue, fateVars>>,
         load' = [load EXCEPT ![o] = {}]
  PROVE  Apart' /\ \A x : Somewhere(x)' <=> Somewhere(x) /\ x \notin load[o]
<1>1. \A p \in Owners : load'[p] = IF p = o THEN {} ELSE load[p]
  BY DEF Loading
<1>2. \A x : InLoad(x)' <=> InLoad(x) /\ x \notin load[o]
  BY <1>1 DEF Apart, InLoad
<1>3. \A x : InFate(x)' <=> InFate(x)
  BY DEF InFate, fateVars
<1>4. \A x : x \in load[o] => InLoad(x) /\ ~InFate(x) /\ ~Held(queue, x)
  BY DEF Apart, InLoad
<1>5. \A p, r \in Owners : \A x : x \in load'[p] /\ x \in load'[r] => p = r
  BY <1>1 DEF Apart
<1>6. Apart'
  BY <1>2, <1>3, <1>5 DEF Apart, fateVars
<1> QED BY <1>2, <1>3, <1>4, <1>6 DEF Somewhere

(* A user takes an entry back.                                             *)
LEMMA TakeBack ==
  ASSUME Apart, NEW T, Splits(queue, T, queue'),
         removed' = removed \cup T, UNCHANGED <<load, served, dlq, crashed>>
  PROVE  Apart' /\ \A x : Somewhere(x)' <=> Somewhere(x)
<1>1. \A x : InLoad(x)' <=> InLoad(x)
  BY DEF InLoad
<1>2. \A x : InFate(x)' <=> InFate(x) \/ x \in T
  BY DEF InFate
<1>3. \A x : x \in T => Held(queue, x) /\ ~Held(queue', x) /\ ~InFate(x) /\ ~InLoad(x)
  BY DEF Splits, Apart
<1>4. \A x : Held(queue', x) => ~InLoad(x)' /\ ~InFate(x)'
  BY <1>1, <1>2 DEF Apart, Splits
<1>5. \A x : /\ x \in served' => x \notin dlq' /\ x \notin crashed' /\ x \notin removed'
             /\ x \in dlq' => x \notin crashed' /\ x \notin removed'
             /\ x \in crashed' => x \notin removed'
  BY <1>3 DEF Apart, InFate
<1>6. Apart'
  BY <1>1, <1>2, <1>3, <1>4, <1>5 DEF Apart
<1> QED BY <1>1, <1>2, <1>3, <1>6 DEF Somewhere, Splits

-----------------------------------------------------------------------------
(* The invariant.                                                          *)

Queueing == QueueOK(queue) /\ Len(queue) <= MaxPending

(* A message that is still with its sender is nowhere else.                *)
FreshPcs == {"unsent", "free", "busy", "gate", "force", "enqueue", "looked", "forcing",
             "admitted"}

Fresh == \A m \in Messages : pc[m] \in FreshPcs => ~Somewhere(m)

(* A follow-up that was accepted is somewhere.                             *)
Kept == \A m \in Followups : pc[m] \in {"forced", "queued"} => Somewhere(m)

(* Only a turn that is under way has messages, and what a refused one      *)
(* loses is no follow-up.                                                  *)
Loads ==
  /\ \A m \in Messages : load[m] # {} => pc[m] \in {"locked", "building", "executing"}
  /\ \A w \in Workers : load[w] # {} => wpc[w] \in {"taking", "taken", "building", "executing"}
  /\ \A w \in Workers : wpc[w] = "taking" => load[w] \cap Followups = {}
  /\ \A m \in Messages : pc[m] = "locked" => load[m] \cap Followups \subseteq {m}

Located == Queueing /\ Apart /\ Fresh /\ Kept /\ Loads

(* The session lock is held from the first look to the registration.       *)
LockHeld ==
  /\ \A m \in Messages : pc[m] \in {"looked", "forcing", "locked"} => lock = m
  /\ \A w \in Workers : wpc[w] \in {"taking", "taken"} => lock = w

(* Whoever is about to register has found no run, and none comes.          *)
SlotFree ==
  ~forced => /\ \A m \in Messages : pc[m] = "locked" => ~slot.present
             /\ \A w \in Workers : wpc[w] \in {"taking", "taken"} => ~slot.present

(* The run that is under way is the one in the slot.                       *)
SlotOwned ==
  /\ slot.present => slot.run \in Owners
  /\ ~forced => \A o \in Running : slot.present /\ slot.run = o

Flagged == {w \in Workers : wpc[w] \notin {"idle", "recovering", "left", "unserved"}}

(* The flag is up as long as a loop is alive, and there is one.            *)
OneLoop ==
  /\ ~loop => Flagged = {}
  /\ \A v, w \in Flagged : v = w

Guarded == LockHeld /\ SlotFree /\ SlotOwned /\ OneLoop

Shallow ==
  \A w \in Workers :
    wpc[w] \in {"top", "taking", "taken", "building", "executing"} => depth[w] < MaxDepth

IInv == TypeOK /\ Shallow /\ Located /\ Guarded

-----------------------------------------------------------------------------
LEMMA Sets ==
  /\ Messages \subseteq Owners /\ Workers \subseteq Owners
  /\ \A m \in Messages, w \in Workers : m # w
  /\ NoTurn \notin Owners /\ NoRun \notin Owners
  /\ MaxPending \in Nat \ {0} /\ MaxDepth \in Nat \ {0}
  /\ Followups \subseteq Messages
  BY DrainAssumption DEF Owners, Followups

(* A trigger launches a loop or merges into the one there is.              *)
LEMMA Launch ==
  ASSUME TypeOK, Shallow, OneLoop, ProcessPendingQueue \/ TriggerPendingDrainFromIdle
  PROVE  /\ OneLoop' /\ Shallow' /\ loop' \in BOOLEAN /\ UNCHANGED lead
         /\ \/ UNCHANGED <<wpc, depth>>
            \/ \E w \in Workers : /\ wpc[w] = "idle" /\ wpc' = [wpc EXCEPT ![w] = "top"]
                                  /\ depth' = [depth EXCEPT ![w] = 0]
<1>1. CASE UNCHANGED loopVars
  BY <1>1 DEF OneLoop, Flagged, Shallow, loopVars, TypeOK
<1>2. CASE ~loop /\ StartLoop
  <2>1. PICK w \in Workers : /\ wpc[w] = "idle" /\ wpc' = [wpc EXCEPT ![w] = "top"]
                             /\ depth' = [depth EXCEPT ![w] = 0]
    BY <1>2 DEF StartLoop, WGoto
  <2>2. \A v \in Workers : wpc'[v] = IF v = w THEN "top" ELSE wpc[v]
    BY <2>1 DEF TypeOK
  <2>3. Flagged = {} /\ Flagged' = {w}
    BY <1>2, <2>2 DEF OneLoop, Flagged
  <2>4. OneLoop'
    BY <1>2, <2>3 DEF OneLoop, StartLoop
  <2>5. Shallow'
    BY <2>1, <2>2, Sets DEF Shallow, TypeOK
  <2> QED BY <1>2, <2>1, <2>4, <2>5 DEF StartLoop
<1> QED BY <1>1, <1>2 DEF ProcessPendingQueue, TriggerPendingDrainFromIdle

(* The control: who holds the lock, the slot and the flag.                 *)
LEMMA TriggerGuards ==
  ASSUME IInv, NEW m \in Messages, ForceTrigger(m) \/ Trigger(m) \/ InterruptTrigger(m)
  PROVE  Guarded'
<1>1. /\ UNCHANGED <<slot, forced, lock>>
      /\ \A n \in Messages : \/ pc'[n] = pc[n]
                             \/ pc[n] = "ended" /\ pc'[n] = "over"
                             \/ pc[n] = "forced" /\ pc'[n] = "queued"
  <2>1. DOMAIN pc = Messages
    BY DEF IInv, TypeOK
  <2>2. CASE ForceTrigger(m)
    BY <2>1, <2>2 DEF ForceTrigger, Goto, queueVars, slotVars, fateVars
  <2>3. CASE Trigger(m)
    BY <2>1, <2>3 DEF Trigger, Goto, queueVars, slotVars, fateVars
  <2>4. CASE InterruptTrigger(m)
    BY <2>4 DEF InterruptTrigger, queueVars, slotVars, fateVars
  <2> QED BY <2>2, <2>3, <2>4
<1>2. /\ OneLoop'
      /\ \/ UNCHANGED <<wpc, depth>>
         \/ \E w \in Workers : /\ wpc[w] = "idle" /\ wpc' = [wpc EXCEPT ![w] = "top"]
                               /\ depth' = [depth EXCEPT ![w] = 0]
  BY Launch DEF IInv, Guarded, ForceTrigger, Trigger, InterruptTrigger
<1>3. \A w \in Workers : \/ wpc'[w] = wpc[w]
                         \/ wpc[w] = "idle" /\ wpc'[w] = "top"
  <2>1. \A w \in Workers : wpc' = [wpc EXCEPT ![w] = "top"]
           => \A v \in Workers : wpc'[v] = IF v = w THEN "top" ELSE wpc[v]
    BY DEF IInv, TypeOK
  <2> QED BY <1>2, <2>1
<1>4. Running' \subseteq Running
  BY <1>1, <1>3 DEF Running
<1>5. LockHeld' /\ SlotFree' /\ SlotOwned'
  BY <1>1, <1>3, <1>4 DEF IInv, Guarded, LockHeld, SlotFree, SlotOwned
<1> QED BY <1>2, <1>5 DEF Guarded

(* A cancel marks the entry of the run, or removes it: by force if the run *)
(* is under way.                                                           *)
LEMMA CancelGuards ==
  ASSUME IInv, UNCHANGED <<pc, wpc, lock, loop>>, UNCHANGED slotVars \/ Cancel
  PROVE  Guarded'
<1>1. UNCHANGED <<Running, Flagged>>
  BY DEF Running, Flagged
<1>2. LockHeld' /\ OneLoop'
  BY <1>1 DEF IInv, Guarded, LockHeld, OneLoop
<1>3. /\ forced => forced'
      /\ slot'.present => slot.present /\ slot'.run = slot.run
      /\ ~forced' /\ slot.present => slot'.present \/ slot.run \notin Running
  BY DEF IInv, TypeOK, Cancel, slotVars, MarkCancelling, StoreLocked, Vacant, ZeroRun, Busy
<1>4. SlotFree'
  BY <1>3 DEF IInv, Guarded, SlotFree
<1>5. SlotOwned'
  BY <1>1, <1>3 DEF IInv, Guarded, SlotOwned
<1> QED BY <1>2, <1>4, <1>5 DEF Guarded

LEMMA SenderGuards ==
  ASSUME IInv, NEW m \in Messages,
         Send(m) \/ Call(m) \/ Turn(m) \/ CancelPendingMessage(m) \/ Promote(m) \/ Interrupt(m)
  PROVE  Guarded'
<1> USE Sets DEF IInv, Guarded, LockHeld, SlotFree, SlotOwned, OneLoop, Flagged, Running, TypeOK,
        Goto, WGoto, Free, Busy, loopVars, queueVars, slotVars, fateVars, Kinds
<1>1. CASE CheckActive(m)
  BY <1>1 DEF CheckActive
<1>2. CASE EnqueueInject(m)
  BY <1>2 DEF EnqueueInject
<1>3. CASE CheckRestored(m)
  BY <1>3 DEF CheckRestored
<1>4. CASE CheckPolicy(m)
  BY <1>4 DEF CheckPolicy
<1>5. CASE GateCheck(m)
  BY <1>5 DEF GateCheck
<1>6. CASE EnqueueLook(m)
  <2>1. /\ pc[m] \in {"unsent", "enqueue", "force"} /\ lock = NoTurn
        /\ UNCHANGED <<slot, forced, loop, wpc>>
        /\ \/ lock' = m /\ \E l \in {"forcing", "looked"} : pc' = [pc EXCEPT ![m] = l]
           \/ UNCHANGED lock /\ pc' = [pc EXCEPT ![m] = "rejected"]
    BY <1>6 DEF EnqueueLook
  <2> QED BY <2>1
<1>7. CASE Steer(m)
  <2>1. /\ lock = m /\ lock' = NoTurn /\ UNCHANGED <<slot, forced, loop, wpc>>
        /\ \E l \in {"steered", "rejected"} : pc' = [pc EXCEPT ![m] = l]
    BY <1>7 DEF Steer
  <2> QED BY <2>1
<1>8. CASE EnqueueAppend(m)
  BY <1>8 DEF EnqueueAppend
<1>9. CASE EnqueueMerge(m)
  BY <1>9 DEF EnqueueMerge
<1>10. CASE EnqueueFull(m)
  <2>1. /\ lock = m /\ lock' = NoTurn /\ UNCHANGED <<slot, forced, loop, wpc>>
        /\ \E l \in {"rejected", "forced", "queued"} : pc' = [pc EXCEPT ![m] = l]
    BY <1>10 DEF EnqueueFull
  <2> QED BY <2>1
<1>11. CASE ForceTrigger(m)
  BY <1>11, TriggerGuards DEF Guarded
<1>12. CASE GiveUp(m)
  BY <1>12 DEF GiveUp
<1>13. CASE Lock(m)
  BY <1>13 DEF Lock
<1>14. CASE RejectLocked(m)
  BY <1>14 DEF RejectLocked
<1>15. CASE Register(m)
  BY <1>15 DEF Register, StoreCancelable, StoreLocked, ZeroRun
<1>16. CASE Build(m)
  BY <1>16 DEF Build, StoreRunner, StoreLocked, ZeroRun
<1>17. CASE End(m)
  BY <1>17 DEF End, Finish, FinishMatches, Vacant, ZeroRun
<1>18. CASE Panic(m)
  <2>1. /\ pc[m] \in {"building", "executing"} /\ UNCHANGED <<lock, loop, wpc>>
        /\ \E l \in {"over", "ended"} : pc' = [pc EXCEPT ![m] = l]
        /\ UNCHANGED slotVars \/ Finish(m)
    BY <1>18 DEF Panic
  <2> QED BY <2>1 DEF Finish, FinishMatches, Vacant, ZeroRun
<1>19. CASE Trigger(m)
  BY <1>19, TriggerGuards DEF Guarded
<1>20. CASE CancelPendingMessage(m)
  BY <1>20 DEF CancelPendingMessage
<1>21. CASE Promote(m)
  BY <1>21 DEF Promote
<1>22. CASE InterruptCancel(m)
  <2>1. UNCHANGED <<pc, wpc, lock, loop>> /\ (UNCHANGED slotVars \/ Cancel)
    BY <1>22 DEF InterruptCancel
  <2> QED BY <2>1, CancelGuards DEF Guarded
<1>23. CASE InterruptLook(m)
  BY <1>23 DEF InterruptLook
<1>24. CASE InterruptTrigger(m)
  BY <1>24, TriggerGuards DEF Guarded
<1> QED
  BY <1>1, <1>2, <1>3, <1>4, <1>5, <1>6, <1>7, <1>8, <1>9, <1>10, <1>11, <1>12, <1>13, <1>14,
     <1>15, <1>16, <1>17, <1>18, <1>19, <1>20, <1>21, <1>22, <1>23, <1>24
     DEF Send, Call, Turn, Interrupt

LEMMA LoopGuards ==
  ASSUME IInv, NEW w \in Workers, Loop(w) \/ TurnTaken(w)
  PROVE  Guarded'
<1> USE Sets DEF IInv, Guarded, LockHeld, SlotFree, SlotOwned, OneLoop, Flagged, Running, TypeOK,
        WGoto, Free, Busy, queueVars, slotVars, fateVars
<1> DEFINE WTo(l) == \A v \in Workers : wpc'[v] = IF v = w THEN l ELSE wpc[v]
<1>1. CASE Peek(w)
  <2>1. wpc[w] = "top" /\ UNCHANGED <<slot, forced, loop, pc>>
    BY <1>1 DEF Peek
  <2>2. \/ WTo("leaving") /\ UNCHANGED lock
        \/ WTo("taking") /\ lock = NoTurn /\ lock' = w /\ ~slot.present
    <3>1. CASE FirstFollowup = 0 \/ Busy(slot)
      BY <1>1, <3>1 DEF Peek
    <3>2. CASE ~(FirstFollowup = 0 \/ Busy(slot))
      BY <1>1, <3>2 DEF Peek
    <3> QED BY <3>1, <3>2
  <2>3. CASE WTo("leaving") /\ UNCHANGED lock
    <3>1. LockHeld' /\ SlotFree'
      BY <2>1, <2>3
    <3>2. Running' = Running /\ Flagged' = Flagged
      BY <2>1, <2>3
    <3>3. SlotOwned' /\ OneLoop'
      BY <2>1, <3>2
    <3> QED BY <3>1, <3>3
  <2>4. CASE WTo("taking") /\ lock = NoTurn /\ lock' = w /\ ~slot.present
    <3>1. LockHeld' /\ SlotFree'
      BY <2>1, <2>4
    <3>2. Running' = Running /\ Flagged' = Flagged
      BY <2>1, <2>4
    <3>3. SlotOwned'
      BY <2>1, <3>2
    <3>4. OneLoop'
      BY <2>1, <3>2
    <3> QED BY <3>1, <3>3, <3>4
  <2> QED BY <2>2, <2>3, <2>4
<1>2. CASE TakeInject(w)
  BY <1>2 DEF TakeInject
<1>3. CASE TakeEntry(w)
  <2>1. wpc[w] = "taking" /\ WTo("taken") /\ UNCHANGED <<slot, forced, lock, loop, pc>>
    BY <1>3 DEF TakeEntry
  <2> QED BY <2>1
<1>4. CASE RegisterTaken(w)
  BY <1>4 DEF RegisterTaken, StoreCancelable, StoreLocked, ZeroRun
<1>5. CASE TakeNothing(w)
  BY <1>5 DEF TakeNothing
<1>6. CASE BuildTaken(w)
  BY <1>6 DEF BuildTaken, StoreRunner, StoreLocked, ZeroRun
<1>7. CASE EndTaken(w)
  BY <1>7 DEF EndTaken, Finish, FinishMatches, Vacant, ZeroRun
<1>8. CASE PanicTaken(w)
  <2>1. /\ wpc[w] \in {"building", "executing"} /\ UNCHANGED <<lock, loop, pc>>
        /\ \E l \in {"panicked", "stuck"} : wpc' = [wpc EXCEPT ![w] = l]
        /\ UNCHANGED slotVars \/ Finish(w)
    BY <1>8 DEF PanicTaken
  <2> QED BY <2>1 DEF Finish, FinishMatches, Vacant, ZeroRun
<1>9. CASE DeleteFlag(w)
  <2>1. /\ wpc[w] \in {"leaving", "capped", "panicked", "stuck"} /\ ~loop'
        /\ UNCHANGED <<slot, forced, lock, pc>>
        /\ WTo("left") \/ WTo("idle") \/ WTo("recovering")
    BY <1>9 DEF DeleteFlag
  <2>2. \A v \in Workers : wpc[v] = "idle" \/ wpc[v] \in {"recovering", "left", "unserved"} \/ v = w
    BY <2>1
  <2>3. OneLoop'
    BY <2>1, <2>2
  <2>4. LockHeld' /\ SlotFree'
    BY <2>1
  <2>5. Running' = Running
    BY <2>1
  <2>6. SlotOwned'
    BY <2>1, <2>5
  <2> QED BY <2>3, <2>4, <2>6
<1>10. CASE Recover(w)
  BY <1>10 DEF Recover, Finish, FinishMatches, Vacant, ZeroRun
<1>11. CASE ExitCheckActive(w)
  BY <1>11 DEF ExitCheckActive
<1>12. CASE ExitRelaunch(w)
  <2>1. wpc[w] = "unserved" /\ UNCHANGED <<slot, forced, lock, pc>>
    BY <1>12 DEF ExitRelaunch
  <2>2. \/ WTo("top") /\ ~loop /\ loop'
        \/ WTo("idle") /\ UNCHANGED loop
    <3>1. CASE FirstFollowup # 0 /\ ~loop
      <4>1. loop' = TRUE /\ wpc' = [wpc EXCEPT ![w] = "top"]
        BY <1>12, <3>1 DEF ExitRelaunch
      <4>2. WTo("top")
        BY <4>1
      <4> QED BY <3>1, <4>1, <4>2
    <3>2. CASE ~(FirstFollowup # 0 /\ ~loop)
      BY <1>12, <3>2 DEF ExitRelaunch
    <3> QED BY <3>1, <3>2
  <2>3. CASE WTo("top") /\ ~loop /\ loop'
    <3>1. LockHeld' /\ SlotFree'
      BY <2>1, <2>3
    <3>2. Running' = Running
      BY <2>1, <2>3
    <3>3. Flagged' = {w}
      BY <2>3
    <3>4. SlotOwned'
      BY <2>1, <3>2
    <3> QED BY <2>3, <3>1, <3>3, <3>4
  <2>4. CASE WTo("idle") /\ UNCHANGED loop
    BY <2>1, <2>4
  <2> QED BY <2>2, <2>3, <2>4
<1> QED
  BY <1>1, <1>2, <1>3, <1>4, <1>5, <1>6, <1>7, <1>8, <1>9, <1>10, <1>11, <1>12 DEF Loop, TurnTaken

LEMMA StutterGuards == IInv /\ UNCHANGED vars => Guarded'
  BY DEF IInv, Guarded, LockHeld, SlotFree, SlotOwned, OneLoop, Flagged, Running, vars, loopVars,
         slotVars

LEMMA InitGuards == Init => Guarded
  BY DEF Init, Guarded, LockHeld, SlotFree, SlotOwned, OneLoop, Flagged, Running, Vacant, ZeroRun

-----------------------------------------------------------------------------
(* The types of what is not the queue.                                     *)

LEMMA StoredSlot ==
  ASSUME TypeOK, NEW o \in Owners
  PROVE  LET S == [present : BOOLEAN, run : Owners \cup {NoRun},
                   runner : Owners \cup {NoTurn}, cancel : Owners \cup {NoTurn},
                   placeholder : BOOLEAN, cancelling : BOOLEAN, cancelIntent : BOOLEAN]
         IN  /\ StoreCancelable(slot, o, o) \in S /\ StoreRunner(slot, o, o) \in S
             /\ Vacant \in S /\ MarkCancelling(slot, slot.run) \in S
BY DEF TypeOK, StoreCancelable, StoreRunner, Vacant, MarkCancelling, StoreLocked, ZeroRun

(* What cancels, finishes and panics leave in the slot.                    *)
LEMMA SlotTypes ==
  ASSUME TypeOK, NEW o \in Owners, UNCHANGED slotVars \/ Cancel \/ Finish(o)
  PROVE  /\ forced' \in BOOLEAN
         /\ slot' \in [present : BOOLEAN, run : Owners \cup {NoRun},
                       runner : Owners \cup {NoTurn}, cancel : Owners \cup {NoTurn},
                       placeholder : BOOLEAN, cancelling : BOOLEAN, cancelIntent : BOOLEAN]
<1>1. forced \in BOOLEAN
  BY DEF TypeOK
<1>2. forced' \in BOOLEAN
  BY <1>1, Zenon DEF Cancel, Finish, slotVars
<1>3. slot' = slot \/ slot' = Vacant \/ slot' = MarkCancelling(slot, slot.run)
  BY DEF Cancel, Finish, slotVars
<1> QED BY <1>2, <1>3, StoredSlot DEF TypeOK

-----------------------------------------------------------------------------
(* Where the messages are, step by step.                                   *)

(* No message becomes fresh again, and none is accepted.                   *)
Onward ==
  \A n \in Messages : /\ pc'[n] \in FreshPcs => pc[n] \in FreshPcs
                      /\ pc'[n] \in {"forced", "queued"} => pc[n] \in {"forced", "queued"}

LEMMA Moved ==
  ASSUME IInv, Onward, Queueing', Apart', Loads', \A x : Somewhere(x)' <=> Somewhere(x)
  PROVE  Located'
BY Sets DEF IInv, Located, Fresh, Kept, Onward

(* Most steps touch neither the queue nor a turn's messages.               *)
LEMMA Quiet ==
  ASSUME IInv, Onward, UNCHANGED <<queue, load, fateVars>>, Loads'
  PROVE  Located'
<1>1. Queueing' /\ Splits(queue, {}, queue')
  BY DEF IInv, Located, Queueing, Splits, QueueOK, Once, Clean
<1>2. Apart' /\ \A x : Somewhere(x)' <=> Somewhere(x)
  BY <1>1, Stay DEF IInv, Located
<1> QED BY <1>1, <1>2, Moved

LEMMA NewQueue ==
  ASSUME QueueOK(queue'), Len(queue') <= MaxPending
  PROVE  Queueing'
BY DEF Queueing, QueueOK, Once, Clean

(* A message is accepted.                                                  *)
LEMMA Accepted ==
  ASSUME IInv, NEW m \in Messages, pc[m] \in FreshPcs,
         NEW l \in {"forced", "queued"}, pc' = [pc EXCEPT ![m] = l],
         Queueing', Splits(queue', {m}, queue), UNCHANGED <<load, wpc, fateVars>>
  PROVE  Located'
<1>1. ~Somewhere(m)
  BY DEF IInv, Located, Fresh
<1>2. Apart' /\ \A x : Somewhere(x)' <=> Somewhere(x) \/ x = m
  BY <1>1, Enter DEF IInv, Located
<1>3. \A n \in Messages : pc'[n] = IF n = m THEN l ELSE pc[n]
  BY DEF IInv, TypeOK
<1>4. Fresh' /\ Kept'
  BY <1>2, <1>3, Sets DEF IInv, Located, Fresh, Kept, FreshPcs
<1>5. Loads'
  BY <1>3 DEF IInv, Located, Loads, FreshPcs
<1> QED BY <1>2, <1>4, <1>5 DEF Located

LEMMA QueueTypes ==
  ASSUME IInv
  PROVE  /\ QueueOK(queue) /\ queue \in Seq(Entries) /\ Len(queue) \in Nat
         /\ Len(queue) <= MaxPending /\ Loading
         /\ \A i \in 1..Len(queue) : queue[i] \in Entries
  BY LenProperties, ElementOfSeq DEF IInv, TypeOK, Located, Queueing, QueueOK, Loading, Entries

LEMMA ShrinkQueue ==
  ASSUME IInv, NEW r, QueueOK(r), Len(r) <= Len(queue), ShrinkTo(r)
  PROVE  Queueing' /\ queue' = r
<1>1. Len(r) \in Nat
  BY LenProperties DEF QueueOK
<1>2. queue' = r /\ Len(r) <= MaxPending
  BY <1>1, QueueTypes, Sets DEF ShrinkTo
<1> QED BY <1>2, NewQueue

LEMMA QuietSender ==
  ASSUME IInv, NEW m \in Messages,
         \/ CheckActive(m) \/ CheckRestored(m) \/ CheckPolicy(m) \/ GateCheck(m)
         \/ EnqueueLook(m) \/ Steer(m) \/ ForceTrigger(m) \/ GiveUp(m)
         \/ Register(m) \/ Build(m) \/ Trigger(m)
         \/ InterruptCancel(m) \/ InterruptLook(m) \/ InterruptTrigger(m)
  PROVE  Located'
<1> DEFINE Step(l) == \A n \in Messages : pc'[n] = IF n = m THEN l ELSE pc[n]
           Underway == {"locked", "building", "executing"}
           Steady == \A n \in Messages : /\ pc[n] \in Underway => pc'[n] \in Underway
                                         /\ pc'[n] = "locked" => pc[n] = "locked"
<1>1. DOMAIN pc = Messages /\ \A l : pc' = [pc EXCEPT ![m] = l] => Step(l)
  BY DEF IInv, TypeOK
<1>2. UNCHANGED <<queue, load, fateVars>>
  BY DEF CheckActive, CheckRestored, CheckPolicy, GateCheck, EnqueueLook, Steer, ForceTrigger,
         GiveUp, Register, Build, Trigger, InterruptCancel, InterruptLook, InterruptTrigger,
         queueVars, fateVars
<1>3. Onward /\ Steady
  <2> USE <1>1 DEF Onward, FreshPcs, Goto
  <2>1. CASE CheckActive(m)
    BY <2>1 DEF CheckActive
  <2>2. CASE CheckRestored(m)
    BY <2>2 DEF CheckRestored
  <2>3. CASE CheckPolicy(m)
    BY <2>3 DEF CheckPolicy
  <2>4. CASE GateCheck(m)
    BY <2>4 DEF GateCheck
  <2>5. CASE EnqueueLook(m)
    BY <2>5 DEF EnqueueLook
  <2>6. CASE Steer(m)
    BY <2>6 DEF Steer
  <2>7. CASE ForceTrigger(m)
    BY <2>7 DEF ForceTrigger
  <2>8. CASE GiveUp(m)
    BY <2>8 DEF GiveUp
  <2>9. CASE Register(m)
    BY <2>9 DEF Register
  <2>10. CASE Build(m)
    BY <2>10 DEF Build
  <2>11. CASE Trigger(m)
    BY <2>11 DEF Trigger
  <2>12. CASE InterruptCancel(m) \/ InterruptLook(m) \/ InterruptTrigger(m)
    BY <2>12 DEF InterruptCancel, InterruptLook, InterruptTrigger
  <2> QED BY <2>1, <2>2, <2>3, <2>4, <2>5, <2>6, <2>7, <2>8, <2>9, <2>10, <2>11, <2>12
<1>4. \A w \in Workers : \/ wpc'[w] = wpc[w]
                         \/ wpc[w] = "idle" /\ wpc'[w] = "top"
  <2>1. CASE UNCHANGED wpc
    BY <2>1
  <2>2. CASE ForceTrigger(m) \/ Trigger(m) \/ InterruptTrigger(m)
    <3>1. \/ UNCHANGED wpc
          \/ \E w \in Workers : wpc[w] = "idle" /\ wpc' = [wpc EXCEPT ![w] = "top"]
      BY <2>2, Launch DEF IInv, Guarded, ForceTrigger, Trigger, InterruptTrigger
    <3>2. \A w \in Workers : wpc' = [wpc EXCEPT ![w] = "top"]
             => \A v \in Workers : wpc'[v] = IF v = w THEN "top" ELSE wpc[v]
      BY DEF IInv, TypeOK
    <3> QED BY <3>1, <3>2
  <2> QED
    BY <2>1, <2>2 DEF CheckActive, CheckRestored, CheckPolicy, GateCheck, EnqueueLook, Steer,
         GiveUp, Register, Build, InterruptCancel, InterruptLook, loopVars
<1>5. Loads /\ UNCHANGED load
  BY <1>2 DEF IInv, Located
<1>6. \A n \in Messages : load'[n] # {} => pc'[n] \in Underway
  BY <1>3, <1>5 DEF Loads
<1>7. \A w \in Workers : load'[w] # {} => wpc'[w] \in {"taking", "taken", "building", "executing"}
  BY <1>4, <1>5 DEF Loads
<1>8. \A w \in Workers : wpc'[w] = "taking" => load'[w] \cap Followups = {}
  BY <1>4, <1>5 DEF Loads
<1>9. \A n \in Messages : pc'[n] = "locked" => load'[n] \cap Followups \subseteq {n}
  BY <1>3, <1>5 DEF Loads
<1>10. Loads'
  BY <1>6, <1>7, <1>8, <1>9 DEF Loads
<1> QED BY <1>2, <1>3, <1>10, Quiet

(* A message is refused while it is still with its sender.                 *)
LEMMA Refused ==
  ASSUME IInv, NEW m \in Messages, pc[m] \in FreshPcs,
         pc' = [pc EXCEPT ![m] = "rejected"],
         UNCHANGED <<queue, load, wpc, fateVars>>
  PROVE  Located'
<1>1. \A n \in Messages : pc'[n] = IF n = m THEN "rejected" ELSE pc[n]
  BY DEF IInv, TypeOK
<1>2. Onward
  BY <1>1 DEF Onward, FreshPcs
<1>3. Loads'
  BY <1>1 DEF IInv, Located, Loads, FreshPcs
<1> QED BY <1>2, <1>3, Quiet

LEMMA InjectLocated ==
  ASSUME IInv, NEW m \in Messages, EnqueueInject(m)
  PROVE  Located'
<1>1. pc[m] \in FreshPcs /\ KindOf[m] = "inject" /\ UNCHANGED <<load, wpc, fateVars>>
  BY DEF EnqueueInject, FreshPcs, loopVars
<1>2. CASE Len(queue) >= MaxPending
  BY <1>1, <1>2, Refused DEF EnqueueInject, Goto
<1>3. CASE ~(Len(queue) >= MaxPending)
  <2>1. queue' = Append(queue, Entry(m, {m}, "inject")) /\ pc' = [pc EXCEPT ![m] = "queued"]
    BY <1>3 DEF EnqueueInject, Goto
  <2>2. ~Held(queue, m) /\ m \notin Followups
    BY <1>1 DEF IInv, Located, Fresh, Somewhere, Followups
  <2>3. QueueOK(queue') /\ Len(queue') = Len(queue) + 1 /\ Splits(queue', {m}, queue)
    BY <2>1, <2>2, AddLast, QueueTypes DEF Kinds
  <2>4. Len(queue') <= MaxPending
    BY <1>3, <2>3, QueueTypes, Sets
  <2> QED BY <1>1, <2>1, <2>3, <2>4, NewQueue, Accepted
<1> QED BY <1>2, <1>3

LEMMA AppendLocated ==
  ASSUME IInv, NEW m \in Messages, EnqueueAppend(m)
  PROVE  Located'
<1>1. /\ pc[m] \in FreshPcs /\ UNCHANGED <<load, wpc, fateVars>>
      /\ queue' = Append(queue, Entry(m, {m}, "followup")) /\ Len(queue) < MaxPending
  BY DEF EnqueueAppend, FreshPcs, loopVars
<1>2. \E l \in {"forced", "queued"} : pc' = [pc EXCEPT ![m] = l]
  BY DEF EnqueueAppend, Goto
<1>3. ~Held(queue, m)
  BY <1>1 DEF IInv, Located, Fresh, Somewhere
<1>4. QueueOK(queue') /\ Len(queue') = Len(queue) + 1 /\ Splits(queue', {m}, queue)
  BY <1>1, <1>3, AddLast, QueueTypes DEF Kinds
<1>5. Len(queue') <= MaxPending
  BY <1>1, <1>4, QueueTypes, Sets
<1> QED BY <1>1, <1>2, <1>4, <1>5, NewQueue, Accepted

LEMMA MergeLocated ==
  ASSUME IInv, NEW m \in Messages, EnqueueMerge(m)
  PROVE  Located'
<1>1. /\ pc[m] \in FreshPcs /\ UNCHANGED <<load, wpc, fateVars>>
      /\ queue' = [queue EXCEPT ![Len(queue)] = Entry(@.id, @.msgs \cup {m}, "followup")]
      /\ Len(queue) > 0 /\ pc' = [pc EXCEPT ![m] = "queued"]
  BY Sets DEF EnqueueMerge, FreshPcs, loopVars, Goto
<1>2. ~Held(queue, m)
  BY <1>1 DEF IInv, Located, Fresh, Somewhere
<1>3. QueueOK(queue') /\ Len(queue') = Len(queue) /\ Splits(queue', {m}, queue)
  BY <1>1, <1>2, JoinLast, QueueTypes
<1>4. Len(queue') <= MaxPending
  BY <1>3, QueueTypes
<1> QED BY <1>1, <1>3, <1>4, NewQueue, Accepted

LEMMA FullLocated ==
  ASSUME IInv, NEW m \in Messages, EnqueueFull(m)
  PROVE  Located'
<1>1. pc[m] \in FreshPcs /\ UNCHANGED <<load, wpc, fateVars>>
  BY DEF EnqueueFull, FreshPcs, loopVars
<1>2. CASE FirstFollowup # 0
  BY <1>1, <1>2, Refused DEF EnqueueFull, Goto, queueVars
<1>3. CASE FirstFollowup = 0
  <2>1. queue' = <<Entry(m, {m} \cup UNION {e.msgs : e \in ToSet(queue)}, "followup")>>
    BY <1>3 DEF EnqueueFull, RescueFullInjectQueue
  <2>2. \E l \in {"forced", "queued"} : pc' = [pc EXCEPT ![m] = l]
    BY <1>3 DEF EnqueueFull, Goto
  <2>3. ~Held(queue, m)
    BY <1>1 DEF IInv, Located, Fresh, Somewhere
  <2>4. QueueOK(queue') /\ Len(queue') = 1 /\ Splits(queue', {m}, queue)
    BY <2>1, <2>3, JoinAll, QueueTypes
  <2>5. Len(queue') <= MaxPending
    BY <2>4, Sets
  <2> QED BY <1>1, <2>2, <2>4, <2>5, NewQueue, Accepted
<1> QED BY <1>2, <1>3

LEMMA LockLocated ==
  ASSUME IInv, NEW m \in Messages, Lock(m)
  PROVE  Located'
<1>1. pc[m] = "admitted" /\ pc[m] \in FreshPcs /\ UNCHANGED <<wpc, fateVars>>
  BY DEF Lock, FreshPcs, loopVars
<1>2. CASE Busy(slot)
  BY <1>1, <1>2, Refused DEF Lock, Goto, queueVars
<1>3. CASE ~Busy(slot)
  <2> DEFINE n == IF FirstFollowup = 0 THEN Len(queue) ELSE FirstFollowup - 1
             T == UNION {queue[i].msgs : i \in 1..n}
             r == SubSeq(queue, n + 1, Len(queue))
  <2>1. ShrinkTo(r) /\ load' = [load EXCEPT ![m] = {m} \cup T] /\ pc' = [pc EXCEPT ![m] = "locked"]
    BY <1>3 DEF Lock, ConsumeLeadingInjects, Goto
  <2>2. n \in 0..Len(queue) /\ \A i \in 1..n : queue[i].kind = "inject"
    BY FirstFollowupFacts, QueueTypes
  <2>3. QueueOK(r) /\ Len(r) = Len(queue) - n /\ Splits(queue, T, r)
    BY <2>2, DropFirst, QueueTypes
  <2>4. T \cap Followups = {}
    BY <2>2, QueueTypes DEF QueueOK, Clean
  <2> HIDE DEF n, T, r
  <2>5. Queueing' /\ queue' = r
    BY <2>1, <2>2, <2>3, QueueTypes, ShrinkQueue
  <2>6. ~Somewhere(m) /\ load[m] = {}
    BY <1>1 DEF IInv, Located, Fresh, Loads
  <2>7. Apart' /\ \A x : Somewhere(x)' <=> Somewhere(x) \/ x = m
    BY <1>1, <2>1, <2>3, <2>5, <2>6, Admit, QueueTypes, Sets DEF IInv, Located
  <2>8. \A k \in Messages : pc'[k] = IF k = m THEN "locked" ELSE pc[k]
    BY <2>1 DEF IInv, TypeOK
  <2>9. Fresh' /\ Kept'
    BY <2>7, <2>8, Sets DEF IInv, Located, Fresh, Kept, FreshPcs
  <2>10. \A o \in Owners : load'[o] = IF o = m THEN {m} \cup T ELSE load[o]
    BY <2>1, QueueTypes DEF Loading
  <2>11. Loads'
    BY <1>1, <2>4, <2>8, <2>10, Sets DEF IInv, Located, Loads
  <2> QED BY <2>5, <2>7, <2>9, <2>11 DEF Located
<1> QED BY <1>2, <1>3

LEMMA RejectLocated ==
  ASSUME IInv, NEW m \in Messages, RejectLocked(m)
  PROVE  Located'
<1>1. /\ pc[m] = "locked" /\ UNCHANGED <<queue, wpc, fateVars>>
      /\ load' = [load EXCEPT ![m] = {}]
      /\ pc' = [pc EXCEPT ![m] = "rejected"]
  BY DEF RejectLocked, loopVars, queueVars, Goto
<1>2. Apart' /\ \A x : Somewhere(x)' <=> Somewhere(x) /\ x \notin load[m]
  BY <1>1, Lose, QueueTypes, Sets DEF IInv, Located
<1>3. \A n \in Messages : pc'[n] = IF n = m THEN "rejected" ELSE pc[n]
  BY <1>1 DEF IInv, TypeOK
<1>4. \A o \in Owners : load'[o] = IF o = m THEN {} ELSE load[o]
  BY <1>1, QueueTypes DEF Loading
<1>5. load[m] \cap Followups \subseteq {m}
  BY <1>1 DEF IInv, Located, Loads
<1>6. Fresh'
  BY <1>2, <1>3 DEF IInv, Located, Fresh, FreshPcs
<1>7. Kept'
  BY <1>2, <1>3, <1>5, Sets DEF IInv, Located, Kept
<1>8. Loads'
  BY <1>1, <1>3, <1>4, Sets DEF IInv, Located, Loads
<1>9. Queueing'
  BY <1>1, QueueTypes, NewQueue
<1> QED BY <1>2, <1>6, <1>7, <1>8, <1>9 DEF Located

(* The turn ends, completed, failed or in a panic.                         *)
LEMMA EndLocated ==
  ASSUME IInv, NEW m \in Messages, End(m) \/ Panic(m)
  PROVE  Located'
<1>1. /\ pc[m] \in {"building", "executing"} /\ UNCHANGED <<queue, wpc>>
      /\ load' = [load EXCEPT ![m] = {}]
      /\ \E l \in {"ended", "over"} : pc' = [pc EXCEPT ![m] = l]
      /\ \/ served' = served \cup load[m] /\ UNCHANGED <<dlq, crashed, removed>>
         \/ crashed' = crashed \cup load[m] /\ UNCHANGED <<served, dlq, removed>>
  BY DEF End, Panic, loopVars, queueVars, Goto
<1>2. Apart' /\ \A x : Somewhere(x)' <=> Somewhere(x)
  BY <1>1, Deliver, QueueTypes, Sets DEF IInv, Located
<1>3. PICK l \in {"ended", "over"} :
        \A n \in Messages : pc'[n] = IF n = m THEN l ELSE pc[n]
  BY <1>1 DEF IInv, TypeOK
<1>4. \A o \in Owners : load'[o] = IF o = m THEN {} ELSE load[o]
  BY <1>1, QueueTypes DEF Loading
<1>5. Onward
  BY <1>3 DEF Onward, FreshPcs
<1>6. Loads'
  BY <1>1, <1>3, <1>4, Sets DEF IInv, Located, Loads
<1>7. Queueing'
  BY <1>1, QueueTypes, NewQueue
<1> QED BY <1>2, <1>5, <1>6, <1>7, Moved

LEMMA CancelLocated ==
  ASSUME IInv, NEW m \in Messages, CancelPendingMessage(m)
  PROVE  Located'
<1> DEFINE T == queue[At(m)].msgs
           r == RemoveAt(queue, At(m))
<1>1. /\ At(m) # 0 /\ ShrinkTo(r) /\ removed' = removed \cup T
      /\ UNCHANGED <<load, served, dlq, crashed>> /\ UNCHANGED <<pc, wpc>>
  BY DEF CancelPendingMessage, loopVars
<1>2. QueueOK(r) /\ Len(r) = Len(queue) - 1 /\ Splits(queue, T, r)
  BY <1>1, AtFacts, DropAt, QueueTypes
<1> HIDE DEF T, r
<1>3. Queueing' /\ queue' = r
  BY <1>1, <1>2, QueueTypes, ShrinkQueue
<1>4. Apart' /\ \A x : Somewhere(x)' <=> Somewhere(x)
  BY <1>1, <1>2, <1>3, TakeBack DEF IInv, Located
<1>5. Onward /\ Loads'
  BY <1>1 DEF Onward, IInv, Located, Loads
<1> QED BY <1>3, <1>4, <1>5, Moved

LEMMA PromoteLocated ==
  ASSUME IInv, NEW m \in Messages, Promote(m)
  PROVE  Located'
<1>1. /\ At(m) # 0 /\ queue' = <<queue[At(m)]>> \o RemoveAt(queue, At(m))
      /\ UNCHANGED <<load, fateVars>> /\ UNCHANGED <<pc, wpc>>
  BY DEF Promote, loopVars
<1>2. QueueOK(queue') /\ Len(queue') = Len(queue) /\ Splits(queue, {}, queue')
  BY <1>1, AtFacts, ToFront, QueueTypes
<1>3. Queueing'
  BY <1>2, NewQueue, QueueTypes
<1>4. Apart' /\ \A x : Somewhere(x)' <=> Somewhere(x)
  BY <1>1, <1>2, Stay DEF IInv, Located
<1>5. Onward /\ Loads'
  BY <1>1 DEF Onward, IInv, Located, Loads
<1> QED BY <1>3, <1>4, <1>5, Moved

-----------------------------------------------------------------------------
(* The loop's steps.                                                       *)

LEMMA QuietLoop ==
  ASSUME IInv, NEW w \in Workers,
         \/ Peek(w) \/ RegisterTaken(w) \/ BuildTaken(w) \/ DeleteFlag(w) \/ Recover(w)
         \/ ExitCheckActive(w) \/ ExitRelaunch(w)
  PROVE  Located'
<1> DEFINE WTo(l) == \A v \in Workers : wpc'[v] = IF v = w THEN l ELSE wpc[v]
           AtWork == {"taking", "taken", "building", "executing"}
<1>1. UNCHANGED <<queue, load, fateVars>> /\ UNCHANGED pc
  BY DEF Peek, RegisterTaken, BuildTaken, DeleteFlag, Recover, ExitCheckActive, ExitRelaunch,
         queueVars, fateVars
<1>2. /\ \A v \in Workers : v # w => wpc'[v] = wpc[v]
      /\ wpc[w] \in AtWork => wpc'[w] \in AtWork
      /\ wpc'[w] = "taking" => wpc[w] = "top"
  <2>1. \A l : wpc' = [wpc EXCEPT ![w] = l] => WTo(l)
    BY DEF IInv, TypeOK
  <2>2. CASE Peek(w)
    <3>1. wpc[w] = "top" /\ (WTo("leaving") \/ WTo("taking"))
      BY <2>1, <2>2 DEF Peek, WGoto
    <3> QED BY <3>1
  <2>3. CASE RegisterTaken(w)
    BY <2>1, <2>3 DEF RegisterTaken, WGoto
  <2>4. CASE BuildTaken(w)
    BY <2>1, <2>4 DEF BuildTaken, WGoto
  <2>5. CASE DeleteFlag(w)
    <3>1. /\ wpc[w] \in {"leaving", "capped", "panicked", "stuck"}
          /\ WTo("left") \/ WTo("idle") \/ WTo("recovering")
      BY <2>1, <2>5 DEF DeleteFlag, WGoto
    <3> QED BY <3>1
  <2>6. CASE Recover(w)
    BY <2>1, <2>6 DEF Recover, WGoto
  <2>7. CASE ExitCheckActive(w)
    <3>1. wpc[w] = "left" /\ (WTo("idle") \/ WTo("unserved"))
      BY <2>1, <2>7 DEF ExitCheckActive, WGoto
    <3> QED BY <3>1
  <2>8. CASE ExitRelaunch(w)
    <3>1. wpc[w] = "unserved" /\ (WTo("idle") \/ WTo("top"))
      BY <2>1, <2>8 DEF ExitRelaunch, WGoto
    <3> QED BY <3>1
  <2> QED BY <2>2, <2>3, <2>4, <2>5, <2>6, <2>7, <2>8
<1>3. Onward
  BY <1>1 DEF Onward
<1>4. Loads /\ load' = load /\ pc' = pc
  BY <1>1 DEF IInv, Located
<1>5. \A v \in Workers : load'[v] # {} => wpc'[v] \in AtWork
  BY <1>2, <1>4 DEF Loads
<1>6. \A v \in Workers : wpc'[v] = "taking" => load'[v] \cap Followups = {}
  BY <1>2, <1>4 DEF Loads
<1>7. Loads'
  BY <1>4, <1>5, <1>6 DEF Loads
<1> QED BY <1>1, <1>3, <1>7, Quiet

(* The loop takes the head of the queue into its turn.                     *)
LEMMA TakeHead ==
  ASSUME IInv, NEW w \in Workers, queue # <<>>, wpc[w] = "taking",
         ShrinkTo(Tail(queue)), load' = [load EXCEPT ![w] = @ \cup Head(queue).msgs],
         UNCHANGED <<pc, fateVars>>
  PROVE  Queueing' /\ Apart' /\ (\A x : Somewhere(x)' <=> Somewhere(x)) /\ Onward
<1>1. /\ QueueOK(Tail(queue)) /\ Len(Tail(queue)) = Len(queue) - 1
      /\ Splits(queue, Head(queue).msgs, Tail(queue))
  BY DropHead, QueueTypes
<1>2. Queueing' /\ queue' = Tail(queue)
  <2>1. Len(Tail(queue)) <= Len(queue)
    BY <1>1, QueueTypes
  <2> QED BY <1>1, <2>1, ShrinkQueue
<1>3. Apart' /\ \A x : Somewhere(x)' <=> Somewhere(x)
  BY <1>1, <1>2, Take, QueueTypes, Sets DEF IInv, Located
<1>4. Onward
  BY DEF Onward
<1> QED BY <1>2, <1>3, <1>4

LEMMA TakeInjectLocated ==
  ASSUME IInv, NEW w \in Workers, TakeInject(w)
  PROVE  Located'
<1>1. /\ wpc[w] = "taking" /\ queue # <<>> /\ ~Dispatchable(Head(queue))
      /\ ShrinkTo(Tail(queue)) /\ load' = [load EXCEPT ![w] = @ \cup Head(queue).msgs]
      /\ UNCHANGED <<pc, fateVars>> /\ UNCHANGED wpc
  BY DEF TakeInject
<1>2. Queueing' /\ Apart' /\ (\A x : Somewhere(x)' <=> Somewhere(x)) /\ Onward
  BY <1>1, TakeHead
<1>3. Head(queue).msgs \cap Followups = {}
  <2>1. 1 \in 1..Len(queue) /\ Head(queue) = queue[1]
    BY <1>1, EmptySeq, QueueTypes
  <2> QED BY <1>1, <2>1, QueueTypes DEF QueueOK, Clean, Dispatchable
<1>4. \A o \in Owners : load'[o] = IF o = w THEN load[w] \cup Head(queue).msgs ELSE load[o]
  BY <1>1, QueueTypes DEF Loading
<1>5. Loads'
  BY <1>1, <1>3, <1>4, Sets DEF IInv, Located, Loads
<1> QED BY <1>2, <1>5, Moved

LEMMA TakeEntryLocated ==
  ASSUME IInv, NEW w \in Workers, TakeEntry(w)
  PROVE  Located'
<1>1. /\ wpc[w] = "taking" /\ queue # <<>>
      /\ ShrinkTo(Tail(queue)) /\ load' = [load EXCEPT ![w] = @ \cup Head(queue).msgs]
      /\ UNCHANGED <<pc, fateVars>> /\ wpc' = [wpc EXCEPT ![w] = "taken"]
  BY DEF TakeEntry, WGoto
<1>2. Queueing' /\ Apart' /\ (\A x : Somewhere(x)' <=> Somewhere(x)) /\ Onward
  BY <1>1, TakeHead
<1>3. \A o \in Owners : load'[o] = IF o = w THEN load[w] \cup Head(queue).msgs ELSE load[o]
  BY <1>1, QueueTypes DEF Loading
<1>4. \A v \in Workers : wpc'[v] = IF v = w THEN "taken" ELSE wpc[v]
  BY <1>1 DEF IInv, TypeOK
<1>5. Loads'
  BY <1>1, <1>3, <1>4, Sets DEF IInv, Located, Loads
<1> QED BY <1>2, <1>5, Moved

LEMMA TakeNothingLocated ==
  ASSUME IInv, NEW w \in Workers, TakeNothing(w)
  PROVE  Located'
<1>1. /\ wpc[w] = "taking" /\ UNCHANGED <<queue, fateVars>> /\ UNCHANGED pc
      /\ load' = [load EXCEPT ![w] = {}] /\ wpc' = [wpc EXCEPT ![w] = "leaving"]
  BY DEF TakeNothing, WGoto, queueVars
<1>2. Apart' /\ \A x : Somewhere(x)' <=> Somewhere(x) /\ x \notin load[w]
  BY <1>1, Lose, QueueTypes, Sets DEF IInv, Located
<1>3. load[w] \cap Followups = {}
  BY <1>1 DEF IInv, Located, Loads
<1>4. Fresh' /\ Kept'
  BY <1>1, <1>2, <1>3 DEF IInv, Located, Fresh, Kept
<1>5. \A o \in Owners : load'[o] = IF o = w THEN {} ELSE load[o]
  BY <1>1, QueueTypes DEF Loading
<1>6. \A v \in Workers : wpc'[v] = IF v = w THEN "leaving" ELSE wpc[v]
  BY <1>1 DEF IInv, TypeOK
<1>7. Loads'
  BY <1>1, <1>5, <1>6, Sets DEF IInv, Located, Loads
<1>8. Queueing'
  BY <1>1, QueueTypes, NewQueue
<1> QED BY <1>2, <1>4, <1>7, <1>8 DEF Located

(* The turn of the loop ends, well or not.                                 *)
LEMMA EndTakenLocated ==
  ASSUME IInv, NEW w \in Workers, EndTaken(w) \/ PanicTaken(w)
  PROVE  Located'
<1>1. /\ wpc[w] \in {"building", "executing"} /\ UNCHANGED queue /\ UNCHANGED pc
      /\ load' = [load EXCEPT ![w] = {}]
      /\ \E l \in {"top", "capped", "panicked", "stuck"} : wpc' = [wpc EXCEPT ![w] = l]
  BY DEF EndTaken, PanicTaken, WGoto, queueVars
<1>2. \/ served' = served \cup load[w] /\ UNCHANGED <<dlq, crashed, removed>>
      \/ dlq' = dlq \cup load[w] /\ UNCHANGED <<served, crashed, removed>>
      \/ crashed' = crashed \cup load[w] /\ UNCHANGED <<served, dlq, removed>>
  BY DEF EndTaken, PanicTaken
<1>3. Apart' /\ \A x : Somewhere(x)' <=> Somewhere(x)
  BY <1>1, <1>2, Deliver, QueueTypes, Sets DEF IInv, Located
<1>4. \A o \in Owners : load'[o] = IF o = w THEN {} ELSE load[o]
  BY <1>1, QueueTypes DEF Loading
<1>5. PICK l \in {"top", "capped", "panicked", "stuck"} :
        \A v \in Workers : wpc'[v] = IF v = w THEN l ELSE wpc[v]
  BY <1>1 DEF IInv, TypeOK
<1>6. Loads'
  BY <1>1, <1>4, <1>5, Sets DEF IInv, Located, Loads
<1>7. Queueing' /\ Onward
  BY <1>1, QueueTypes, NewQueue DEF Onward
<1> QED BY <1>3, <1>6, <1>7, Moved

LEMMA LocatedStep == IInv /\ [Next]_vars => Located'
<1> SUFFICES ASSUME IInv, [Next]_vars PROVE Located'
  OBVIOUS
<1>1. CASE UNCHANGED vars \/ CancelRun
  <2>1. UNCHANGED <<queue, load, fateVars>> /\ UNCHANGED <<pc, wpc>>
    BY <1>1 DEF vars, CancelRun, queueVars, loopVars
  <2>2. Onward /\ Loads'
    BY <2>1 DEF Onward, IInv, Located, Loads
  <2> QED BY <2>1, <2>2, Quiet
<1>2. ASSUME NEW m \in Messages,
             Send(m) \/ Call(m) \/ Turn(m) \/ CancelPendingMessage(m) \/ Promote(m) \/ Interrupt(m)
      PROVE  Located'
  BY <1>2, QuietSender, InjectLocated, AppendLocated, MergeLocated, FullLocated, LockLocated,
     RejectLocated, EndLocated, CancelLocated, PromoteLocated DEF Send, Call, Turn, Interrupt
<1>3. ASSUME NEW w \in Workers, Loop(w) \/ TurnTaken(w) PROVE Located'
  BY <1>3, QuietLoop, TakeInjectLocated, TakeEntryLocated, TakeNothingLocated, EndTakenLocated
     DEF Loop, TurnTaken
<1> QED BY <1>1, <1>2, <1>3 DEF Next

-----------------------------------------------------------------------------
(* The other types, and the depth of a loop.                               *)

LEMMA QueueTypeStep ==
  ASSUME Queueing'
  PROVE  /\ queue' \in Seq([id : Messages, msgs : SUBSET Messages, kind : Kinds])
         /\ Len(queue') <= MaxPending
  BY DEF Queueing, QueueOK, Entries

(* What is taken out of the queue are messages.                            *)
LEMMA HeldAreMessages ==
  ASSUME IInv
  PROVE  /\ \A i \in 1..Len(queue) : queue[i].msgs \subseteq Messages
         /\ queue # <<>> => Head(queue).msgs \subseteq Messages
<1>1. \A i \in 1..Len(queue) : queue[i].msgs \subseteq Messages
  BY QueueTypes DEF Entries
<1>2. queue # <<>> => 1 \in 1..Len(queue) /\ Head(queue) = queue[1]
  BY EmptySeq, QueueTypes
<1> QED BY <1>1, <1>2

LEMMA SenderTypes ==
  ASSUME IInv, Queueing', NEW m \in Messages,
         Send(m) \/ Call(m) \/ Turn(m) \/ CancelPendingMessage(m) \/ Promote(m) \/ Interrupt(m)
  PROVE  TypeOK' /\ Shallow'
<1>0. /\ queue' \in Seq([id : Messages, msgs : SUBSET Messages, kind : Kinds])
      /\ Len(queue') <= MaxPending
  BY QueueTypeStep
<1> USE <1>0, Sets DEF IInv, TypeOK, Shallow, Goto, loopVars, queueVars, slotVars, fateVars
<1>1. CASE CheckActive(m)
  BY <1>1 DEF CheckActive
<1>2. CASE EnqueueInject(m)
  <2>1. /\ \E l \in {"queued", "rejected"} : pc' = [pc EXCEPT ![m] = l]
        /\ UNCHANGED <<restored, slotVars, lock, loopVars, load, ipc, fateVars>>
    BY <1>2 DEF EnqueueInject
  <2> QED BY <2>1
<1>3. CASE CheckRestored(m)
  BY <1>3 DEF CheckRestored
<1>4. CASE CheckPolicy(m)
  <2>1. pc' = [pc EXCEPT ![m] = "gate"] \/ pc' = [pc EXCEPT ![m] = "rejected"]
    BY <1>4 DEF CheckPolicy
  <2>2. UNCHANGED <<queueVars, slotVars, lock, loopVars, load, ipc, fateVars>>
    BY <1>4 DEF CheckPolicy
  <2>3. CASE pc' = [pc EXCEPT ![m] = "gate"]
    BY <2>2, <2>3
  <2>4. CASE pc' = [pc EXCEPT ![m] = "rejected"]
    BY <2>2, <2>4
  <2> QED BY <2>1, <2>3, <2>4
<1>5. CASE GateCheck(m)
  BY <1>5 DEF GateCheck
<1>6. CASE EnqueueLook(m)
  <2>1. /\ \E l \in {"forcing", "looked", "rejected"} : pc' = [pc EXCEPT ![m] = l]
        /\ lock' \in Owners \cup {NoTurn}
    <3>1. CASE Busy(slot) \/ pc[m] = "force"
      BY <1>6, <3>1 DEF EnqueueLook
    <3>2. CASE ~(Busy(slot) \/ pc[m] = "force")
      BY <1>6, <3>2 DEF EnqueueLook
    <3> QED BY <3>1, <3>2
  <2>2. UNCHANGED <<queueVars, slotVars, loopVars, load, ipc, fateVars>>
    BY <1>6 DEF EnqueueLook
  <2> QED BY <2>1, <2>2
<1>7. CASE Steer(m)
  BY <1>7 DEF Steer
<1>8. CASE EnqueueAppend(m)
  BY <1>8 DEF EnqueueAppend
<1>9. CASE EnqueueMerge(m)
  BY <1>9 DEF EnqueueMerge
<1>10. CASE EnqueueFull(m)
  <2>1. /\ \E l \in {"forced", "queued", "rejected"} : pc' = [pc EXCEPT ![m] = l]
        /\ restored' \in BOOLEAN /\ lock' = NoTurn
        /\ UNCHANGED <<slotVars, loopVars, load, ipc, fateVars>>
    BY <1>10 DEF EnqueueFull, RescueFullInjectQueue
  <2> QED BY <2>1
<1>11. CASE GiveUp(m)
  BY <1>11 DEF GiveUp
<1>12. CASE Lock(m)
  <2>1. UNCHANGED <<slotVars, loop, wpc, depth, lead, ipc, served, dlq, crashed, removed>>
    BY <1>12 DEF Lock
  <2>2. /\ lock' \in Owners \cup {NoTurn} /\ restored' \in BOOLEAN
        /\ pc' = [pc EXCEPT ![m] = "rejected"] \/ pc' = [pc EXCEPT ![m] = "locked"]
    <3>1. CASE Busy(slot)
      BY <1>12, <3>1 DEF Lock
    <3>2. CASE ~Busy(slot)
      BY <1>12, <3>2 DEF Lock, ConsumeLeadingInjects, ShrinkTo
    <3> QED BY <3>1, <3>2
  <2>3. load' \in [Owners -> SUBSET Messages]
    <3> DEFINE n == IF FirstFollowup = 0 THEN Len(queue) ELSE FirstFollowup - 1
               T == UNION {queue[i].msgs : i \in 1..n}
    <3>1. n \in 0..Len(queue)
      BY FirstFollowupFacts, QueueTypes
    <3>2. \A i \in 1..n : queue[i].msgs \subseteq Messages
      BY <3>1, HeldAreMessages, QueueTypes
    <3>3. UNCHANGED load \/ load' = [load EXCEPT ![m] = {m} \cup T]
      BY <1>12 DEF Lock, ConsumeLeadingInjects
    <3> HIDE DEF n
    <3>4. T \subseteq Messages
      BY <3>2
    <3> HIDE DEF T
    <3>5. {m} \cup T \in SUBSET Messages /\ m \in Owners
      BY <3>4
    <3>6. load \in [Owners -> SUBSET Messages]
      OBVIOUS
    <3>7. CASE UNCHANGED load
      BY <3>6, <3>7
    <3>8. CASE load' = [load EXCEPT ![m] = {m} \cup T]
      BY <3>5, <3>6, <3>8
    <3> QED BY <3>3, <3>7, <3>8
  <2>4. Shallow'
    BY <2>1
  <2>5. CASE pc' = [pc EXCEPT ![m] = "rejected"]
    BY <2>1, <2>2, <2>3, <2>4, <2>5
  <2>6. CASE pc' = [pc EXCEPT ![m] = "locked"]
    BY <2>1, <2>2, <2>3, <2>4, <2>6
  <2> QED BY <2>2, <2>5, <2>6
<1>13. CASE RejectLocked(m)
  BY <1>13 DEF RejectLocked
<1>14. CASE Register(m)
  BY <1>14, StoredSlot DEF Register
<1>15. CASE Build(m)
  BY <1>15, StoredSlot DEF Build
<1>16. CASE End(m)
  BY <1>16, StoredSlot DEF End, Finish
<1>17. CASE ForceTrigger(m) \/ Trigger(m) \/ InterruptTrigger(m)
  <2>1. /\ Shallow' /\ loop' \in BOOLEAN /\ UNCHANGED lead
        /\ wpc' \in [Workers -> {"idle", "top", "taking", "taken", "building", "executing",
                                 "panicked", "recovering", "stuck", "capped", "leaving",
                                 "left", "unserved"}]
        /\ depth' \in [Workers -> 0..MaxDepth]
    <3>1. /\ Shallow' /\ loop' \in BOOLEAN /\ UNCHANGED lead
          /\ \/ UNCHANGED <<wpc, depth>>
             \/ \E w \in Workers : /\ wpc[w] = "idle" /\ wpc' = [wpc EXCEPT ![w] = "top"]
                                   /\ depth' = [depth EXCEPT ![w] = 0]
      BY <1>17, Launch DEF Guarded, ForceTrigger, Trigger, InterruptTrigger
    <3>2. CASE UNCHANGED <<wpc, depth>>
      BY <3>1, <3>2
    <3>3. CASE \E w \in Workers : /\ wpc[w] = "idle" /\ wpc' = [wpc EXCEPT ![w] = "top"]
                                  /\ depth' = [depth EXCEPT ![w] = 0]
      BY <3>1, <3>3
    <3> QED BY <3>1, <3>2, <3>3
  <2>2. CASE ForceTrigger(m)
    BY <2>1, <2>2 DEF ForceTrigger
  <2>3. CASE Trigger(m)
    BY <2>1, <2>3 DEF Trigger
  <2>4. CASE InterruptTrigger(m)
    BY <2>1, <2>4 DEF InterruptTrigger
  <2> QED BY <1>17, <2>2, <2>3, <2>4
<1>18. CASE CancelPendingMessage(m)
  <2>1. queue[At(m)].msgs \subseteq Messages
    BY <1>18, AtFacts, HeldAreMessages, QueueTypes DEF CancelPendingMessage
  <2> QED BY <1>18, <2>1 DEF CancelPendingMessage, ShrinkTo
<1>19. CASE Promote(m)
  BY <1>19 DEF Promote
<1>20. CASE InterruptCancel(m)
  <2>1. /\ UNCHANGED <<queueVars, lock, loopVars, pc, load, fateVars>>
        /\ \E l \in {"over", "cancelled"} : ipc' = [ipc EXCEPT ![m] = l]
        /\ UNCHANGED slotVars \/ Cancel
    BY <1>20 DEF InterruptCancel
  <2> QED BY <2>1, SlotTypes
<1>21. CASE InterruptLook(m)
  BY <1>21 DEF InterruptLook
<1>22. CASE Panic(m)
  <2>1. /\ \E l \in {"over", "ended"} : pc' = [pc EXCEPT ![m] = l]
        /\ UNCHANGED slotVars \/ Finish(m)
        /\ crashed' = crashed \cup load[m] /\ load' = [load EXCEPT ![m] = {}]
        /\ UNCHANGED <<queueVars, lock, loopVars, ipc, served, dlq, removed>>
    BY <1>22 DEF Panic
  <2> QED BY <2>1, SlotTypes
<1> QED
  BY <1>1, <1>2, <1>3, <1>4, <1>5, <1>6, <1>7, <1>8, <1>9, <1>10, <1>11, <1>12, <1>13, <1>14,
     <1>15, <1>16, <1>17, <1>18, <1>19, <1>20, <1>21, <1>22
     DEF Send, Call, Turn, Interrupt

LEMMA LoopTypes ==
  ASSUME IInv, Queueing', NEW w \in Workers, Loop(w) \/ TurnTaken(w)
  PROVE  TypeOK' /\ Shallow'
<1>0. /\ queue' \in Seq([id : Messages, msgs : SUBSET Messages, kind : Kinds])
      /\ Len(queue') <= MaxPending
  BY QueueTypeStep
<1> USE <1>0, Sets DEF IInv, TypeOK, Shallow, WGoto, queueVars, slotVars, fateVars
<1>1. CASE Peek(w)
  <2>1. UNCHANGED <<restored, slotVars, loop, depth, pc, load, ipc, served, dlq, crashed, removed>>
    BY <1>1 DEF Peek
  <2>2. FirstFollowup \in 0..MaxPending
    BY FirstFollowupFacts, QueueTypes
  <2>3. CASE FirstFollowup = 0 \/ Busy(slot)
    BY <1>1, <2>1, <2>3 DEF Peek
  <2>4. CASE ~(FirstFollowup = 0 \/ Busy(slot))
    <3>1. FirstFollowup - 1 \in 0..MaxPending
      BY <2>2, <2>4
    <3>2. /\ wpc[w] = "top" /\ lock' = w /\ wpc' = [wpc EXCEPT ![w] = "taking"]
          /\ lead' = [lead EXCEPT ![w] = FirstFollowup - 1]
      BY <1>1, <2>4 DEF Peek
    <3>3. lead' \in [Workers -> 0..MaxPending]
      BY <3>1, <3>2
    <3>4. Shallow'
      BY <2>1, <3>2
    <3> QED BY <2>1, <3>2, <3>3, <3>4
  <2> QED BY <2>3, <2>4
<1>2. CASE TakeInject(w)
  BY <1>2, HeldAreMessages DEF TakeInject, ShrinkTo
<1>3. CASE TakeEntry(w)
  BY <1>3, HeldAreMessages DEF TakeEntry, ShrinkTo
<1>4. CASE RegisterTaken(w)
  BY <1>4, StoredSlot DEF RegisterTaken
<1>5. CASE TakeNothing(w)
  BY <1>5 DEF TakeNothing
<1>6. CASE BuildTaken(w)
  BY <1>6, StoredSlot DEF BuildTaken
<1>7. CASE EndTaken(w)
  <2>1. depth[w] + 1 \in 0..MaxDepth /\ depth[w] \in Nat
    BY <1>7 DEF EndTaken
  <2>2. UNCHANGED <<restored, lock, loop, lead, pc, ipc, crashed, removed>>
    BY <1>7 DEF EndTaken
  <2>3. /\ load' \in [Owners -> SUBSET Messages]
        /\ served' \subseteq Messages /\ dlq' \subseteq Messages
    BY <1>7 DEF EndTaken
  <2>4. Finish(w)
    BY <1>7 DEF EndTaken
  <2>5. /\ depth' = [depth EXCEPT ![w] = depth[w] + 1]
        /\ \/ wpc' = [wpc EXCEPT ![w] = "top"] /\ depth[w] + 1 < MaxDepth
           \/ wpc' = [wpc EXCEPT ![w] = "capped"]
    BY <1>7 DEF EndTaken
  <2>6. Shallow' /\ depth' \in [Workers -> 0..MaxDepth]
    <3>1. CASE wpc' = [wpc EXCEPT ![w] = "top"] /\ depth[w] + 1 < MaxDepth
      BY <2>1, <2>5, <3>1
    <3>2. CASE wpc' = [wpc EXCEPT ![w] = "capped"]
      BY <2>1, <2>5, <3>2
    <3> QED BY <2>5, <3>1, <3>2
  <2> QED BY <2>2, <2>3, <2>4, <2>5, <2>6, StoredSlot DEF Finish
<1>8. CASE PanicTaken(w)
  <2>1. /\ \E l \in {"panicked", "stuck"} : wpc' = [wpc EXCEPT ![w] = l]
        /\ UNCHANGED slotVars \/ Finish(w)
        /\ crashed' = crashed \cup load[w] /\ load' = [load EXCEPT ![w] = {}]
        /\ UNCHANGED <<queueVars, lock, loop, depth, lead, pc, ipc, served, dlq, removed>>
    BY <1>8 DEF PanicTaken
  <2>2. /\ load' \in [Owners -> SUBSET Messages]
        /\ crashed' \subseteq Messages
    BY <2>1
  <2> QED BY <2>1, <2>2, SlotTypes
<1>9. CASE DeleteFlag(w)
  <2>1. UNCHANGED <<restored, slot, forced, lock, depth, lead, pc, load, ipc, served, dlq, crashed,
                    removed>>
    BY <1>9 DEF DeleteFlag
  <2>2. ~loop' /\ \E l \in {"left", "idle", "recovering"} : wpc' = [wpc EXCEPT ![w] = l]
    BY <1>9 DEF DeleteFlag
  <2>3. PICK l \in {"left", "idle", "recovering"} : wpc' = [wpc EXCEPT ![w] = l]
    BY <2>2
  <2>4. loop' = FALSE
    BY <1>9 DEF DeleteFlag
  <2>5. Shallow'
    BY <2>1, <2>3
  <2>6. wpc' \in [Workers -> {"idle", "top", "taking", "taken", "building", "executing",
                             "panicked", "recovering", "stuck", "capped", "leaving", "left",
                             "unserved"}]
    BY <2>3
  <2> QED BY <2>1, <2>4, <2>5, <2>6
<1>10. CASE Recover(w)
  BY <1>10, StoredSlot DEF Recover, Finish
<1>11. CASE ExitCheckActive(w)
  BY <1>11 DEF ExitCheckActive
<1>12. CASE ExitRelaunch(w)
  <2>1. UNCHANGED <<restored, slotVars, lock, lead, pc, load, ipc, served, dlq, crashed, removed>>
    BY <1>12 DEF ExitRelaunch
  <2>2. CASE FirstFollowup # 0 /\ ~loop
    <3>1. /\ loop' = TRUE /\ wpc' = [wpc EXCEPT ![w] = "top"]
          /\ depth' = [depth EXCEPT ![w] = 0]
      BY <1>12, <2>2 DEF ExitRelaunch
    <3> QED BY <2>1, <3>1
  <2>3. CASE ~(FirstFollowup # 0 /\ ~loop)
    <3>1. wpc' = [wpc EXCEPT ![w] = "idle"] /\ UNCHANGED <<loop, depth>>
      BY <1>12, <2>3 DEF ExitRelaunch
    <3> QED BY <2>1, <3>1
  <2> QED BY <2>2, <2>3
<1> QED
  BY <1>1, <1>2, <1>3, <1>4, <1>5, <1>6, <1>7, <1>8, <1>9, <1>10, <1>11, <1>12 DEF Loop, TurnTaken

-----------------------------------------------------------------------------
LEMMA InitQueue == Init => QueueOK(queue) /\ Len(queue) <= MaxPending
<1> SUFFICES ASSUME Init PROVE QueueOK(queue) /\ Len(queue) <= MaxPending
  OBVIOUS
<1>1. /\ RestoredRows \in Seq(Messages) /\ Len(RestoredRows) <= MaxPending
      /\ DOMAIN RestoredRows = 1..Len(RestoredRows) /\ Len(RestoredRows) \in Nat
      /\ \A i \in 1..Len(RestoredRows) : RestoredRows[i] \in Messages
      /\ KindOf \in [Messages -> Kinds]
  BY DrainAssumption, LenProperties, ElementOfSeq
<1>2. queue = [i \in 1..Len(RestoredRows) |->
                 [id |-> RestoredRows[i], msgs |-> {RestoredRows[i]},
                  kind |-> KindOf[RestoredRows[i]]]]
  BY <1>1 DEF Init
<1>3. queue \in Seq(Entries) /\ Len(queue) = Len(RestoredRows)
  BY <1>1, <1>2 DEF Entries
<1>4. Once(queue)
  BY <1>1, <1>2, <1>3, DrainAssumption DEF Once
<1>5. Clean(queue)
  BY <1>1, <1>2, <1>3 DEF Clean, Followups
<1> QED BY <1>1, <1>3, <1>4, <1>5 DEF QueueOK

LEMMA InitInvariant == Init => IInv
<1> SUFFICES ASSUME Init PROVE IInv
  OBVIOUS
<1>1. Queueing
  BY InitQueue DEF Queueing
<1>2. TypeOK
  <2>1. /\ queue \in Seq([id : Messages, msgs : SUBSET Messages, kind : Kinds])
        /\ Len(queue) <= MaxPending
    BY <1>1 DEF Queueing, QueueOK, Entries
  <2>2. restored \in BOOLEAN
    BY DEF Init
  <2>3. pc \in [Messages -> {"unsent", "queued"}]
    BY DEF Init
  <2>4. slot \in [present : BOOLEAN, run : Owners \cup {NoRun},
                 runner : Owners \cup {NoTurn}, cancel : Owners \cup {NoTurn},
                 placeholder : BOOLEAN, cancelling : BOOLEAN, cancelIntent : BOOLEAN]
    BY DEF Init, Vacant, ZeroRun
  <2>5. /\ loop = FALSE /\ forced = FALSE /\ lock = NoTurn /\ wpc = [w \in Workers |-> "idle"]
        /\ depth = [w \in Workers |-> 0] /\ lead = [w \in Workers |-> 0]
        /\ load = [o \in Owners |-> {}] /\ ipc = [m \in Messages |-> "none"]
        /\ served = {} /\ dlq = {} /\ crashed = {} /\ removed = {}
    BY DEF Init
  <2>6. 0 \in 0..MaxDepth /\ 0 \in 0..MaxPending
    BY Sets
  <2> QED BY <2>1, <2>2, <2>3, <2>4, <2>5, <2>6 DEF TypeOK
<1>3. Shallow
  BY Sets DEF Init, Shallow
<1>4. /\ DOMAIN RestoredRows = 1..Len(RestoredRows)
      /\ \A x : Held(queue, x) <=> x \in ToSet(RestoredRows)
  <2>1. DOMAIN RestoredRows = 1..Len(RestoredRows) /\ Len(RestoredRows) \in Nat
    BY DrainAssumption, LenProperties
  <2>2. queue = [i \in 1..Len(RestoredRows) |->
                   [id |-> RestoredRows[i], msgs |-> {RestoredRows[i]},
                    kind |-> KindOf[RestoredRows[i]]]]
    BY <2>1 DEF Init
  <2>3. Len(queue) = Len(RestoredRows)
    BY <2>1, <2>2
  <2> QED BY <2>1, <2>2, <2>3 DEF Held, ToSet
<1>5. \A x : ~InLoad(x) /\ ~InFate(x)
  BY DEF Init, InLoad, InFate
<1>6. Apart
  BY <1>5 DEF Apart, InLoad, InFate
<1>7. Fresh /\ Kept
  <2>1. \A m \in Messages : pc[m] = IF m \in ToSet(RestoredRows) THEN "queued" ELSE "unsent"
    BY DEF Init
  <2> QED BY <1>4, <1>5, <2>1, Sets DEF Fresh, Kept, FreshPcs, Somewhere
<1>8. Loads
  BY Sets DEF Init, Loads
<1> QED BY <1>1, <1>2, <1>3, <1>6, <1>7, <1>8, InitGuards DEF IInv, Located

LEMMA StepInvariant == IInv /\ [Next]_vars => IInv'
<1> SUFFICES ASSUME IInv, [Next]_vars PROVE IInv'
  OBVIOUS
<1>1. Located' /\ Queueing'
  BY LocatedStep DEF Located
<1>2. CASE UNCHANGED vars
  <2>1. TypeOK' /\ Shallow'
    BY <1>2 DEF IInv, TypeOK, Shallow, vars, queueVars, slotVars, loopVars, fateVars
  <2> QED BY <1>1, <1>2, <2>1, StutterGuards DEF IInv
<1>3. ASSUME NEW m \in Messages,
             Send(m) \/ Call(m) \/ Turn(m) \/ CancelPendingMessage(m) \/ Promote(m) \/ Interrupt(m)
      PROVE  IInv'
  BY <1>1, <1>3, SenderTypes, SenderGuards DEF IInv
<1>4. ASSUME NEW w \in Workers, Loop(w) \/ TurnTaken(w) PROVE IInv'
  BY <1>1, <1>4, LoopTypes, LoopGuards DEF IInv
<1>5. CASE CancelRun
  <2>1. TypeOK' /\ Shallow'
    <3>1. Cancel /\ UNCHANGED <<queueVars, lock, loopVars, pc, load, ipc, fateVars>>
      BY <1>5 DEF CancelRun
    <3>2. \E o : o \in Owners
      BY <1>5, DrainAssumption DEF CancelRun, Owners
    <3> QED BY <3>1, <3>2, SlotTypes DEF IInv, TypeOK, Shallow, queueVars, loopVars, fateVars
  <2>2. Guarded'
    BY <1>5, CancelGuards DEF CancelRun, loopVars
  <2> QED BY <1>1, <2>1, <2>2 DEF IInv
<1> QED BY <1>2, <1>3, <1>4, <1>5 DEF Next

LEMMA Invariant == Spec => []IInv
  BY InitInvariant, StepInvariant, PTL DEF Spec

-----------------------------------------------------------------------------
(* Who serves a queue.                                                     *)

(* The flag is that of a loop.                                             *)
Attended == loop => Flagged # {}

LEMMA TriggerAttends ==
  ASSUME IInv, Attended, NEW m \in Messages, ForceTrigger(m) \/ Trigger(m) \/ InterruptTrigger(m)
  PROVE  Attended'
<1>1. CASE UNCHANGED loopVars
  BY <1>1 DEF Attended, Flagged, loopVars
<1>2. CASE StartLoop
  <2>1. PICK w \in Workers : wpc[w] = "idle" /\ wpc' = [wpc EXCEPT ![w] = "top"]
    BY <1>2 DEF StartLoop, WGoto
  <2>2. \A v \in Workers : wpc'[v] = IF v = w THEN "top" ELSE wpc[v]
    BY <2>1 DEF IInv, TypeOK
  <2>3. w \in Flagged'
    BY <2>2 DEF Flagged
  <2> QED BY <2>3 DEF Attended
<1> QED
  BY <1>1, <1>2
     DEF ForceTrigger, Trigger, InterruptTrigger, TriggerPendingDrainFromIdle, ProcessPendingQueue

LEMMA SenderAttends ==
  ASSUME IInv, Attended, NEW m \in Messages,
         Send(m) \/ Call(m) \/ Turn(m) \/ CancelPendingMessage(m) \/ Promote(m) \/ Interrupt(m)
  PROVE  Attended'
<1>1. CASE ForceTrigger(m) \/ Trigger(m) \/ InterruptTrigger(m)
  BY <1>1, TriggerAttends
<1>2. CASE UNCHANGED loopVars
  BY <1>2 DEF Attended, Flagged, loopVars
<1>3. \/ ForceTrigger(m) \/ Trigger(m) \/ InterruptTrigger(m)
      \/ UNCHANGED loopVars
  BY DEF Send, Call, Turn, Interrupt, CheckActive, EnqueueInject, CheckRestored, CheckPolicy,
         GateCheck, EnqueueLook, Steer, EnqueueAppend, EnqueueMerge, EnqueueFull, GiveUp, Lock,
         RejectLocked, Register, Build, End, Panic, CancelPendingMessage, Promote,
         InterruptCancel, InterruptLook
<1> QED BY <1>1, <1>2, <1>3

LEMMA LoopAttends ==
  ASSUME IInv, Attended, NEW w \in Workers, Loop(w) \/ TurnTaken(w)
  PROVE  Attended'
<1> DEFINE WTo(l) == \A v \in Workers : wpc'[v] = IF v = w THEN l ELSE wpc[v]
           Off == {"idle", "recovering", "left", "unserved"}
(* Either w is still flagged, or the flag goes, or w had none.             *)
<1>2. ASSUME NEW l, wpc' = [wpc EXCEPT ![w] = l],
             l \notin Off \/ ~loop' \/ (wpc[w] \in Off /\ UNCHANGED loop)
      PROVE  Attended'
  <2>1. WTo(l)
    BY <1>2 DEF IInv, TypeOK
  <2> QED BY <1>2, <2>1 DEF Attended, Flagged
<1> USE DEF WGoto
<1>3. CASE TakeInject(w)
  BY <1>3 DEF TakeInject, Attended, Flagged
<1>4. CASE Peek(w) \/ TakeNothing(w) \/ TakeEntry(w)
  <2>1. PICK l \in {"leaving", "taking", "taken"} : wpc' = [wpc EXCEPT ![w] = l]
    BY <1>4 DEF Peek, TakeNothing, TakeEntry
  <2>2. l \notin Off
    OBVIOUS
  <2> QED BY <1>2, <2>1, <2>2
<1>5. CASE RegisterTaken(w) \/ BuildTaken(w) \/ EndTaken(w) \/ PanicTaken(w)
  <2>1. PICK l \in {"building", "executing", "top", "capped", "panicked", "stuck"} :
           wpc' = [wpc EXCEPT ![w] = l]
    BY <1>5 DEF RegisterTaken, BuildTaken, EndTaken, PanicTaken
  <2>2. l \notin Off
    OBVIOUS
  <2> QED BY <1>2, <2>1, <2>2
<1>6. CASE DeleteFlag(w)
  BY <1>6 DEF DeleteFlag, Attended
<1>7. CASE Recover(w) \/ ExitCheckActive(w)
  <2>1. /\ wpc[w] \in Off /\ UNCHANGED loop
        /\ \E l \in Off : wpc' = [wpc EXCEPT ![w] = l]
    BY <1>7 DEF Recover, ExitCheckActive
  <2> QED BY <1>2, <2>1
<1>8. CASE ExitRelaunch(w)
  <2>1. /\ wpc[w] \in Off
        /\ \/ wpc' = [wpc EXCEPT ![w] = "top"]
           \/ wpc' = [wpc EXCEPT ![w] = "idle"] /\ UNCHANGED loop
    BY <1>8 DEF ExitRelaunch
  <2>2. "top" \notin Off
    OBVIOUS
  <2> QED BY <1>2, <2>1, <2>2
<1> QED BY <1>3, <1>4, <1>5, <1>6, <1>7, <1>8 DEF Loop, TurnTaken

LEMMA AlwaysAttended == Spec => []Attended
<1>1. Init => Attended
  BY DEF Init, Attended
<1>2. IInv /\ Attended /\ [Next]_vars => Attended'
  <2>1. Attended /\ (UNCHANGED vars \/ CancelRun) => Attended'
    BY DEF Attended, Flagged, vars, CancelRun, loopVars
  <2> QED BY <2>1, SenderAttends, LoopAttends DEF Next
<1> QED BY <1>1, <1>2, Invariant, PTL DEF Spec

(* A call accepted for a run that has ended meanwhile, a chat turn that    *)
(* gives up, a drain that cannot read its session, a chat turn that panics *)
(* outside of its EXECUTE defer, a loop at its cap, and one that leaves    *)
(* because of a slot that is taken for nobody.                             *)
Stranding ==
  \/ \E m \in Messages : pc[m] = "looked" /\ pc'[m] = "queued"
  \/ \E m \in Messages : pc[m] \in {"admitted", "locked"} /\ pc'[m] = "rejected"
  \/ \E m \in Messages : pc[m] = "forced" /\ pc'[m] = "queued"
  \/ \E m \in Messages : pc[m] \in {"building", "executing"} /\ pc'[m] = "over"
  \/ \E w \in Workers : wpc[w] = "capped" /\ wpc'[w] = "idle"
  \/ \E w \in Workers : wpc[w] = "left" /\ wpc'[w] = "idle" /\ Orphaned

(* A panic in between StoreRunner and the EXECUTE defer.                   *)
Orphaning ==
  \/ \E m \in Messages : pc[m] = "executing" /\ pc'[m] = "over"
  \/ \E w \in Workers : wpc[w] = "executing" /\ wpc'[w] = "stuck"

LEMMA SameEntriesWait ==
  ASSUME IInv, From(queue', queue), queue' \in Seq(Entries), Waiting'
  PROVE  Waiting
<1>1. /\ DOMAIN queue = 1..Len(queue) /\ DOMAIN queue' = 1..Len(queue')
  BY LenProperties, QueueTypes
<1>2. PICK i \in 1..Len(queue') : Dispatchable(queue'[i]) /\ queue'[i].id \notin ToSet(RestoredRows)
  BY <1>1 DEF Waiting
<1>3. PICK j \in 1..Len(queue) : queue'[i] = queue[j]
  BY DEF From
<1> QED BY <1>1, <1>2, <1>3 DEF Waiting

(* A queue that waits longer, or another driver gone, by a step of a       *)
(* sender or a user.                                                       *)
LEMMA SenderStrands ==
  ASSUME IInv, Attended, QueueIsDriven, ~QueueIsDriven', NEW m \in Messages,
         Send(m) \/ Call(m) \/ Turn(m) \/ CancelPendingMessage(m) \/ Promote(m) \/ Interrupt(m)
  PROVE  Stranding
<1> DEFINE Quiet1 == /\ UNCHANGED wpc
                     /\ \A n \in Messages : pc[n] # pc'[n] =>
                          pc[n] \notin {"building", "executing", "forced", "ended", "admitted", "locked"}
           Fewer == Waiting' => Waiting
<1>1. Waiting' /\ ~Driven'
  BY DEF QueueIsDriven
<1>2. Quiet1 /\ Fewer => FALSE
  <2> SUFFICES ASSUME Quiet1, Waiting PROVE FALSE
    BY <1>1
  <2>1. Driven
    BY DEF QueueIsDriven
  <2> QED BY <1>1, <2>1 DEF Driven, Running
<1>3. UNCHANGED queue => Fewer
  BY DEF Waiting
<1> USE DEF IInv, TypeOK, Goto
<1>4. CASE CheckActive(m) \/ CheckRestored(m) \/ CheckPolicy(m) \/ GateCheck(m)
           \/ EnqueueLook(m) \/ Steer(m)
  <2>1. Quiet1 /\ UNCHANGED queue
    BY <1>4 DEF CheckActive, CheckRestored, CheckPolicy, GateCheck, EnqueueLook, Steer, loopVars,
                queueVars
  <2> QED BY <1>2, <1>3, <2>1
<1>5. CASE EnqueueInject(m)
  <2>1. Quiet1
    BY <1>5 DEF EnqueueInject, loopVars
  <2>2. Fewer
    <3>1. CASE UNCHANGED queue
      BY <1>3, <3>1
    <3>2. CASE queue' = Append(queue, Entry(m, {m}, "inject"))
      <4>1. queue \in Seq(Entries) /\ Len(queue) \in Nat /\ Entry(m, {m}, "inject") \in Entries
        BY QueueTypes DEF Entry, Entries, Kinds
      <4>2. /\ DOMAIN queue = 1..Len(queue) /\ DOMAIN queue' = 1..Len(queue) + 1
            /\ \A i \in 1..Len(queue) : queue'[i] = queue[i]
            /\ queue'[Len(queue) + 1] = Entry(m, {m}, "inject")
        BY <3>2, <4>1
      <4>3. ~Dispatchable(Entry(m, {m}, "inject"))
        BY DEF Dispatchable, Entry
      <4>4. PICK i \in DOMAIN queue' :
              Dispatchable(queue'[i]) /\ queue'[i].id \notin ToSet(RestoredRows)
        BY <1>1 DEF Waiting
      <4>5. i # Len(queue) + 1
        BY <4>2, <4>3, <4>4
      <4>6. i \in 1..Len(queue)
        BY <4>1, <4>2, <4>5
      <4> QED BY <4>2, <4>4, <4>6 DEF Waiting
    <3> QED BY <1>5, <3>1, <3>2 DEF EnqueueInject
  <2> QED BY <1>2, <2>1, <2>2
<1>6. CASE EnqueueAppend(m) \/ EnqueueMerge(m)
  <2>1. pc[m] \in {"looked", "forcing"} /\ pc'[m] \in {"queued", "forced"}
        /\ (pc[m] = "forcing" => pc'[m] = "forced")
    BY <1>6 DEF EnqueueAppend, EnqueueMerge
  <2> QED BY <1>1, <2>1 DEF Driven, Stranding
<1>7. CASE EnqueueFull(m)
  <2>1. CASE FirstFollowup # 0
    <3>1. Quiet1 /\ UNCHANGED queue
      BY <1>7, <2>1 DEF EnqueueFull, loopVars, queueVars
    <3> QED BY <1>2, <1>3, <3>1
  <2>2. CASE FirstFollowup = 0
    <3>1. pc[m] \in {"looked", "forcing"} /\ pc'[m] = IF pc[m] = "forcing" THEN "forced" ELSE "queued"
      BY <1>7, <2>2 DEF EnqueueFull
    <3> QED BY <1>1, <3>1 DEF Driven, Stranding
  <2> QED BY <2>1, <2>2
<1>8. CASE ForceTrigger(m)
  BY <1>8 DEF ForceTrigger, Stranding
<1>9. CASE GiveUp(m) \/ RejectLocked(m)
  BY <1>9 DEF GiveUp, RejectLocked, Stranding
<1>10. CASE Lock(m)
  <2>1. pc[m] = "admitted" /\ pc'[m] \in {"rejected", "locked"}
    BY <1>10 DEF Lock
  <2> QED BY <1>1, <2>1 DEF Driven, Stranding
<1>11. CASE Register(m) \/ Build(m)
  <2>1. m \in Running'
    BY <1>11 DEF Register, Build, Running
  <2> QED BY <1>1, <2>1 DEF Driven
<1>12. CASE End(m)
  <2>1. pc'[m] = "ended"
    BY <1>12 DEF End
  <2> QED BY <1>1, <2>1 DEF Driven
<1>13. CASE Trigger(m)
  <2>1. CASE loop /\ UNCHANGED loopVars
    <3>1. Flagged # {} /\ wpc' = wpc
      BY <2>1 DEF Attended, loopVars
    <3> QED BY <1>1, <3>1 DEF Driven, Flagged
  <2>2. CASE StartLoop
    <3>1. \E w \in Workers : wpc'[w] = "top"
      BY <2>2 DEF StartLoop, WGoto
    <3> QED BY <1>1, <3>1 DEF Driven
  <2> QED BY <1>13, <2>1, <2>2 DEF Trigger, ProcessPendingQueue
<1>14. CASE CancelPendingMessage(m)
  <2>1. queue' = RemoveAt(queue, At(m)) /\ At(m) # 0 /\ Quiet1
    BY <1>14 DEF CancelPendingMessage, ShrinkTo, loopVars
  <2>2. From(queue', queue) /\ queue' \in Seq(Entries)
    BY <2>1, AtFacts, DropAt, QueueTypes DEF QueueOK
  <2> QED BY <1>2, <2>1, <2>2, SameEntriesWait
<1>15. CASE Promote(m)
  <2>1. queue' = <<queue[At(m)]>> \o RemoveAt(queue, At(m)) /\ At(m) # 0 /\ Quiet1
    BY <1>15 DEF Promote, loopVars
  <2>2. From(queue', queue) /\ queue' \in Seq(Entries)
    BY <2>1, AtFacts, ToFront, QueueTypes DEF QueueOK
  <2> QED BY <1>2, <2>1, <2>2, SameEntriesWait
<1>16. CASE InterruptCancel(m) \/ InterruptLook(m)
  <2>1. UNCHANGED <<queue, wpc, pc>>
    BY <1>16 DEF InterruptCancel, InterruptLook, queueVars, loopVars
  <2>2. Waiting /\ Driven
    BY <1>1, <1>3, <2>1 DEF QueueIsDriven
  <2> QED BY <1>1, <2>1, <2>2 DEF Driven, Running
<1>17. CASE InterruptTrigger(m)
  <2>1. UNCHANGED <<queue, pc>>
    BY <1>17 DEF InterruptTrigger, queueVars
  <2>2. CASE UNCHANGED loopVars
    <3>1. Waiting /\ Driven
      BY <1>1, <1>3, <2>1 DEF QueueIsDriven
    <3> QED BY <1>1, <2>1, <2>2, <3>1 DEF Driven, Running, loopVars
  <2>3. CASE StartLoop
    <3>1. \E w \in Workers : wpc'[w] = "top"
      BY <2>3 DEF StartLoop, WGoto
    <3> QED BY <1>1, <3>1 DEF Driven
  <2> QED BY <1>17, <2>2, <2>3 DEF InterruptTrigger, TriggerPendingDrainFromIdle, ProcessPendingQueue
<1>18. CASE Panic(m)
  <2>1. pc[m] \in {"building", "executing"} /\ pc'[m] \in {"ended", "over"}
    BY <1>18 DEF Panic
  <2> QED BY <1>1, <2>1 DEF Driven, Stranding
<1> QED
  BY <1>4, <1>5, <1>6, <1>7, <1>8, <1>9, <1>10, <1>11, <1>12, <1>13, <1>14, <1>15, <1>16, <1>17,
     <1>18 DEF Send, Call, Turn, Interrupt

(* A loop goes idle at its depth cap, or because another goroutine serves  *)
(* the queue or nothing in it could be dispatched.                         *)
LEMMA LoopStrands ==
  ASSUME IInv, Attended, QueueIsDriven, ~QueueIsDriven', NEW w \in Workers, Loop(w) \/ TurnTaken(w)
  PROVE  Stranding
<1>1. Waiting' /\ ~Driven'
  BY DEF QueueIsDriven
<1>2. wpc'[w] = "idle"
  BY <1>1 DEF Driven
<1> USE DEF IInv, TypeOK, WGoto
<1>3. CASE DeleteFlag(w)
  <2>1. wpc[w] = "capped"
    BY <1>2, <1>3 DEF DeleteFlag
  <2> QED BY <1>2, <2>1 DEF Stranding
<1>4. CASE ExitCheckActive(w)
  <2>1. slot.present /\ wpc[w] = "left" /\ pc' = pc
    BY <1>2, <1>4 DEF ExitCheckActive, Busy
  <2>2. \A v \in Workers \ {w} : wpc'[v] = wpc[v]
    BY <1>4 DEF ExitCheckActive
  <2>3. \/ slot.run \in Running
        \/ \E v \in Workers \ {w} : wpc[v] \in {"panicked", "recovering"}
        \/ Orphaned
    BY <2>1 DEF Orphaned
  <2>4. Running' = Running
    BY <1>2, <2>1, <2>2 DEF Running
  <2> QED BY <1>1, <1>2, <2>1, <2>2, <2>3, <2>4 DEF Driven, Stranding
<1>5. CASE ExitRelaunch(w)
  <2>1. wpc[w] = "unserved" /\ UNCHANGED queue
    BY <1>5 DEF ExitRelaunch, queueVars
  <2>2. \A v \in Workers \ {w} : wpc'[v] = wpc[v]
    BY <1>5 DEF ExitRelaunch
  <2>3. FirstFollowup = 0 \/ loop
    BY <1>2, <1>5 DEF ExitRelaunch
  <2>4. CASE FirstFollowup = 0
    <3>1. \A i \in 1..Len(queue) : queue[i].kind = "inject"
      BY <2>4, FirstFollowupFacts, QueueTypes
    <3>2. DOMAIN queue = 1..Len(queue)
      BY LenProperties, QueueTypes
    <3> QED BY <1>1, <2>1, <3>1, <3>2 DEF Waiting, Dispatchable
  <2>5. CASE loop
    <3>1. \E v \in Workers \ {w} : wpc[v] # "idle"
      BY <2>1, <2>5 DEF Attended, Flagged
    <3> QED BY <1>1, <2>2, <3>1 DEF Driven
  <2> QED BY <2>3, <2>4, <2>5
<1>6. CASE \/ Peek(w) \/ TakeInject(w) \/ TakeEntry(w) \/ RegisterTaken(w) \/ TakeNothing(w)
           \/ BuildTaken(w) \/ EndTaken(w) \/ PanicTaken(w) \/ Recover(w)
  <2>1. wpc'[w] # "idle"
    BY <1>6 DEF Peek, TakeInject, TakeEntry, RegisterTaken, TakeNothing, BuildTaken, EndTaken, PanicTaken,
                Recover
  <2> QED BY <1>2, <2>1
<1> QED BY <1>3, <1>4, <1>5, <1>6 DEF Loop, TurnTaken

(* What a run that is over leaves in the slot is not its own.              *)
LEMMA NotOrphaned ==
  ASSUME IInv, ~Orphaned, NEW o,
         slot'.present => slot.present /\ slot'.run = slot.run /\ slot.run # o,
         \A p \in Running \ {o} : p \in Running',
         \A w \in Workers \ {o} :
           wpc[w] \in {"panicked", "recovering"} => wpc'[w] \in {"panicked", "recovering"}
  PROVE  ~Orphaned'
BY DEF Orphaned

LEMMA FinishOwn ==
  ASSUME IInv, NEW o \in Owners, Finish(o)
  PROVE  slot'.present => slot.present /\ slot'.run = slot.run /\ slot.run # o
BY DEF Finish, FinishMatches, Vacant, ZeroRun

LEMMA CancelKeepsRun ==
  ASSUME IInv, UNCHANGED slotVars \/ Cancel
  PROVE  slot'.present => slot.present /\ slot'.run = slot.run /\ slot.run # NoTurn
<1>1. slot.present => slot.run # NoTurn
  BY Sets DEF IInv, Guarded, SlotOwned
<1>2. slot'.present => slot.present /\ slot'.run = slot.run
  <2>1. CASE slot' = slot
    BY <2>1
  <2>2. CASE slot.present /\ slot' = MarkCancelling(slot, slot.run)
    BY <2>2 DEF IInv, TypeOK, MarkCancelling, StoreLocked
  <2>3. CASE slot' = Vacant
    BY <2>3 DEF Vacant, ZeroRun
  <2> QED BY <2>1, <2>2, <2>3 DEF Cancel, slotVars, Busy
<1> QED BY <1>1, <1>2

LEMMA SenderOrphans ==
  ASSUME IInv, ~Orphaned, Orphaned', NEW m \in Messages,
         Send(m) \/ Call(m) \/ Turn(m) \/ CancelPendingMessage(m) \/ Promote(m) \/ Interrupt(m)
  PROVE  Orphaning
<1> DEFINE Goes(l) == \A n \in Messages : pc'[n] = IF n = m THEN l ELSE pc[n]
<1>1. \A l : pc' = [pc EXCEPT ![m] = l] => Goes(l)
  BY DEF IInv, TypeOK
<1>2. CASE Register(m) \/ Build(m)
  <2>1. m \in Running'
    BY <1>1, <1>2 DEF Register, Build, Goto, Running
  <2>2. slot'.run = m
    <3>1. slot' = StoreCancelable(slot, m, m) \/ slot' = StoreRunner(slot, m, m)
      BY <1>2 DEF Register, Build
    <3> QED BY <3>1, Sets DEF StoreCancelable, StoreRunner, StoreLocked, ZeroRun
  <2> QED BY <2>1, <2>2 DEF Orphaned
<1>3. CASE Turn(m) /\ ~Build(m)
  <2>1. /\ pc[m] \in {"building", "executing"} /\ UNCHANGED wpc
        /\ \E l \in {"ended", "over"} : pc' = [pc EXCEPT ![m] = l]
        /\ Finish(m) \/ (pc[m] = "executing" /\ pc' = [pc EXCEPT ![m] = "over"])
    <3>1. CASE End(m)
      BY <3>1 DEF End, Goto, loopVars
    <3>2. CASE Panic(m)
      BY <3>2 DEF Panic, Goto, loopVars
    <3> QED BY <1>3, <3>1, <3>2 DEF Turn
  <2>2. CASE Finish(m)
    <3>1. \A p \in Running \ {m} : p \in Running'
      BY <1>1, <2>1 DEF Running
    <3> QED BY <2>1, <2>2, <3>1, FinishOwn, NotOrphaned, Sets
  <2>3. CASE pc[m] = "executing" /\ pc' = [pc EXCEPT ![m] = "over"]
    BY <1>1, <2>3 DEF Orphaning
  <2> QED BY <2>1, <2>2, <2>3
<1>4. CASE ~(Register(m) \/ Turn(m))
  <2>1. UNCHANGED slotVars \/ Cancel
    BY <1>4 DEF Send, Call, Interrupt, CheckActive, EnqueueInject, CheckRestored, CheckPolicy,
         GateCheck, EnqueueLook, Steer, EnqueueAppend, EnqueueMerge, EnqueueFull, ForceTrigger,
         GiveUp, Lock, RejectLocked, Trigger, CancelPendingMessage, Promote, InterruptCancel,
         InterruptLook, InterruptTrigger
  <2>2. \/ UNCHANGED pc
        \/ /\ pc[m] \notin {"building", "executing"}
           /\ \A n \in Messages \ {m} : pc'[n] = pc[n]
    BY <1>1, <1>4 DEF Send, Call, Interrupt, CheckActive, EnqueueInject, CheckRestored, CheckPolicy,
         GateCheck, EnqueueLook, Steer, EnqueueAppend, EnqueueMerge, EnqueueFull, ForceTrigger,
         GiveUp, Lock, RejectLocked, Trigger, CancelPendingMessage, Promote, InterruptCancel,
         InterruptLook, InterruptTrigger, Goto
  <2>3. UNCHANGED loopVars \/ ProcessPendingQueue \/ TriggerPendingDrainFromIdle
    BY <1>4 DEF Send, Call, Interrupt, CheckActive, EnqueueInject, CheckRestored, CheckPolicy,
         GateCheck, EnqueueLook, Steer, EnqueueAppend, EnqueueMerge, EnqueueFull, ForceTrigger,
         GiveUp, Lock, RejectLocked, Trigger, CancelPendingMessage, Promote, InterruptCancel,
         InterruptLook, InterruptTrigger
  <2>4. \A w \in Workers : wpc'[w] = wpc[w] \/ wpc[w] = "idle"
    <3>1. UNCHANGED wpc \/ \E v \in Workers : wpc[v] = "idle" /\ wpc' = [wpc EXCEPT ![v] = "top"]
      BY <2>3 DEF ProcessPendingQueue, TriggerPendingDrainFromIdle, StartLoop, WGoto, loopVars
    <3> QED BY <3>1 DEF IInv, TypeOK
  <2>5. \A p \in Running : p \in Running'
    BY <2>2, <2>4 DEF Running
  <2> QED BY <2>1, <2>4, <2>5, CancelKeepsRun, NotOrphaned
<1> QED BY <1>2, <1>3, <1>4 DEF Turn

LEMMA LoopOrphans ==
  ASSUME IInv, ~Orphaned, Orphaned', NEW w \in Workers, Loop(w) \/ TurnTaken(w)
  PROVE  Orphaning
<1> DEFINE WTo(l) == \A v \in Workers : wpc'[v] = IF v = w THEN l ELSE wpc[v]
           Underway == {"building", "executing"}
           Failing == {"panicked", "recovering"}
<1>1. \A l : wpc' = [wpc EXCEPT ![w] = l] => WTo(l)
  BY DEF IInv, TypeOK
<1>2. UNCHANGED pc
  BY DEF Loop, TurnTaken, Peek, TakeInject, TakeEntry, RegisterTaken, TakeNothing, BuildTaken,
         EndTaken, PanicTaken, DeleteFlag, Recover, ExitCheckActive, ExitRelaunch
<1>3. CASE RegisterTaken(w) \/ BuildTaken(w)
  <2>1. WTo("building") \/ WTo("executing")
    BY <1>1, <1>3 DEF RegisterTaken, BuildTaken, WGoto
  <2>2. slot'.run = w
    <3>1. slot' = StoreCancelable(slot, w, w) \/ slot' = StoreRunner(slot, w, w)
      BY <1>3 DEF RegisterTaken, BuildTaken
    <3> QED BY <3>1, Sets DEF StoreCancelable, StoreRunner, StoreLocked, ZeroRun
  <2>3. w \in Running'
    BY <2>1 DEF Running
  <2> QED BY <2>2, <2>3 DEF Orphaned
<1>4. CASE Finish(w) /\ (EndTaken(w) \/ PanicTaken(w) \/ Recover(w))
  <2>1. \A v \in Workers \ {w} : wpc'[v] = wpc[v]
    BY <1>1, <1>4 DEF EndTaken, PanicTaken, Recover, WGoto
  <2>2. \A p \in Running \ {w} : p \in Running'
    BY <1>2, <2>1, Sets DEF Running
  <2> QED BY <1>4, <2>1, <2>2, FinishOwn, NotOrphaned, Sets
<1>5. CASE PanicTaken(w) /\ ~Finish(w)
  <2>1. /\ UNCHANGED slotVars /\ wpc[w] \in Underway
        /\ WTo("panicked") \/ (wpc[w] = "executing" /\ WTo("stuck"))
    BY <1>1, <1>5 DEF PanicTaken, WGoto
  <2>2. CASE WTo("panicked")
    <3>1. \A p \in Running \ {w} : p \in Running'
      BY <1>2, <2>2, Sets DEF Running
    <3>2. slot' = slot /\ wpc'[w] = "panicked" /\ \A v \in Workers \ {w} : wpc'[v] = wpc[v]
      BY <2>1, <2>2 DEF slotVars
    <3> QED BY <3>1, <3>2 DEF Orphaned
  <2>3. CASE wpc[w] = "executing" /\ WTo("stuck")
    BY <2>3 DEF Orphaning
  <2> QED BY <2>1, <2>2, <2>3
<1>6. CASE \/ Peek(w) \/ TakeInject(w) \/ TakeEntry(w) \/ TakeNothing(w)
           \/ DeleteFlag(w) \/ ExitCheckActive(w) \/ ExitRelaunch(w)
  <2>1. UNCHANGED slotVars
    BY <1>6 DEF Peek, TakeInject, TakeEntry, TakeNothing, DeleteFlag, ExitCheckActive, ExitRelaunch
  <2>2. \/ UNCHANGED wpc
        \/ /\ wpc[w] \notin Underway
           /\ \E l : WTo(l) /\ (wpc[w] \in Failing => l \in Failing)
    <3>1. CASE TakeInject(w)
      BY <3>1 DEF TakeInject
    <3>2. CASE Peek(w) \/ TakeEntry(w) \/ TakeNothing(w)
      <4>1. wpc[w] \in {"top", "taking"} /\ \E l : wpc' = [wpc EXCEPT ![w] = l]
        BY <3>2 DEF Peek, TakeEntry, TakeNothing, WGoto
      <4> QED BY <1>1, <4>1
    <3>3. CASE ExitCheckActive(w) \/ ExitRelaunch(w)
      <4>1. wpc[w] \in {"left", "unserved"} /\ \E l : wpc' = [wpc EXCEPT ![w] = l]
        BY <3>3 DEF ExitCheckActive, ExitRelaunch, WGoto
      <4> QED BY <1>1, <4>1
    <3>4. CASE DeleteFlag(w)
      <4>1. /\ wpc[w] \in {"leaving", "capped", "panicked", "stuck"}
            /\ \E l : /\ wpc' = [wpc EXCEPT ![w] = l]
                      /\ wpc[w] = "panicked" => l = "recovering"
        BY <3>4 DEF DeleteFlag, WGoto
      <4> QED BY <1>1, <4>1
    <3> QED BY <1>6, <3>1, <3>2, <3>3, <3>4
  <2>3. \A v \in Workers : /\ wpc[v] \in Underway => wpc'[v] \in Underway
                           /\ wpc[v] \in Failing => wpc'[v] \in Failing
    BY <2>2
  <2>4. \A p \in Running : p \in Running'
    BY <1>2, <2>3 DEF Running
  <2> QED BY <2>1, <2>3, <2>4, CancelKeepsRun, NotOrphaned
<1> QED BY <1>3, <1>4, <1>5, <1>6 DEF Loop, TurnTaken, EndTaken, Recover

-----------------------------------------------------------------------------
(* From the invariant to what it says in numbers.                          *)

LEMMA AtMostOne ==
  ASSUME NEW S, \A a, b \in S : a = b
  PROVE  Cardinality(S) = IF S = {} THEN 0 ELSE 1
<1>1. CASE S = {}
  BY <1>1, FS_EmptySet
<1>2. CASE S # {}
  <2>1. PICK a : S = {a}
    BY <1>2
  <2> QED BY <1>2, <2>1, FS_Singleton
<1> QED BY <1>1, <1>2

(* Where a message is counts once for each kind of place.                  *)
LEMMA PlacesCount ==
  ASSUME IInv, NEW m
  PROVE  Places(m) = IF Somewhere(m) THEN 1 ELSE 0
<1> DEFINE Q == {i \in DOMAIN queue : m \in queue[i].msgs}
           L == {o \in Owners : m \in load[o]}
           F == {S \in {<<1, served>>, <<2, dlq>>, <<3, crashed>>, <<4, removed>>} : m \in S[2]}
<1>1. Cardinality(Q) = IF Held(queue, m) THEN 1 ELSE 0
  <2>1. DOMAIN queue = 1..Len(queue)
    BY LenProperties, QueueTypes
  <2>2. \A i, j \in Q : i = j
    BY <2>1, QueueTypes DEF QueueOK, Once
  <2>3. Q # {} <=> Held(queue, m)
    BY <2>1 DEF Held
  <2> HIDE DEF Q
  <2> QED BY <2>2, <2>3, AtMostOne
<1>2. Cardinality(L) = IF InLoad(m) THEN 1 ELSE 0
  <2>1. \A o, p \in L : o = p
    BY DEF IInv, Located, Apart
  <2>2. L # {} <=> InLoad(m)
    BY DEF InLoad
  <2> HIDE DEF L
  <2> QED BY <2>1, <2>2, AtMostOne
<1>3. Cardinality(F) = IF InFate(m) THEN 1 ELSE 0
  <2>1. /\ m \in served => m \notin dlq /\ m \notin crashed /\ m \notin removed
        /\ m \in dlq => m \notin crashed /\ m \notin removed
        /\ m \in crashed => m \notin removed
    BY DEF IInv, Located, Apart
  <2> DEFINE Left(S) == \/ S = <<1, served>> /\ m \in served
                        \/ S = <<2, dlq>> /\ m \in dlq
                        \/ S = <<3, crashed>> /\ m \in crashed
                        \/ S = <<4, removed>> /\ m \in removed
  <2>0. \A S : S \in F <=> Left(S)
    OBVIOUS
  <2>2. \A S, U \in F : S = U
    <3>1. \A S, U : Left(S) /\ Left(U) => S = U
      BY <2>1
    <3> HIDE DEF F, Left
    <3> QED BY <2>0, <3>1
  <2>3. F # {} <=> InFate(m)
    BY <2>0 DEF InFate
  <2> HIDE DEF F
  <2> QED BY <2>2, <2>3, AtMostOne
<1>4. Places(m) = Cardinality(Q) + Cardinality(L) + Cardinality(F)
  BY DEF Places
<1>5. /\ Held(queue, m) => ~InLoad(m) /\ ~InFate(m)
      /\ InLoad(m) => ~InFate(m)
  BY DEF IInv, Located, Apart
<1> HIDE DEF Q, L, F
<1> QED BY <1>1, <1>2, <1>3, <1>4, <1>5 DEF Somewhere

-----------------------------------------------------------------------------
(* Every variable keeps its type; the queue keeps MaxPendingPerSession     *)
(* (pending_queue.go:162, :191, :234), a loop its depth cap.               *)
THEOREM TypeCorrect == Spec => []TypeOK
<1>1. IInv => TypeOK
  BY DEF IInv
<1> QED BY <1>1, Invariant, PTL

(* However many senders, loops, panics and interrupts there are, one turn  *)
(* at a time is between its registration and its Finish                    *)
(* (chat_orchestrator_turn.go:179-192, turn_dispatch.go:300-303), as long  *)
(* as no Cancel has removed the entry of a run that was still under way    *)
(* (run_registry.go:366-380).                                              *)
THEOREM TurnsExclude == Spec => []OneTurnAtATime
<1>1. IInv => OneTurnAtATime
  <2> SUFFICES ASSUME IInv, ~forced PROVE Cardinality(Running) <= 1
    BY DEF OneTurnAtATime
  <2>1. \A o, p \in Running : o = p
    BY DEF IInv, Guarded, SlotOwned
  <2> QED BY <2>1, AtMostOne
<1> QED BY <1>1, Invariant, PTL

(* However many triggers, panics and restarts on the way out there are,    *)
(* the flag of pendingLoops lets one loop live (turn_dispatch.go:298-300). *)
THEOREM LoopsExclude == Spec => []SingleFlight
<1>1. IInv => SingleFlight
  <2> SUFFICES ASSUME IInv PROVE Cardinality(Flagged) <= 1
    BY DEF SingleFlight, Flagged
  <2>1. \A v, w \in Flagged : v = w
    BY DEF IInv, Guarded, OneLoop
  <2> QED BY <2>1, AtMostOne
<1> QED BY <1>1, Invariant, PTL

(* No message is given to two turns, nor to a turn and a dead letter or a  *)
(* removal (pending_queue.go:285-289).                                     *)
THEOREM DeliveredOnce == Spec => []NoDoubleDelivery
<1>1. IInv => NoDoubleDelivery
  BY PlacesCount DEF NoDoubleDelivery
<1> QED BY <1>1, Invariant, PTL

(* A follow-up that was accepted stays in one place until it has been run, *)
(* dead-lettered, taken back or lost to a panic (turn_dispatch.go:392-395).*)
THEOREM AcceptedIsKept == Spec => []FollowupsNeverVanish
<1>1. IInv => FollowupsNeverVanish
  BY PlacesCount DEF FollowupsNeverVanish, IInv, Located, Kept
<1> QED BY <1>1, Invariant, PTL

(* What leaves a queue to itself, in a session without durable resumes:    *)
(* all there is beside "unserved queues are relaunched"                    *)
(* (turn_dispatch.go:335-337).  Whatever else users, turns, cancels and    *)
(* loops do, an entry that could be dispatched has a run, a drain or a     *)
(* loop ahead of it.  In particular a loop only leaves it to a slot that   *)
(* is taken for nobody, and the one step that takes a slot for nobody is a *)
(* panic after StoreRunner and before the EXECUTE defer                    *)
(* (chat_orchestrator_turn_phases_part2.go:104,                            *)
(* chat_orchestrator_turn_trpc.go:409).                                    *)
THEOREM OnlyTheseStrand ==
  Spec => [][/\ QueueIsDriven /\ ~QueueIsDriven' =>
                  \/ \E m \in Messages : pc[m] = "looked" /\ pc'[m] = "queued"
                  \/ \E m \in Messages : pc[m] \in {"admitted", "locked"} /\ pc'[m] = "rejected"
                  \/ \E m \in Messages : pc[m] = "forced" /\ pc'[m] = "queued"
                  \/ \E m \in Messages : pc[m] \in {"building", "executing"} /\ pc'[m] = "over"
                  \/ \E w \in Workers : wpc[w] = "capped" /\ wpc'[w] = "idle"
                  \/ \E w \in Workers : wpc[w] = "left" /\ wpc'[w] = "idle" /\ Orphaned
             /\ ~Orphaned /\ Orphaned' =>
                  \/ \E m \in Messages : pc[m] = "executing" /\ pc'[m] = "over"
                  \/ \E w \in Workers : wpc[w] = "executing" /\ wpc'[w] = "stuck"]_vars
<1>1. IInv /\ Attended /\ [Next]_vars
        => [/\ QueueIsDriven /\ ~QueueIsDriven' => Stranding
            /\ ~Orphaned /\ Orphaned' => Orphaning]_vars
  <2> SUFFICES ASSUME IInv, Attended, Next
               PROVE  /\ QueueIsDriven /\ ~QueueIsDriven' => Stranding
                      /\ ~Orphaned /\ Orphaned' => Orphaning
    OBVIOUS
  <2>1. CASE CancelRun
    <3>1. UNCHANGED <<queue, wpc, pc>> /\ Cancel
      BY <2>1 DEF CancelRun, queueVars, loopVars
    <3>2. UNCHANGED <<Waiting, Driven, Running>>
      BY <3>1 DEF Waiting, Driven, Running
    <3>3. ~Orphaned => ~Orphaned'
      BY <3>1, <3>2, CancelKeepsRun, NotOrphaned
    <3> QED BY <3>2, <3>3 DEF QueueIsDriven
  <2> QED BY <2>1, SenderStrands, LoopStrands, SenderOrphans, LoopOrphans DEF Next
<1> QED BY <1>1, Invariant, AlwaysAttended, PTL DEF Spec, Stranding, Orphaning
=============================================================================
