------------------------ MODULE LaneScheduler_proofs ------------------------
(***************************************************************************)
(* Proofs about LaneScheduler for any set of turns, any classification of  *)
(* them and any limits.                                                    *)
(***************************************************************************)
EXTENDS LaneScheduler, FiniteSetTheorems, SequenceTheorems, TLAPS

USE DEF Lanes

-----------------------------------------------------------------------------
(* Sequences without repetitions, as the queues of waiters are.            *)

NoRepeats(q) == \A i, j \in DOMAIN q : q[i] = q[j] => i = j

(* Appending a new element (Acquire queues a fresh waiter).                *)
LEMMA AppendFresh ==
  ASSUME NEW T, NEW q \in Seq(T), NEW x \in T, NoRepeats(q), x \notin ToSet(q)
  PROVE  /\ Append(q, x) \in Seq(T)
         /\ ToSet(Append(q, x)) = ToSet(q) \cup {x}
         /\ NoRepeats(Append(q, x))
<1> DEFINE r == Append(q, x)
<1>1. r \in Seq(T) /\ Len(r) = Len(q) + 1 /\ Len(q) \in Nat
  OBVIOUS
<1>2. /\ \A i \in 1..Len(q) : r[i] = q[i]
      /\ r[Len(q) + 1] = x
  OBVIOUS
<1>3. DOMAIN q = 1..Len(q) /\ DOMAIN r = 1..(Len(q) + 1)
  BY <1>1
<1> HIDE DEF r
<1>4. \A i \in DOMAIN q : q[i] # x
  BY DEF ToSet
<1>5. ToSet(r) = ToSet(q) \cup {x}
  <2>1. ASSUME NEW y \in ToSet(r) PROVE y \in ToSet(q) \cup {x}
    BY <1>1, <1>2, <1>3 DEF ToSet
  <2>2. ASSUME NEW y \in ToSet(q) PROVE y \in ToSet(r)
    <3>1. PICK i \in 1..Len(q) : y = q[i]
      BY <1>3 DEF ToSet
    <3>2. i \in DOMAIN r /\ r[i] = y
      BY <1>1, <1>2, <1>3, <3>1
    <3> QED BY <3>2 DEF ToSet
  <2>3. x \in ToSet(r)
    BY <1>1, <1>2, <1>3 DEF ToSet
  <2> QED BY <2>1, <2>2, <2>3
<1>6. NoRepeats(r)
  BY <1>1, <1>2, <1>3, <1>4 DEF NoRepeats
<1> QED BY <1>1, <1>5, <1>6 DEF r

(* Taking the head away (signalNextLocked pops the waiter it signals).     *)
LEMMA TakeHead ==
  ASSUME NEW T, NEW q \in Seq(T), q # <<>>, NoRepeats(q)
  PROVE  LET r == SubSeq(q, 2, Len(q))
         IN  /\ r \in Seq(T)
             /\ q[1] \in T
             /\ q[1] \in ToSet(q)
             /\ ToSet(r) = ToSet(q) \ {q[1]}
             /\ NoRepeats(r)
<1> DEFINE r == SubSeq(q, 2, Len(q))
<1>1. Len(q) \in Nat /\ Len(q) >= 1 /\ DOMAIN q = 1..Len(q)
  OBVIOUS
<1>2. r \in Seq(T) /\ Len(r) = Len(q) - 1 /\ DOMAIN r = 1..(Len(q) - 1)
  BY <1>1
<1>3. \A i \in 1..(Len(q) - 1) : r[i] = q[i + 1]
  BY <1>1
<1> HIDE DEF r
<1>4. q[1] \in T /\ q[1] \in ToSet(q)
  BY <1>1 DEF ToSet
<1>5. ToSet(r) = ToSet(q) \ {q[1]}
  <2>1. ASSUME NEW y \in ToSet(r) PROVE y \in ToSet(q) /\ y # q[1]
    <3>1. PICK i \in 1..(Len(q) - 1) : y = q[i + 1]
      BY <1>2, <1>3 DEF ToSet
    <3>2. i + 1 \in DOMAIN q /\ 1 \in DOMAIN q /\ i + 1 # 1
      BY <1>1
    <3> QED BY <3>1, <3>2 DEF ToSet, NoRepeats
  <2>2. ASSUME NEW y \in ToSet(q), y # q[1] PROVE y \in ToSet(r)
    <3>1. PICK i \in 1..Len(q) : y = q[i]
      BY <1>1 DEF ToSet
    <3>2. i # 1 /\ i - 1 \in 1..(Len(q) - 1)
      BY <1>1, <3>1, <2>2
    <3>3. r[i - 1] = y
      BY <1>1, <1>3, <3>1, <3>2
    <3> QED BY <1>2, <3>2, <3>3 DEF ToSet
  <2> QED BY <2>1, <2>2
<1>6. NoRepeats(r)
  <2> SUFFICES ASSUME NEW i \in DOMAIN r, NEW j \in DOMAIN r, r[i] = r[j]
               PROVE  i = j
    BY DEF NoRepeats
  <2>1. i + 1 \in DOMAIN q /\ j + 1 \in DOMAIN q /\ q[i + 1] = q[j + 1]
    BY <1>1, <1>2, <1>3
  <2> QED BY <1>1, <1>2, <2>1 DEF NoRepeats
<1> QED BY <1>2, <1>4, <1>5, <1>6 DEF r

(* Removing an element from the middle (dropWaiter).                       *)
LEMMA RemoveWaiter ==
  ASSUME NEW T, NEW q \in Seq(T), NEW x, NoRepeats(q)
  PROVE  /\ RemoveFirst(q, x) \in Seq(T)
         /\ ToSet(RemoveFirst(q, x)) = ToSet(q) \ {x}
         /\ NoRepeats(RemoveFirst(q, x))
<1>0. Len(q) \in Nat /\ DOMAIN q = 1..Len(q)
  OBVIOUS
<1>1. CASE ~ \E i \in 1..Len(q) : q[i] = x
  <2>1. RemoveFirst(q, x) = q
    BY <1>1 DEF RemoveFirst
  <2>2. x \notin ToSet(q)
    BY <1>0, <1>1 DEF ToSet
  <2> QED BY <2>1, <2>2
<1>2. CASE \E i \in 1..Len(q) : q[i] = x
  <2>1. PICK k \in 1..Len(q) : q[k] = x
    BY <1>2
  <2>2. {i \in 1..Len(q) : q[i] = x} = {k}
    BY <1>0, <2>1 DEF NoRepeats
  <2>3. Min({k}) = k
    BY DEF Min
  <2>4. SelectInSeq(q, LAMBDA v : v = x) = k
    BY <2>2, <2>3 DEF SelectInSeq
  <2> DEFINE r == SubSeq(q, 1, k - 1) \o SubSeq(q, k + 1, Len(q))
  <2>5. RemoveFirst(q, x) = r
    BY <1>2, <2>4 DEF RemoveFirst, RemoveAt
  <2>6. /\ r \in Seq(T)
        /\ Len(r) = Len(q) - 1
        /\ \A i \in 1..(Len(q) - 1) : r[i] = IF i < k THEN q[i] ELSE q[i + 1]
    <3> DEFINE s1 == SubSeq(q, 1, k - 1)
               s2 == SubSeq(q, k + 1, Len(q))
    <3>0. \A i \in 1..Len(q) : q[i] \in T
      BY <1>0
    <3>1. /\ s1 \in Seq(T) /\ Len(s1) = k - 1
          /\ \A i \in 1..(k - 1) : s1[i] = q[i]
      <4>1. \A i \in 1..(k - 1) : q[i] \in T
        BY <1>0, <3>0
      <4>2. /\ s1 \in Seq(T)
            /\ Len(s1) = IF 1 <= k - 1 THEN k - 1 - 1 + 1 ELSE 0
            /\ \A i \in 1..(k - 1 - 1 + 1) : s1[i] = q[1 + i - 1]
        BY <1>0, <4>1, SubSeqProperties
      <4> HIDE DEF s1
      <4> QED BY <1>0, <4>2
    <3>2. /\ s2 \in Seq(T) /\ Len(s2) = Len(q) - k
          /\ \A i \in 1..(Len(q) - k) : s2[i] = q[k + i]
      <4>1. \A i \in (k + 1)..Len(q) : q[i] \in T
        BY <1>0, <3>0
      <4>2. /\ s2 \in Seq(T)
            /\ Len(s2) = IF k + 1 <= Len(q) THEN Len(q) - (k + 1) + 1 ELSE 0
            /\ \A i \in 1..(Len(q) - (k + 1) + 1) : s2[i] = q[k + 1 + i - 1]
        BY <1>0, <4>1, SubSeqProperties
      <4> HIDE DEF s2
      <4>3. Len(s2) = Len(q) - k
        <5>1. k \in Nat /\ Len(q) \in Nat /\ k <= Len(q)
          BY <1>0
        <5>2. CASE k + 1 <= Len(q)
          BY <4>2, <5>1, <5>2
        <5>3. CASE ~(k + 1 <= Len(q))
          <6>1. Len(q) = k /\ Len(s2) = 0
            BY <4>2, <5>1, <5>3
          <6> QED BY <5>1, <6>1
        <5> QED BY <5>2, <5>3
      <4>4. ASSUME NEW i \in 1..(Len(q) - k) PROVE s2[i] = q[k + i]
        <5>1. i \in 1..(Len(q) - (k + 1) + 1) /\ k + 1 + i - 1 = k + i
          BY <1>0
        <5> QED BY <4>2, <5>1
      <4> QED BY <4>2, <4>3, <4>4
    <3> HIDE DEF s1, s2
    <3>3. /\ s1 \o s2 \in Seq(T)
          /\ Len(s1 \o s2) = Len(q) - 1
          /\ \A i \in 1..(Len(q) - 1) :
                (s1 \o s2)[i] = IF i <= k - 1 THEN s1[i] ELSE s2[i - (k - 1)]
      <4>1. /\ s1 \o s2 \in Seq(T)
            /\ Len(s1 \o s2) = Len(s1) + Len(s2)
            /\ \A i \in 1..(Len(s1) + Len(s2)) :
                 (s1 \o s2)[i] = IF i <= Len(s1) THEN s1[i] ELSE s2[i - Len(s1)]
        BY <3>1, <3>2, ConcatProperties
      <4>2. Len(s1) + Len(s2) = Len(q) - 1 /\ Len(s1) = k - 1
        BY <1>0, <3>1, <3>2
      <4> QED BY <4>1, <4>2
    <3>4. ASSUME NEW i \in 1..(Len(q) - 1)
          PROVE  (s1 \o s2)[i] = IF i < k THEN q[i] ELSE q[i + 1]
      <4>1. CASE i < k
        BY <1>0, <3>1, <3>3, <4>1
      <4>2. CASE ~(i < k)
        <5>1. i - (k - 1) \in 1..(Len(q) - k) /\ k + (i - (k - 1)) = i + 1 /\ ~(i <= k - 1)
          BY <1>0, <4>2
        <5> QED BY <3>2, <3>3, <4>2, <5>1
      <4> QED BY <4>1, <4>2
    <3> QED BY <3>3, <3>4 DEF s1, s2
  <2> HIDE DEF r
  <2>7. DOMAIN r = 1..(Len(q) - 1)
    BY <2>6, LenProperties
  <2>8. ToSet(r) = ToSet(q) \ {x}
    <3>1. ASSUME NEW y \in ToSet(r) PROVE y \in ToSet(q) /\ y # x
      <4>1. PICK i \in 1..(Len(q) - 1) : y = r[i]
        BY <2>7 DEF ToSet
      <4>2. PICK j \in 1..Len(q) : j # k /\ y = q[j]
        BY <1>0, <2>6, <4>1
      <4> QED BY <1>0, <2>1, <4>2 DEF ToSet, NoRepeats
    <3>2. ASSUME NEW y \in ToSet(q), y # x PROVE y \in ToSet(r)
      <4>1. PICK j \in 1..Len(q) : j # k /\ y = q[j]
        BY <1>0, <2>1, <3>2 DEF ToSet
      <4>2. PICK i \in 1..(Len(q) - 1) : y = r[i]
        <5>1. CASE j < k
          BY <1>0, <2>6, <4>1, <5>1
        <5>2. CASE j > k
          <6>1. j - 1 \in 1..(Len(q) - 1) /\ ~(j - 1 < k) /\ (j - 1) + 1 = j
            BY <1>0, <5>2
          <6> QED BY <2>6, <4>1, <6>1
        <5> QED BY <1>0, <4>1, <5>1, <5>2
      <4> QED BY <2>7, <4>2 DEF ToSet
    <3> QED BY <3>1, <3>2
  <2>9. NoRepeats(r)
    <3> SUFFICES ASSUME NEW i \in 1..(Len(q) - 1), NEW j \in 1..(Len(q) - 1), r[i] = r[j]
                 PROVE  i = j
      BY <2>7 DEF NoRepeats
    <3> DEFINE at(n) == IF n < k THEN n ELSE n + 1
    <3>1. /\ at(i) \in DOMAIN q /\ at(j) \in DOMAIN q
          /\ r[i] = q[at(i)] /\ r[j] = q[at(j)]
      BY <1>0, <2>6
    <3>2. at(i) = at(j)
      BY <3>1 DEF NoRepeats
    <3> QED BY <1>0, <3>2
  <2> QED BY <2>5, <2>6, <2>8, <2>9
<1> QED BY <1>1, <1>2

-----------------------------------------------------------------------------
(* The inductive invariant.  Beside the four invariants of LaneScheduler   *)
(* it says where signals and dropped marks can be: only a waiter that is   *)
(* still in select, or that has left it without looking at its channel,    *)
(* holds a signal, and only the latter is marked dropped.  Without it a    *)
(* signal could be sent to, or be skipped for, a turn that never looks at  *)
(* its channel.                                                            *)

SignalsMatch ==
  \A t \in Turns : /\ ch[t] => pc[t] \in {"wait", "drain"}
                   /\ dropped[t] => pc[t] = "drain"

IInv ==
  /\ TypeOK
  /\ SignalsMatch
  /\ SlotAccounting
  /\ QueueIsBlockedTurns
  /\ NoLostWakeup

LEMMA LaneOfTurn == \A t \in Turns : TurnLaneFromEntry(t) \in Lanes
BY DEF TurnLaneFromEntry

LEMMA FiniteLanes ==
  ASSUME NEW l, NEW S, S \subseteq InLane(l)
  PROVE  IsFiniteSet(S)
<1>1. S \subseteq Turns
  BY DEF InLane
<1> QED BY <1>1, FS_Subset, LaneAssumption

LEMMA InitIInv == Init => IInv
<1> SUFFICES ASSUME Init PROVE IInv
  OBVIOUS
<1>1. TypeOK
  BY DEF Init, TypeOK, PCs
<1>2. SignalsMatch
  BY DEF Init, SignalsMatch
<1>3. SlotAccounting
  <2> SUFFICES ASSUME NEW l \in Lanes, Limited(l)
               PROVE  active[l] = Cardinality(Holders(l)) /\ active[l] <= Limit[l]
    BY DEF SlotAccounting
  <2>1. Holders(l) = {}
    BY DEF Init, Holders, InLane
  <2> QED BY <2>1, FS_EmptySet, LaneAssumption DEF Init, Limited
<1>4. QueueIsBlockedTurns
  BY DEF Init, QueueIsBlockedTurns, ToSet, InLane
<1>5. NoLostWakeup
  BY DEF Init, NoLostWakeup
<1> QED BY <1>1, <1>2, <1>3, <1>4, <1>5 DEF IInv

(* What signalNextLocked does in a state that satisfies the invariant:     *)
(* nothing when no turn is queued, and otherwise it signals the head and   *)
(* takes it out of the queue.                                              *)
LEMMA SignalEffect ==
  ASSUME IInv, NEW l \in Lanes, SignalNextLocked(l)
  PROVE  \/ wait[l] = <<>> /\ UNCHANGED <<wait, ch>>
         \/ LET h == wait[l][1]
            IN  /\ wait[l] # <<>>
                /\ h \in InLane(l) /\ pc[h] = "wait" /\ ~ch[h]
                /\ ch'   = [ch EXCEPT ![h] = TRUE]
                /\ wait' = [wait EXCEPT ![l] = SubSeq(@, 2, Len(@))]
<1> DEFINE q == wait[l]
<1>1. q \in Seq(Turns) /\ Len(q) \in Nat /\ DOMAIN q = 1..Len(q)
  BY DEF IInv, TypeOK
<1>2. ToSet(q) = {t \in InLane(l) : pc[t] = "wait" /\ ~ch[t]}
  BY DEF IInv, QueueIsBlockedTurns
<1>3. Signallable(q) = 1..Len(q)
  <2> SUFFICES ASSUME NEW i \in DOMAIN q PROVE ~dropped[q[i]] /\ ~ch[q[i]]
    BY <1>1 DEF Signallable
  <2>1. q[i] \in ToSet(q)
    BY DEF ToSet
  <2>2. q[i] \in Turns /\ pc[q[i]] = "wait" /\ ~ch[q[i]]
    BY <1>2, <2>1 DEF InLane
  <2> QED BY <2>2 DEF IInv, SignalsMatch
<1>4. CASE q = <<>>
  <2>1. Signallable(q) = {}
    BY <1>3, <1>4
  <2>2. wait' = [wait EXCEPT ![l] = <<>>] /\ UNCHANGED ch
    BY <2>1 DEF SignalNextLocked
  <2>3. wait' = wait
    BY <1>4, <2>2 DEF IInv, TypeOK
  <2> QED BY <1>4, <2>2, <2>3
<1>5. CASE q # <<>>
  <2>1. Len(q) >= 1
    BY <1>1, <1>5
  <2>2. Min(Signallable(q)) = 1 /\ Signallable(q) # {}
    <3>1. 1 \in 1..Len(q) /\ \A y \in 1..Len(q) : 1 <= y
      BY <1>1, <2>1
    <3>2. \A x \in 1..Len(q) : (\A y \in 1..Len(q) : x <= y) => x = 1
      BY <1>1, <3>1
    <3>3. Min(1..Len(q)) = 1
      BY <3>1, <3>2 DEF Min
    <3> QED BY <1>3, <3>1, <3>3
  <2>3. /\ wait' = [wait EXCEPT ![l] = SubSeq(@, 2, Len(@))]
        /\ ch'   = [ch EXCEPT ![q[1]] = TRUE]
    BY <2>2 DEF SignalNextLocked
  <2>4. q[1] \in ToSet(q)
    BY <1>1, <2>1 DEF ToSet
  <2> QED BY <1>2, <1>5, <2>3, <2>4
<1> QED BY <1>4, <1>5

-----------------------------------------------------------------------------
(* How the counted sets change when one turn moves.                        *)

LEMMA HoldersGrow ==
  ASSUME TypeOK, NEW t \in Turns, pc[t] # "held", pc' = [pc EXCEPT ![t] = "held"],
         NEW l \in Lanes
  PROVE  Cardinality(Holders(l)') =
           IF l = TurnLaneFromEntry(t) THEN Cardinality(Holders(l)) + 1
                                       ELSE Cardinality(Holders(l))
<1>1. IsFiniteSet(Holders(l))
  BY FiniteLanes DEF Holders
<1>2. CASE l = TurnLaneFromEntry(t)
  <2>1. Holders(l)' = Holders(l) \cup {t} /\ t \notin Holders(l)
    BY <1>2 DEF TypeOK, Holders, InLane
  <2> QED BY <1>1, <1>2, <2>1, FS_AddElement
<1>3. CASE l # TurnLaneFromEntry(t)
  <2>1. Holders(l)' = Holders(l)
    BY <1>3 DEF TypeOK, Holders, InLane
  <2> QED BY <1>3, <2>1
<1> QED BY <1>2, <1>3

LEMMA HoldersShrink ==
  ASSUME TypeOK, NEW t \in Turns, pc[t] = "held", NEW x, x # "held",
         pc' = [pc EXCEPT ![t] = x], NEW l \in Lanes
  PROVE  /\ Cardinality(Holders(l)') =
              IF l = TurnLaneFromEntry(t) THEN Cardinality(Holders(l)) - 1
                                          ELSE Cardinality(Holders(l))
         /\ l = TurnLaneFromEntry(t) => Cardinality(Holders(l)) > 0
<1>1. IsFiniteSet(Holders(l))
  BY FiniteLanes DEF Holders
<1>2. CASE l = TurnLaneFromEntry(t)
  <2>1. Holders(l)' = Holders(l) \ {t} /\ t \in Holders(l)
    BY <1>2 DEF TypeOK, Holders, InLane
  <2>2. Cardinality(Holders(l)) \in Nat /\ Holders(l) # {}
    BY <1>1, <2>1, FS_CardinalityType
  <2>3. Cardinality(Holders(l)) # 0
    BY <1>1, <2>2, FS_EmptySet
  <2>4. Cardinality(Holders(l)') = Cardinality(Holders(l)) - 1
    BY <1>1, <2>1, FS_RemoveElement
  <2> QED BY <1>2, <2>2, <2>3, <2>4
<1>3. CASE l # TurnLaneFromEntry(t)
  <2>1. Holders(l)' = Holders(l)
    BY <1>3 DEF TypeOK, Holders, InLane
  <2> QED BY <1>3, <2>1
<1> QED BY <1>2, <1>3

LEMMA HoldersSame ==
  ASSUME TypeOK, NEW t \in Turns, pc[t] # "held", NEW x, x # "held",
         pc' = [pc EXCEPT ![t] = x], NEW l \in Lanes
  PROVE  Holders(l)' = Holders(l)
BY DEF TypeOK, Holders, InLane

LEMMA WakersMonotone ==
  ASSUME NEW l \in Lanes, Wakers(l) \subseteq Wakers(l)'
  PROVE  Cardinality(Wakers(l)) <= Cardinality(Wakers(l)')
<1>1. IsFiniteSet(Wakers(l)')
  BY FiniteLanes DEF Wakers, InLane
<1> QED BY <1>1, FS_Subset

LEMMA WakersType ==
  ASSUME NEW l \in Lanes
  PROVE  /\ IsFiniteSet(Wakers(l)) /\ Cardinality(Wakers(l)) \in Nat
         /\ IsFiniteSet(Wakers(l)') /\ Cardinality(Wakers(l)') \in Nat
<1>1. IsFiniteSet(Wakers(l)) /\ IsFiniteSet(Wakers(l)')
  BY FiniteLanes DEF Wakers, InLane
<1> QED BY <1>1, FS_CardinalityType

-----------------------------------------------------------------------------
(* Every step preserves the invariant.                                     *)

LEMMA CountTypes ==
  ASSUME IInv, NEW l \in Lanes
  PROVE  Limit[l] \in Int /\ active[l] \in Nat
BY LaneAssumption DEF IInv, TypeOK

(* How most steps keep NoLostWakeup: the counter of the lane stays as it  *)
(* is and no waker disappears.                                             *)
LEMMA WakersKept ==
  ASSUME IInv, NEW l \in Lanes, Limited(l), wait[l] # <<>>,
         active'[l] = active[l], Wakers(l) \subseteq Wakers(l)'
  PROVE  Limit[l] - active'[l] <= Cardinality(Wakers(l)')
<1>1. Limit[l] - active[l] <= Cardinality(Wakers(l))
  BY DEF IInv, NoLostWakeup
<1>2. Cardinality(Wakers(l)) <= Cardinality(Wakers(l)')
  BY WakersMonotone
<1>3. Cardinality(Wakers(l)) \in Nat /\ Cardinality(Wakers(l)') \in Nat
  BY WakersType
<1> QED BY <1>1, <1>2, <1>3, CountTypes

LEMMA BeginIInv ==
  ASSUME IInv, NEW t \in Turns, Begin(t)
  PROVE  IInv'
<1> USE DEF IInv
<1>0. pc[t] = "idle" /\ ~ch[t] /\ pc' = [pc EXCEPT ![t] = "acquire"]
  BY DEF Begin, SignalsMatch
<1>1. TypeOK'
  BY DEF TypeOK, Begin, PCs
<1>2. SignalsMatch'
  BY DEF TypeOK, Begin, SignalsMatch
<1>3. SlotAccounting'
  BY <1>0, HoldersSame DEF Begin, SlotAccounting, Limited
<1>4. QueueIsBlockedTurns'
  BY <1>0 DEF TypeOK, Begin, QueueIsBlockedTurns, InLane
<1>5. NoLostWakeup'
  <2> SUFFICES ASSUME NEW l \in Lanes, Limited(l), wait'[l] # <<>>
               PROVE  Limit[l] - active'[l] <= Cardinality(Wakers(l)')
    BY DEF NoLostWakeup, Limited
  <2>1. Wakers(l) \subseteq Wakers(l)'
    BY <1>0 DEF TypeOK, Begin, Wakers, InLane
  <2> QED BY <2>1, WakersKept DEF Begin
<1> QED BY <1>1, <1>2, <1>3, <1>4, <1>5

LEMMA AcquireUnlimitedIInv ==
  ASSUME IInv, NEW t \in Turns, AcquireUnlimited(t)
  PROVE  IInv'
<1> USE DEF IInv
<1> DEFINE k == TurnLaneFromEntry(t)
<1>0. /\ pc[t] = "acquire" /\ ~ch[t] /\ pc' = [pc EXCEPT ![t] = "held"]
      /\ ~Limited(k) /\ UNCHANGED <<active, wait, ch>>
      /\ dropped' = [dropped EXCEPT ![t] = FALSE]
      /\ ctxDone' = [ctxDone EXCEPT ![t] = FALSE]
  BY DEF AcquireUnlimited, Return, SignalsMatch
<1>1. TypeOK'
  BY <1>0 DEF TypeOK, PCs
<1>2. SignalsMatch'
  BY <1>0 DEF TypeOK, SignalsMatch
<1>3. SlotAccounting'
  BY <1>0, HoldersGrow DEF SlotAccounting, Limited
<1>4. QueueIsBlockedTurns'
  BY <1>0 DEF TypeOK, QueueIsBlockedTurns, InLane
<1>5. NoLostWakeup'
  <2> SUFFICES ASSUME NEW l \in Lanes, Limited(l), wait'[l] # <<>>
               PROVE  Limit[l] - active'[l] <= Cardinality(Wakers(l)')
    BY DEF NoLostWakeup, Limited
  <2>1. l # k
    BY <1>0
  <2>2. Wakers(l) \subseteq Wakers(l)'
    BY <1>0, <2>1 DEF TypeOK, Wakers, InLane
  <2> QED BY <1>0, <2>2, WakersKept
<1> QED BY <1>1, <1>2, <1>3, <1>4, <1>5

LEMMA AcquireSlotIInv ==
  ASSUME IInv, NEW t \in Turns, AcquireSlot(t)
  PROVE  IInv'
<1> USE DEF IInv
<1> DEFINE k == TurnLaneFromEntry(t)
<1>0. /\ pc[t] = "acquire" /\ ~ch[t] /\ pc' = [pc EXCEPT ![t] = "held"]
      /\ Limited(k) /\ active[k] < Limit[k] /\ UNCHANGED <<wait, ch>>
      /\ active'  = [active EXCEPT ![k] = @ + 1]
      /\ dropped' = [dropped EXCEPT ![t] = FALSE]
      /\ ctxDone' = [ctxDone EXCEPT ![t] = FALSE]
      /\ k \in Lanes
  BY LaneOfTurn DEF AcquireSlot, Return, SignalsMatch
<1>1. TypeOK'
  BY <1>0 DEF TypeOK, PCs
<1>2. SignalsMatch'
  BY <1>0 DEF TypeOK, SignalsMatch
<1>3. SlotAccounting'
  <2> SUFFICES ASSUME NEW l \in Lanes, Limited(l)
               PROVE  active'[l] = Cardinality(Holders(l)') /\ active'[l] <= Limit[l]
    BY DEF SlotAccounting, Limited
  <2>1. active[l] = Cardinality(Holders(l)) /\ active[l] <= Limit[l]
    BY DEF SlotAccounting
  <2>2. Cardinality(Holders(l)') = IF l = k THEN Cardinality(Holders(l)) + 1
                                           ELSE Cardinality(Holders(l))
    BY <1>0, HoldersGrow
  <2>3. active'[l] = IF l = k THEN active[l] + 1 ELSE active[l]
    BY <1>0 DEF TypeOK
  <2> QED BY <1>0, <2>1, <2>2, <2>3, LaneAssumption DEF TypeOK
<1>4. QueueIsBlockedTurns'
  BY <1>0 DEF TypeOK, QueueIsBlockedTurns, InLane
<1>5. NoLostWakeup'
  <2> SUFFICES ASSUME NEW l \in Lanes, Limited(l), wait'[l] # <<>>
               PROVE  Limit[l] - active'[l] <= Cardinality(Wakers(l)')
    BY DEF NoLostWakeup, Limited
  <2>1. Limit[l] - active[l] <= Cardinality(Wakers(l))
    BY <1>0 DEF NoLostWakeup
  <2>2. CASE l = k
    <3>1. t \in Wakers(l) /\ Wakers(l)' = Wakers(l) \ {t}
      BY <1>0, <2>2 DEF TypeOK, Wakers, InLane
    <3>2. Cardinality(Wakers(l)') = Cardinality(Wakers(l)) - 1
      BY <3>1, WakersType, FS_RemoveElement
    <3>3. active'[l] = active[l] + 1
      BY <1>0, <2>2 DEF TypeOK
    <3>4. Limit[l] \in Int /\ active[l] \in Nat /\ Cardinality(Wakers(l)) \in Nat
      BY WakersType, CountTypes
    <3> QED BY <2>1, <3>2, <3>3, <3>4
  <2>3. CASE l # k
    <3>1. Wakers(l) \subseteq Wakers(l)' /\ active'[l] = active[l]
      BY <1>0, <2>3 DEF TypeOK, Wakers, InLane
    <3> QED BY <1>0, <3>1, WakersKept
  <2> QED BY <2>2, <2>3
<1> QED BY <1>1, <1>2, <1>3, <1>4, <1>5

LEMMA EnqueueIInv ==
  ASSUME IInv, NEW t \in Turns, Enqueue(t)
  PROVE  IInv'
<1> USE DEF IInv
<1> DEFINE k == TurnLaneFromEntry(t)
<1>0. /\ pc[t] = "acquire" /\ ~ch[t] /\ pc' = [pc EXCEPT ![t] = "wait"]
      /\ active[k] >= Limit[k] /\ active' = active
      /\ wait'    = [wait EXCEPT ![k] = Append(@, t)]
      /\ ch' = ch
      /\ dropped' = [dropped EXCEPT ![t] = FALSE]
      /\ ctxDone' = ctxDone
      /\ k \in Lanes
  <2>1. /\ pc[t] = "acquire" /\ ~ch[t] /\ k \in Lanes
    BY LaneOfTurn DEF Enqueue, SignalsMatch
  <2>2. [ch EXCEPT ![t] = FALSE] = ch
    BY <2>1 DEF TypeOK
  <2> QED BY <2>1, <2>2 DEF Enqueue
<1>a. wait[k] \in Seq(Turns)
  BY <1>0 DEF TypeOK
<1>b. t \notin ToSet(wait[k]) /\ NoRepeats(wait[k])
  BY <1>0 DEF QueueIsBlockedTurns, NoRepeats
<1>c. /\ Append(wait[k], t) \in Seq(Turns)
      /\ ToSet(Append(wait[k], t)) = ToSet(wait[k]) \cup {t}
      /\ NoRepeats(Append(wait[k], t))
  BY <1>a, <1>b, AppendFresh
<1>d. \A l \in Lanes : wait'[l] = IF l = k THEN Append(wait[k], t) ELSE wait[l]
  BY <1>0 DEF TypeOK
<1>1. TypeOK'
  <2>1. wait' \in [Lanes -> Seq(Turns)]
    BY <1>0, <1>c DEF TypeOK
  <2> QED BY <1>0, <2>1 DEF TypeOK, PCs
<1>2. SignalsMatch'
  BY <1>0 DEF TypeOK, SignalsMatch
<1>3. SlotAccounting'
  BY <1>0, HoldersSame DEF SlotAccounting, Limited
<1>4. QueueIsBlockedTurns'
  <2> SUFFICES ASSUME NEW l \in Lanes
               PROVE  /\ ToSet(wait'[l]) = {u \in InLane(l) : pc'[u] = "wait" /\ ~ch'[u]}
                      /\ NoRepeats(wait'[l])
    BY DEF QueueIsBlockedTurns, InLane, NoRepeats
  <2>1. ToSet(wait[l]) = {u \in InLane(l) : pc[u] = "wait" /\ ~ch[u]} /\ NoRepeats(wait[l])
    BY DEF QueueIsBlockedTurns, NoRepeats
  <2>2. CASE l = k
    <3>1. {u \in InLane(l) : pc'[u] = "wait" /\ ~ch'[u]}
            = {u \in InLane(l) : pc[u] = "wait" /\ ~ch[u]} \cup {t}
      BY <1>0, <2>2 DEF TypeOK, InLane
    <3> QED BY <1>c, <1>d, <2>1, <2>2, <3>1
  <2>3. CASE l # k
    <3>1. {u \in InLane(l) : pc'[u] = "wait" /\ ~ch'[u]}
            = {u \in InLane(l) : pc[u] = "wait" /\ ~ch[u]}
      BY <1>0, <2>3 DEF TypeOK, InLane
    <3> QED BY <1>d, <2>1, <2>3, <3>1
  <2> QED BY <2>2, <2>3
<1>5. NoLostWakeup'
  <2> SUFFICES ASSUME NEW l \in Lanes, Limited(l), wait'[l] # <<>>
               PROVE  Limit[l] - active'[l] <= Cardinality(Wakers(l)')
    BY DEF NoLostWakeup, Limited
  <2>2. CASE l = k
    <3>1. Limit[l] \in Int /\ active[l] \in Nat /\ Cardinality(Wakers(l)') \in Nat
      BY WakersType, CountTypes
    <3> QED BY <1>0, <2>2, <3>1
  <2>3. CASE l # k
    <3>1. Wakers(l) \subseteq Wakers(l)' /\ wait[l] # <<>>
      BY <1>0, <1>d, <2>3 DEF TypeOK, Wakers, InLane
    <3> QED BY <1>0, <3>1, WakersKept
  <2> QED BY <2>2, <2>3
<1> QED BY <1>1, <1>2, <1>3, <1>4, <1>5

LEMMA WokenIInv ==
  ASSUME IInv, NEW t \in Turns, Woken(t)
  PROVE  IInv'
<1> USE DEF IInv
<1>0. /\ pc[t] = "wait" /\ ch[t] /\ pc' = [pc EXCEPT ![t] = "acquire"]
      /\ ch' = [ch EXCEPT ![t] = FALSE]
      /\ UNCHANGED <<active, wait, dropped, ctxDone>>
      /\ ~dropped[t]
  BY DEF Woken, SignalsMatch
<1>1. TypeOK'
  BY <1>0 DEF TypeOK, PCs
<1>2. SignalsMatch'
  BY <1>0 DEF TypeOK, SignalsMatch
<1>3. SlotAccounting'
  BY <1>0, HoldersSame DEF SlotAccounting, Limited
<1>4. QueueIsBlockedTurns'
  BY <1>0 DEF TypeOK, QueueIsBlockedTurns, InLane
<1>5. NoLostWakeup'
  <2> SUFFICES ASSUME NEW l \in Lanes, Limited(l), wait'[l] # <<>>
               PROVE  Limit[l] - active'[l] <= Cardinality(Wakers(l)')
    BY DEF NoLostWakeup, Limited
  <2>1. Wakers(l) \subseteq Wakers(l)'
    BY <1>0 DEF TypeOK, Wakers, InLane
  <2> QED BY <1>0, <2>1, WakersKept
<1> QED BY <1>1, <1>2, <1>3, <1>4, <1>5

LEMMA DropWaiterIInv ==
  ASSUME IInv, NEW t \in Turns, DropWaiter(t)
  PROVE  IInv'
<1> USE DEF IInv
<1> DEFINE k == TurnLaneFromEntry(t)
<1>0. /\ pc[t] = "wait" /\ pc' = [pc EXCEPT ![t] = "drain"]
      /\ dropped' = [dropped EXCEPT ![t] = TRUE]
      /\ wait' = [wait EXCEPT ![k] = RemoveFirst(@, t)]
      /\ UNCHANGED <<active, ch, ctxDone>>
      /\ k \in Lanes
  BY LaneOfTurn DEF DropWaiter
<1>a. wait[k] \in Seq(Turns) /\ NoRepeats(wait[k])
  BY <1>0 DEF TypeOK, QueueIsBlockedTurns, NoRepeats
<1>b. /\ RemoveFirst(wait[k], t) \in Seq(Turns)
      /\ ToSet(RemoveFirst(wait[k], t)) = ToSet(wait[k]) \ {t}
      /\ NoRepeats(RemoveFirst(wait[k], t))
  BY <1>a, RemoveWaiter
<1>c. \A l \in Lanes : wait'[l] = IF l = k THEN RemoveFirst(wait[k], t) ELSE wait[l]
  BY <1>0 DEF TypeOK
<1>1. TypeOK'
  <2>1. wait' \in [Lanes -> Seq(Turns)]
    BY <1>0, <1>b DEF TypeOK
  <2> QED BY <1>0, <2>1 DEF TypeOK, PCs
<1>2. SignalsMatch'
  BY <1>0 DEF TypeOK, SignalsMatch
<1>3. SlotAccounting'
  BY <1>0, HoldersSame DEF SlotAccounting, Limited
<1>4. QueueIsBlockedTurns'
  <2> SUFFICES ASSUME NEW l \in Lanes
               PROVE  /\ ToSet(wait'[l]) = {u \in InLane(l) : pc'[u] = "wait" /\ ~ch'[u]}
                      /\ NoRepeats(wait'[l])
    BY DEF QueueIsBlockedTurns, InLane, NoRepeats
  <2>1. ToSet(wait[l]) = {u \in InLane(l) : pc[u] = "wait" /\ ~ch[u]} /\ NoRepeats(wait[l])
    BY DEF QueueIsBlockedTurns, NoRepeats
  <2>2. CASE l = k
    <3>1. {u \in InLane(l) : pc'[u] = "wait" /\ ~ch'[u]}
            = {u \in InLane(l) : pc[u] = "wait" /\ ~ch[u]} \ {t}
      BY <1>0, <2>2 DEF TypeOK, InLane
    <3> QED BY <1>b, <1>c, <2>1, <2>2, <3>1
  <2>3. CASE l # k
    <3>1. {u \in InLane(l) : pc'[u] = "wait" /\ ~ch'[u]}
            = {u \in InLane(l) : pc[u] = "wait" /\ ~ch[u]}
      BY <1>0, <2>3 DEF TypeOK, InLane
    <3> QED BY <1>c, <2>1, <2>3, <3>1
  <2> QED BY <2>2, <2>3
<1>5. NoLostWakeup'
  <2> SUFFICES ASSUME NEW l \in Lanes, Limited(l), wait'[l] # <<>>
               PROVE  Limit[l] - active'[l] <= Cardinality(Wakers(l)')
    BY DEF NoLostWakeup, Limited
  <2>1. Wakers(l) \subseteq Wakers(l)'
    BY <1>0 DEF TypeOK, Wakers, InLane
  <2>2. wait[l] # <<>>
    <3>1. CASE l = k
      <4> SUFFICES ASSUME wait[l] = <<>> PROVE FALSE
        OBVIOUS
      <4>1. ~ \E i \in 1..Len(wait[l]) : wait[l][i] = t
        OBVIOUS
      <4>2. RemoveFirst(wait[l], t) = <<>>
        BY <4>1 DEF RemoveFirst
      <4> QED BY <1>c, <3>1, <4>2
    <3>2. CASE l # k
      BY <1>c, <3>2
    <3> QED BY <3>1, <3>2
  <2> QED BY <1>0, <2>1, <2>2, WakersKept
<1> QED BY <1>1, <1>2, <1>3, <1>4, <1>5

LEMMA DrainIInv ==
  ASSUME IInv, NEW t \in Turns, Drain(t)
  PROVE  IInv'
<1> USE DEF IInv
<1>0. /\ pc[t] = "drain"
      /\ pc' = [pc EXCEPT ![t] = IF ch[t] THEN "handoff" ELSE "idle"]
      /\ ch' = [ch EXCEPT ![t] = FALSE]
      /\ dropped' = [dropped EXCEPT ![t] = FALSE]
      /\ ctxDone' = [ctxDone EXCEPT ![t] = FALSE]
      /\ UNCHANGED <<active, wait>>
  BY DEF Drain, Return
<1>1. TypeOK'
  BY <1>0 DEF TypeOK, PCs
<1>2. SignalsMatch'
  BY <1>0 DEF TypeOK, SignalsMatch
<1>3. SlotAccounting'
  <2>1. \A l \in Lanes : Holders(l)' = Holders(l)
    BY <1>0 DEF TypeOK, Holders, InLane
  <2> QED BY <1>0, <2>1 DEF SlotAccounting, Limited
<1>4. QueueIsBlockedTurns'
  BY <1>0 DEF TypeOK, QueueIsBlockedTurns, InLane
<1>5. NoLostWakeup'
  <2> SUFFICES ASSUME NEW l \in Lanes, Limited(l), wait'[l] # <<>>
               PROVE  Limit[l] - active'[l] <= Cardinality(Wakers(l)')
    BY DEF NoLostWakeup, Limited
  <2>1. Wakers(l) \subseteq Wakers(l)'
    BY <1>0 DEF TypeOK, Wakers, InLane
  <2> QED BY <1>0, <2>1, WakersKept
<1> QED BY <1>1, <1>2, <1>3, <1>4, <1>5

(* HandOff and Release both end with signalNextLocked.  What it does to    *)
(* everything but the counter is the same in both.                         *)
LEMMA SignalKeepsQueue ==
  ASSUME IInv, NEW t \in Turns, NEW k \in Lanes, SignalNextLocked(k),
         pc[t] \in {"handoff", "held"}, pc' = [pc EXCEPT ![t] = "idle"],
         UNCHANGED dropped
  PROVE  /\ wait' \in [Lanes -> Seq(Turns)]
         /\ ch' \in [Turns -> BOOLEAN]
         /\ SignalsMatch'
         /\ QueueIsBlockedTurns'
         /\ \A l \in Lanes : wait'[l] # <<>> => wait[l] # <<>>
<1> USE DEF IInv
<1> DEFINE q == wait[k]
           h == q[1]
<1>0. ~ch[t]
  BY DEF SignalsMatch
<1>1. CASE q = <<>> /\ UNCHANGED <<wait, ch>>
  <2>1. SignalsMatch'
    BY <1>0, <1>1 DEF TypeOK, SignalsMatch
  <2>2. QueueIsBlockedTurns'
    BY <1>0, <1>1 DEF TypeOK, QueueIsBlockedTurns, InLane
  <2> QED BY <1>1, <2>1, <2>2 DEF TypeOK
<1>2. CASE /\ q # <<>>
           /\ h \in InLane(k) /\ pc[h] = "wait" /\ ~ch[h]
           /\ ch'   = [ch EXCEPT ![h] = TRUE]
           /\ wait' = [wait EXCEPT ![k] = SubSeq(@, 2, Len(@))]
  <2>1. q \in Seq(Turns) /\ NoRepeats(q)
    BY DEF TypeOK, QueueIsBlockedTurns, NoRepeats
  <2> DEFINE r == SubSeq(q, 2, Len(q))
  <2>2. /\ r \in Seq(Turns) /\ ToSet(r) = ToSet(q) \ {h} /\ NoRepeats(r)
    BY <1>2, <2>1, TakeHead
  <2> HIDE DEF r
  <2>3. wait' = [wait EXCEPT ![k] = r]
    BY <1>2 DEF r
  <2>4. \A l \in Lanes : wait'[l] = IF l = k THEN r ELSE wait[l]
    BY <2>3 DEF TypeOK
  <2>5. wait' \in [Lanes -> Seq(Turns)]
    BY <2>2, <2>3 DEF TypeOK
  <2>6. h # t /\ h \in Turns
    BY <1>2 DEF InLane
  <2>7. ch' \in [Turns -> BOOLEAN] /\ SignalsMatch'
    BY <1>0, <1>2, <2>6 DEF TypeOK, SignalsMatch
  <2>8. QueueIsBlockedTurns'
    <3> SUFFICES ASSUME NEW l \in Lanes
                 PROVE  /\ ToSet(wait'[l]) = {u \in InLane(l) : pc'[u] = "wait" /\ ~ch'[u]}
                        /\ NoRepeats(wait'[l])
      BY DEF QueueIsBlockedTurns, InLane, NoRepeats
    <3>1. ToSet(wait[l]) = {u \in InLane(l) : pc[u] = "wait" /\ ~ch[u]} /\ NoRepeats(wait[l])
      BY DEF QueueIsBlockedTurns, NoRepeats
    <3>2. CASE l = k
      <4>1. {u \in InLane(l) : pc'[u] = "wait" /\ ~ch'[u]}
              = {u \in InLane(l) : pc[u] = "wait" /\ ~ch[u]} \ {h}
        BY <1>2, <2>6, <3>2 DEF TypeOK, InLane
      <4> QED BY <2>2, <2>4, <3>1, <3>2, <4>1
    <3>3. CASE l # k
      <4>1. {u \in InLane(l) : pc'[u] = "wait" /\ ~ch'[u]}
              = {u \in InLane(l) : pc[u] = "wait" /\ ~ch[u]}
        BY <1>2, <2>6, <3>3 DEF TypeOK, InLane
      <4> QED BY <2>4, <3>1, <3>3, <4>1
    <3> QED BY <3>2, <3>3
  <2> QED BY <1>2, <2>4, <2>5, <2>7, <2>8
<1> QED BY <1>1, <1>2, SignalEffect

(* ... and what it does to the turns that are on their way: when a turn is *)
(* left in the queue, the head has become one of them.                     *)
LEMMA SignalAddsWaker ==
  ASSUME IInv, NEW t \in Turns, NEW k \in Lanes, SignalNextLocked(k),
         TurnLaneFromEntry(t) = k,
         pc[t] \in {"handoff", "held"}, pc' = [pc EXCEPT ![t] = "idle"]
  PROVE  /\ \A l \in Lanes : l # k => Wakers(l) \subseteq Wakers(l)'
         /\ wait'[k] # <<>> =>
              Cardinality(Wakers(k)') =
                IF pc[t] = "held" THEN Cardinality(Wakers(k)) + 1
                                  ELSE Cardinality(Wakers(k))
<1> USE DEF IInv
<1>0. ~ch[t]
  BY DEF SignalsMatch
<1>1. \A l \in Lanes : l # k => Wakers(l) \subseteq Wakers(l)'
  BY <1>0, SignalEffect DEF TypeOK, Wakers, InLane
<1>2. ASSUME wait'[k] # <<>>
      PROVE  Cardinality(Wakers(k)') =
                IF pc[t] = "held" THEN Cardinality(Wakers(k)) + 1
                                  ELSE Cardinality(Wakers(k))
  <2>1. PICK h \in InLane(k) : pc[h] = "wait" /\ ~ch[h] /\ ch' = [ch EXCEPT ![h] = TRUE]
    BY <1>2, SignalEffect DEF TypeOK
  <2>2. h # t /\ h \in Turns /\ h \notin Wakers(k)
    BY <2>1 DEF InLane, Wakers
  <2>3. CASE pc[t] = "held"
    <3>1. Wakers(k)' = Wakers(k) \cup {h}
      BY <1>0, <2>1, <2>2, <2>3 DEF TypeOK, Wakers, InLane
    <3> QED BY <2>2, <2>3, <3>1, WakersType, FS_AddElement
  <2>4. CASE pc[t] = "handoff"
    <3>1. /\ t \in Wakers(k)
          /\ Wakers(k)' = (Wakers(k) \ {t}) \cup {h}
          /\ h \notin Wakers(k) \ {t}
      BY <1>0, <2>1, <2>2, <2>4 DEF TypeOK, Wakers, InLane
    <3>2. /\ IsFiniteSet(Wakers(k) \ {t})
          /\ Cardinality(Wakers(k) \ {t}) = Cardinality(Wakers(k)) - 1
      BY <3>1, WakersType, FS_RemoveElement
    <3>3. Cardinality(Wakers(k)') = Cardinality(Wakers(k)) - 1 + 1
      BY <3>1, <3>2, FS_AddElement
    <3> QED BY <2>4, <3>3, WakersType
  <2> QED BY <2>3, <2>4
<1> QED BY <1>1, <1>2

LEMMA HandOffIInv ==
  ASSUME IInv, NEW t \in Turns, HandOff(t)
  PROVE  IInv'
<1> USE DEF IInv
<1> DEFINE k == TurnLaneFromEntry(t)
<1>0. /\ pc[t] = "handoff" /\ pc' = [pc EXCEPT ![t] = "idle"]
      /\ SignalNextLocked(k) /\ k \in Lanes
      /\ UNCHANGED <<active, dropped, ctxDone>>
  BY LaneOfTurn DEF HandOff
<1>1. /\ wait' \in [Lanes -> Seq(Turns)]
      /\ ch' \in [Turns -> BOOLEAN]
      /\ SignalsMatch'
      /\ QueueIsBlockedTurns'
      /\ \A l \in Lanes : wait'[l] # <<>> => wait[l] # <<>>
  BY <1>0, SignalKeepsQueue
<1>2. TypeOK'
  BY <1>0, <1>1 DEF TypeOK, PCs
<1>3. SlotAccounting'
  BY <1>0, HoldersSame DEF SlotAccounting, Limited
<1>4. NoLostWakeup'
  <2> SUFFICES ASSUME NEW l \in Lanes, Limited(l), wait'[l] # <<>>
               PROVE  Limit[l] - active'[l] <= Cardinality(Wakers(l)')
    BY DEF NoLostWakeup, Limited
  <2>1. Limit[l] - active[l] <= Cardinality(Wakers(l))
    BY <1>1 DEF NoLostWakeup
  <2>2. CASE l = k
    <3>1. Cardinality(Wakers(l)') = Cardinality(Wakers(l))
      BY <1>0, <2>2, SignalAddsWaker
    <3> QED BY <1>0, <2>1, <3>1
  <2>3. CASE l # k
    <3>1. Wakers(l) \subseteq Wakers(l)'
      BY <1>0, <2>3, SignalAddsWaker
    <3> QED BY <1>0, <1>1, <3>1, WakersKept
  <2> QED BY <2>2, <2>3
<1> QED BY <1>1, <1>2, <1>3, <1>4

LEMMA ReleaseIInv ==
  ASSUME IInv, NEW t \in Turns, Release(t)
  PROVE  IInv'
<1> USE DEF IInv
<1> DEFINE k == TurnLaneFromEntry(t)
<1>0. /\ pc[t] = "held" /\ pc' = [pc EXCEPT ![t] = "idle"]
      /\ k \in Lanes /\ ~ch[t]
      /\ UNCHANGED <<dropped, ctxDone>>
  BY LaneOfTurn DEF Release, SignalsMatch
<1>1. CASE Limited(k)
  <2>0. /\ SignalNextLocked(k)
        /\ active' = [active EXCEPT ![k] = IF @ > 0 THEN @ - 1 ELSE @]
    BY <1>1 DEF Release
  <2>1. /\ wait' \in [Lanes -> Seq(Turns)]
        /\ ch' \in [Turns -> BOOLEAN]
        /\ SignalsMatch'
        /\ QueueIsBlockedTurns'
        /\ \A l \in Lanes : wait'[l] # <<>> => wait[l] # <<>>
    BY <1>0, <2>0, SignalKeepsQueue
  <2>2. active[k] \in Nat /\ active[k] = Cardinality(Holders(k)) /\ active[k] > 0
    BY <1>0, <1>1, HoldersShrink DEF TypeOK, SlotAccounting
  <2>3. \A l \in Lanes : active'[l] = IF l = k THEN active[k] - 1 ELSE active[l]
    BY <2>0, <2>2 DEF TypeOK
  <2>4. TypeOK'
    <3>0. active[k] - 1 \in Nat
      BY <2>2
    <3>1. active' \in [Lanes -> Nat]
      BY <1>0, <2>0, <2>2, <3>0 DEF TypeOK
    <3> QED BY <1>0, <2>1, <3>1 DEF TypeOK, PCs
  <2>5. SlotAccounting'
    <3> SUFFICES ASSUME NEW l \in Lanes, Limited(l)
                 PROVE  active'[l] = Cardinality(Holders(l)') /\ active'[l] <= Limit[l]
      BY DEF SlotAccounting, Limited
    <3>1. active[l] = Cardinality(Holders(l)) /\ active[l] <= Limit[l]
      BY DEF SlotAccounting
    <3>2. Cardinality(Holders(l)') = IF l = k THEN Cardinality(Holders(l)) - 1
                                             ELSE Cardinality(Holders(l))
      BY <1>0, HoldersShrink
    <3> QED BY <2>2, <2>3, <3>1, <3>2, CountTypes
  <2>6. NoLostWakeup'
    <3> SUFFICES ASSUME NEW l \in Lanes, Limited(l), wait'[l] # <<>>
                 PROVE  Limit[l] - active'[l] <= Cardinality(Wakers(l)')
      BY DEF NoLostWakeup, Limited
    <3>1. Limit[l] - active[l] <= Cardinality(Wakers(l))
      BY <2>1 DEF NoLostWakeup
    <3>2. CASE l = k
      <4>1. Cardinality(Wakers(l)') = Cardinality(Wakers(l)) + 1
        BY <1>0, <2>0, <3>2, SignalAddsWaker
      <4>2. active'[l] = active[l] - 1
        BY <2>3, <3>2
      <4>3. Limit[l] \in Int /\ active[l] \in Nat /\ Cardinality(Wakers(l)) \in Nat
        BY CountTypes, WakersType
      <4> QED BY <3>1, <4>1, <4>2, <4>3
    <3>3. CASE l # k
      <4>1. Wakers(l) \subseteq Wakers(l)' /\ active'[l] = active[l]
        BY <1>0, <2>0, <2>3, <3>3, SignalAddsWaker
      <4> QED BY <2>1, <4>1, WakersKept
    <3> QED BY <3>2, <3>3
  <2> QED BY <2>1, <2>4, <2>5, <2>6
<1>2. CASE ~Limited(k)
  <2>0. UNCHANGED <<active, wait, ch>>
    BY <1>2 DEF Release
  <2>1. TypeOK'
    BY <1>0, <2>0 DEF TypeOK, PCs
  <2>2. SignalsMatch'
    BY <1>0, <2>0 DEF TypeOK, SignalsMatch
  <2>3. SlotAccounting'
    BY <1>0, <1>2, <2>0, HoldersShrink DEF SlotAccounting, Limited
  <2>4. QueueIsBlockedTurns'
    BY <1>0, <2>0 DEF TypeOK, QueueIsBlockedTurns, InLane
  <2>5. NoLostWakeup'
    <3> SUFFICES ASSUME NEW l \in Lanes, Limited(l), wait'[l] # <<>>
                 PROVE  Limit[l] - active'[l] <= Cardinality(Wakers(l)')
      BY DEF NoLostWakeup, Limited
    <3>1. Wakers(l) \subseteq Wakers(l)'
      BY <1>0, <2>0 DEF TypeOK, Wakers, InLane
    <3> QED BY <2>0, <3>1, WakersKept
  <2> QED BY <2>1, <2>2, <2>3, <2>4, <2>5
<1> QED BY <1>1, <1>2

LEMMA CtxCancelIInv ==
  ASSUME IInv, NEW t \in Turns, CtxCancel(t)
  PROVE  IInv'
<1> USE DEF IInv
<1>1. TypeOK'
  BY DEF TypeOK, CtxCancel
<1>2. UNCHANGED <<active, wait, pc, ch, dropped>>
  BY DEF CtxCancel
<1> QED BY <1>1, <1>2 DEF SignalsMatch, SlotAccounting, QueueIsBlockedTurns,
                         NoLostWakeup, Holders, Wakers, Limited, InLane

LEMMA NextIInv == IInv /\ [Next]_vars => IInv'
<1> SUFFICES ASSUME IInv, [Next]_vars PROVE IInv'
  OBVIOUS
<1>1. CASE UNCHANGED vars
  BY <1>1 DEF vars, IInv, TypeOK, SignalsMatch, SlotAccounting,
              QueueIsBlockedTurns, NoLostWakeup, Holders, Wakers, Limited, InLane
<1>2. ASSUME NEW t \in Turns, Begin(t) PROVE IInv'
  BY <1>2, BeginIInv
<1>3. ASSUME NEW t \in Turns, AcquireUnlimited(t) PROVE IInv'
  BY <1>3, AcquireUnlimitedIInv
<1>4. ASSUME NEW t \in Turns, AcquireSlot(t) PROVE IInv'
  BY <1>4, AcquireSlotIInv
<1>5. ASSUME NEW t \in Turns, Enqueue(t) PROVE IInv'
  BY <1>5, EnqueueIInv
<1>6. ASSUME NEW t \in Turns, Woken(t) PROVE IInv'
  BY <1>6, WokenIInv
<1>7. ASSUME NEW t \in Turns, DropWaiter(t) PROVE IInv'
  BY <1>7, DropWaiterIInv
<1>8. ASSUME NEW t \in Turns, Drain(t) PROVE IInv'
  BY <1>8, DrainIInv
<1>9. ASSUME NEW t \in Turns, HandOff(t) PROVE IInv'
  BY <1>9, HandOffIInv
<1>10. ASSUME NEW t \in Turns, Release(t) PROVE IInv'
  BY <1>10, ReleaseIInv
<1>11. ASSUME NEW t \in Turns, CtxCancel(t) PROVE IInv'
  BY <1>11, CtxCancelIInv
<1> QED
  BY <1>1, <1>2, <1>3, <1>4, <1>5, <1>6, <1>7, <1>8, <1>9, <1>10, <1>11 DEF Next, Step, AcquireStep

(* The inductive invariant holds in every reachable state.                 *)
THEOREM Invariance == Spec => []IInv
BY InitIInv, NextIInv, PTL DEF Spec

(* Types are respected; in particular no slot counter ever goes below      *)
(* zero, although release guards against it.                               *)
THEOREM TypeCorrect == Spec => []TypeOK
<1>1. IInv => TypeOK
  BY DEF IInv
<1> QED BY <1>1, Invariance, PTL

(* For any number of turns and any limits, the counter of a limited lane   *)
(* is the number of turns that run in it, and stays within the limit.      *)
THEOREM SlotsExact == Spec => []SlotAccounting
<1>1. IInv => SlotAccounting
  BY DEF IInv
<1> QED BY <1>1, Invariance, PTL

(* The queue of a lane is exactly its blocked, unsignalled turns.          *)
THEOREM QueueExact == Spec => []QueueIsBlockedTurns
<1>1. IInv => QueueIsBlockedTurns
  BY DEF IInv
<1> QED BY <1>1, Invariance, PTL

(* For any number of turns and any limits, no free slot is left without a  *)
(* turn that is on its way to it while turns are queued for the lane.      *)
THEOREM WakeupsNeverLost == Spec => []NoLostWakeup
<1>1. IInv => NoLostWakeup
  BY DEF IInv
<1> QED BY <1>1, Invariance, PTL

-----------------------------------------------------------------------------
(* LaneScheduler implements the counting gate LaneGate.                    *)

LEMMA GateStep ==
  ASSUME IInv, NEW t \in Turns, Step(t)
  PROVE  [Gate!GateNext]_(Gate!gateVars)
<1> DEFINE k == TurnLaneFromEntry(t)
           ask == [l \in Lanes |-> {u \in InLane(l) : pc[u] \notin {"idle", "held"}}]
           run == [l \in Lanes |-> Holders(l)]
<1>0. k \in Lanes /\ pc \in [Turns -> PCs]
  BY LaneOfTurn DEF IInv, TypeOK
<1>1. ASSUME pc' = [pc EXCEPT ![t] = "acquire"], pc[t] = "idle"
      PROVE  Gate!Ask(t, k)
  <2>1. ask' = [ask EXCEPT ![k] = @ \cup {t}]
    BY <1>0, <1>1 DEF InLane
  <2>2. run' = run
    BY <1>0, <1>1 DEF Holders, InLane
  <2>3. ~Gate!Busy(t)
    BY <1>1 DEF Gate!Busy, Holders
  <2> QED BY <2>1, <2>2, <2>3 DEF Gate!Ask
<1>2. ASSUME pc' = [pc EXCEPT ![t] = "held"], pc[t] = "acquire",
             Limited(k) => active[k] < Limit[k]
      PROVE  Gate!Grant(t, k)
  <2>1. ask' = [ask EXCEPT ![k] = @ \ {t}]
    BY <1>0, <1>2 DEF InLane
  <2>2. run' = [run EXCEPT ![k] = @ \cup {t}]
    BY <1>0, <1>2 DEF Holders, InLane
  <2>3. t \in ask[k]
    BY <1>0, <1>2 DEF InLane
  <2>4. Limit[k] > 0 => Cardinality(run[k]) < Limit[k]
    BY <1>0, <1>2 DEF IInv, SlotAccounting, Limited
  <2>5. Gate!Cardinality(run[k]) = Cardinality(run[k])
    BY DEF Gate!Cardinality, Cardinality, Gate!IsFiniteSet, IsFiniteSet
  <2> HIDE DEF ask, run
  <2>6. Limit[k] > 0 => Gate!Cardinality(run[k]) < Limit[k]
    BY <2>4, <2>5
  <2> QED BY <2>1, <2>2, <2>3, <2>6 DEF Gate!Grant, ask, run
<1>3. ASSUME pc' = [pc EXCEPT ![t] = "idle"], pc[t] \in {"drain", "handoff"}
      PROVE  Gate!Refuse(t, k)
  <2>1. ask' = [ask EXCEPT ![k] = @ \ {t}]
    BY <1>0, <1>3 DEF InLane
  <2>2. run' = run
    BY <1>0, <1>3 DEF Holders, InLane
  <2>3. t \in ask[k]
    BY <1>0, <1>3 DEF InLane
  <2> QED BY <2>1, <2>2, <2>3 DEF Gate!Refuse
<1>4. ASSUME pc' = [pc EXCEPT ![t] = "idle"], pc[t] = "held"
      PROVE  Gate!GiveBack(t, k)
  <2>1. ask' = ask
    BY <1>0, <1>4 DEF InLane
  <2>2. run' = [run EXCEPT ![k] = @ \ {t}]
    BY <1>0, <1>4 DEF Holders, InLane
  <2>3. t \in run[k]
    BY <1>0, <1>4 DEF Holders, InLane
  <2> QED BY <2>1, <2>2, <2>3 DEF Gate!GiveBack
<1>5. ASSUME \E x \in {"acquire", "wait", "drain", "handoff"} : pc' = [pc EXCEPT ![t] = x],
             pc[t] \in {"acquire", "wait", "drain", "handoff"}
      PROVE  UNCHANGED Gate!gateVars
  <2>1. ask' = ask /\ run' = run
    BY <1>0, <1>5 DEF Holders, InLane
  <2> QED BY <2>1 DEF Gate!gateVars
<1>6. CASE Begin(t)
  BY <1>0, <1>1, <1>6 DEF Begin, Gate!GateNext
<1>7. CASE AcquireUnlimited(t)
  BY <1>0, <1>2, <1>7 DEF AcquireUnlimited, Return, Gate!GateNext
<1>8. CASE AcquireSlot(t)
  BY <1>0, <1>2, <1>8 DEF AcquireSlot, Return, Gate!GateNext
<1>9. CASE Enqueue(t)
  BY <1>5, <1>9 DEF Enqueue
<1>10. CASE Woken(t)
  BY <1>5, <1>10 DEF Woken
<1>11. CASE DropWaiter(t)
  BY <1>5, <1>11 DEF DropWaiter
<1>12. CASE Drain(t)
  BY <1>0, <1>3, <1>5, <1>12 DEF Drain, Return, Gate!GateNext
<1>13. CASE HandOff(t)
  BY <1>0, <1>3, <1>13 DEF HandOff, Gate!GateNext
<1>14. CASE Release(t)
  BY <1>0, <1>4, <1>14 DEF Release, Gate!GateNext
<1>15. CASE CtxCancel(t)
  BY <1>15 DEF CtxCancel, Gate!gateVars, Holders, InLane
<1> QED BY <1>6, <1>7, <1>8, <1>9, <1>10, <1>11, <1>12, <1>13, <1>14, <1>15 DEF Step, AcquireStep

(* Every behaviour of the scheduler is a behaviour of the counting gate:   *)
(* its queue, its channels and its cancellation protocol only decide who   *)
(* is granted a slot and when, never how many are.                         *)
THEOREM RefinesGate == Spec => ImplementsGate
<1>1. Init => Gate!GateInit
  BY DEF Init, Gate!GateInit, Holders, InLane
<1>2. IInv /\ [Next]_vars => [Gate!GateNext]_(Gate!gateVars)
  <2> SUFFICES ASSUME IInv, [Next]_vars PROVE [Gate!GateNext]_(Gate!gateVars)
    OBVIOUS
  <2>1. CASE UNCHANGED vars
    BY <2>1 DEF vars, Gate!gateVars, Holders, InLane
  <2>2. CASE Next
    BY <2>2, GateStep DEF Next
  <2> QED BY <2>1, <2>2
<1> QED BY <1>1, <1>2, Invariance, PTL DEF Spec, ImplementsGate, Gate!GateSpec
=============================================================================
