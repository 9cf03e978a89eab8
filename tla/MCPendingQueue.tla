--------------------------- MODULE MCPendingQueue ---------------------------
(* Small instances of PendingQueue.                                        *)
EXTENDS PendingQueue, TLC

CONSTANTS s1, m1, m2, m3, f1, f2

OneSession == {s1}
ThreeMessages == {m1, m2, m3}
AllToOne == [m \in ThreeMessages |-> s1]
TwoStored == {m1, m2}

TwoFlushers == {f1, f2}

(* The timer's goroutines are alike.                                       *)
Goroutines == Permutations(TwoFlushers)
=============================================================================
