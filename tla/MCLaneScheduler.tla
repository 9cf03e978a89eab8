--------------------------- MODULE MCLaneScheduler ---------------------------
(* Small instances of LaneScheduler.                                       *)
EXTENDS LaneScheduler

CONSTANTS t1, t2, t3, t4, t5

(* Four cron turns for two slots, and an interactive turn beside them.     *)
CronTurns == {t1, t2, t3, t4, t5}
CronEntry == [t \in CronTurns |-> IF t = t5 THEN "web" ELSE "cron"]
NoTeam    == [t \in CronTurns |-> FALSE]

(* DefaultLaneLimits.                                                      *)
DefaultLimits == [main |-> 0, cron |-> 2, team |-> 2, durable |-> 4]
=============================================================================
