----------------------------- MODULE MCJobQueue -----------------------------
(* Small instances of JobQueue for TLC.                                      *)
EXTENDS JobQueue, TLC

CONSTANTS p1, p2, j1, j2, j3, ai, llm

OnePool == [j \in Jobs |-> ai]
Urgency == [j \in Jobs |-> IF j = j1 THEN 0 ELSE 3]
Limited == [j \in Jobs |-> IF j = j3 THEN NoProvider ELSE llm]
TwoTasks == [q \in Pools |-> 2]
OneTask == [q \in Pools |-> 1]
OneCall == [v \in Providers |-> 1]

=============================================================================
