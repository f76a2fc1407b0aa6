--------------------------- MODULE JobQueueProofs ---------------------------
(***************************************************************************)
(* Theorems about JobQueue, for any number of processes, pools and jobs,   *)
(* whether or not processes exit and statements fail.                      *)
(***************************************************************************)
EXTENDS JobQueue, FiniteSetTheorems, TLAPS

\* A loop holds a claimed job exactly between its claim and the task's start,
\* and the job is one of the loop's pool.
HeldBySpawner ==
  \A p \in Procs, q \in Pools :
    /\ loop[p][q] = "spawning" => held[p][q] \in Jobs
    /\ held[p][q] \in Jobs => loop[p][q] = "spawning" /\ PoolOf[held[p][q]] = q

\* A row starts with its whole budget.
FreshRow == \A j \in Jobs : status[j] = "ABSENT" => attempts[j] = 0

\* What makes the claims of several processes and the reports of their tasks
\* safe together.
Always ==
  /\ TypeOK
  /\ HeldBySpawner
  /\ SingleRunner
  /\ FreshRow
  /\ AttemptBudget

-----------------------------------------------------------------------------
\* The initial state satisfies the invariant.
LEMMA AlwaysInit == Init => Always
  BY JobAssumption DEF Init, Always, TypeOK, HeldBySpawner, SingleRunner, Has,
     FreshRow, AttemptBudget, JobStatus, LoopStep, TaskStep

\* Orders by run_at stay pairs of jobs.
LEMMA AheadType ==
  ASSUME TypeOK, NEW j \in Jobs
  PROVE  /\ {x \in ahead : j \notin {x[1], x[2]}} \subseteq Jobs \X Jobs
         /\ ahead \union (Waiting \X {j}) \subseteq Jobs \X Jobs
         /\ due \union {j} \subseteq Jobs
  BY DEF TypeOK, Waiting

\* Changing one entry of a function of two arguments.
LEMMA SetAt ==
  ASSUME NEW A, NEW B, NEW S, NEW f \in [A -> [B -> S]], NEW a \in A, NEW b \in B,
         NEW v \in S
  PROVE  /\ [f EXCEPT ![a][b] = v] \in [A -> [B -> S]]
         /\ \A x \in A, y \in B :
              [f EXCEPT ![a][b] = v][x][y] = IF x = a /\ y = b THEN v ELSE f[x][y]
<1> DEFINE g == [f[a] EXCEPT ![b] = v]
<1>1. g \in [B -> S] /\ \A y \in B : g[y] = IF y = b THEN v ELSE f[a][y]
  OBVIOUS
<1>2. [f EXCEPT ![a][b] = v] = [f EXCEPT ![a] = g]
  OBVIOUS
<1> HIDE DEF g
<1> QED
  BY <1>1, <1>2

\* Changing a whole row of it.
LEMMA SetRow ==
  ASSUME NEW A, NEW B, NEW S, NEW f \in [A -> [B -> S]], NEW a \in A, NEW g \in [B -> S]
  PROVE  /\ [f EXCEPT ![a] = g] \in [A -> [B -> S]]
         /\ \A x \in A, y \in B :
              [f EXCEPT ![a] = g][x][y] = IF x = a THEN g[y] ELSE f[x][y]
  OBVIOUS

\* What the assignments to loop, held and task do, entry by entry.
LEMMA LoopSet ==
  ASSUME TypeOK, NEW p \in Procs, NEW q \in Pools, NEW step \in LoopStep,
         SetLoop(p, q, step)
  PROVE  /\ loop' \in [Procs -> [Pools -> LoopStep]]
         /\ \A x \in Procs, y \in Pools :
              loop'[x][y] = IF x = p /\ y = q THEN step ELSE loop[x][y]
<1>1. loop \in [Procs -> [Pools -> LoopStep]] /\ loop' = [loop EXCEPT ![p][q] = step]
  BY DEF TypeOK, SetLoop
<1> QED
  BY <1>1, SetAt

LEMMA TaskSet ==
  ASSUME TypeOK, NEW p \in Procs, NEW j \in Jobs, NEW step \in TaskStep,
         SetTask(p, j, step)
  PROVE  /\ task' \in [Procs -> [Jobs -> TaskStep]]
         /\ \A x \in Procs, y \in Jobs :
              task'[x][y] = IF x = p /\ y = j THEN step ELSE task[x][y]
<1>1. task \in [Procs -> [Jobs -> TaskStep]] /\ task' = [task EXCEPT ![p][j] = step]
  BY DEF TypeOK, SetTask
<1> QED
  BY <1>1, SetAt

SetHeld(p, q, j) == held' = [held EXCEPT ![p][q] = j]

LEMMA HeldSet ==
  ASSUME TypeOK, NEW p \in Procs, NEW q \in Pools, NEW j \in Jobs \union {NoJob},
         SetHeld(p, q, j)
  PROVE  /\ held' \in [Procs -> [Pools -> Jobs \union {NoJob}]]
         /\ \A x \in Procs, y \in Pools :
              held'[x][y] = IF x = p /\ y = q THEN j ELSE held[x][y]
<1>1. held \in [Procs -> [Pools -> Jobs \union {NoJob}]] /\ held' = [held EXCEPT ![p][q] = j]
  BY DEF TypeOK, SetHeld
<1> QED
  BY <1>1, SetAt

\* A loop that neither starts nor stops holding a job keeps who holds what.
LEMMA LoopOnly ==
  ASSUME TypeOK, HeldBySpawner, NEW p \in Procs, NEW q \in Pools,
         NEW step \in LoopStep \ {"spawning"}, loop[p][q] # "spawning",
         SetLoop(p, q, step), held' = held
  PROVE  loop' \in [Procs -> [Pools -> LoopStep]] /\ HeldBySpawner'
<1>1. /\ loop' \in [Procs -> [Pools -> LoopStep]]
      /\ \A x \in Procs, y \in Pools :
           loop'[x][y] = IF x = p /\ y = q THEN step ELSE loop[x][y]
  BY LoopSet
<1>2. ASSUME NEW x \in Procs, NEW y \in Pools
      PROVE  /\ loop'[x][y] = "spawning" => held[x][y] \in Jobs
             /\ held[x][y] \in Jobs => /\ loop'[x][y] = "spawning"
                                       /\ PoolOf[held[x][y]] = y
  BY <1>1 DEF HeldBySpawner
<1> QED
  BY <1>1, <1>2 DEF HeldBySpawner

-----------------------------------------------------------------------------
\* Every step keeps the invariant.
LEMMA AlwaysStep == Always /\ [Next]_vars => Always'
<1> SUFFICES ASSUME Always, [Next]_vars PROVE Always'
  OBVIOUS
<1>0. TypeOK /\ HeldBySpawner /\ SingleRunner /\ FreshRow /\ AttemptBudget
  BY DEF Always
<1> USE <1>0, JobAssumption
<1>1. ASSUME NEW j \in Jobs, Enqueue(j) \/ BackoffOver(j) PROVE Always'
  <2>0. due' \subseteq Jobs /\ ahead' \subseteq Jobs \X Jobs
    BY <1>1, AheadType DEF Enqueue, BackoffOver, ComesDue
  <2>1. CASE Enqueue(j)
    <3>1. TypeOK' /\ HeldBySpawner'
      BY <2>0, <2>1 DEF Enqueue, JobStatus, TypeOK, HeldBySpawner
    <3>2. \A p \in Procs : ~Has(p, j)
      BY <2>1 DEF Enqueue, SingleRunner, Ended
    <3>3. SingleRunner' /\ FreshRow' /\ AttemptBudget'
      BY <2>1, <3>2 DEF Enqueue, TypeOK, SingleRunner, Has, FreshRow, AttemptBudget
    <3> QED
      BY <3>1, <3>3 DEF Always
  <2>2. CASE BackoffOver(j)
    BY <2>0, <2>2 DEF Always, BackoffOver, TypeOK, HeldBySpawner, SingleRunner, Has,
       FreshRow, AttemptBudget
  <2> QED
    BY <1>1, <2>1, <2>2
<1>2. ASSUME NEW p \in Procs, Start(p) PROVE Always'
  <2>1. /\ loop' \in [Procs -> [Pools -> LoopStep]]
        /\ \A x \in Procs, y \in Pools :
             loop'[x][y] = IF x = p THEN "top" ELSE loop[x][y]
    BY <1>2, SetRow DEF Start, LoopStep, TypeOK
  <2> QED
    BY <1>2, <2>1 DEF Always, Start, tableVars, TypeOK, HeldBySpawner, SingleRunner, Has,
       FreshRow, AttemptBudget
<1>3. ASSUME NEW p \in Procs, Stop(p) PROVE Always'
  <2>1. /\ loop' \in [Procs -> [Pools -> LoopStep]]
        /\ \A y \in Pools : loop'[p][y] \in {"cancelled", "dead"}
        /\ \A x \in Procs \ {p}, y \in Pools : loop'[x][y] = loop[x][y]
    BY <1>3, SetRow DEF Stop, LoopStep, TypeOK
  <2>2. /\ held' \in [Procs -> [Pools -> Jobs \union {NoJob}]]
        /\ \A x \in Procs, y \in Pools :
             held'[x][y] = IF x = p THEN NoJob ELSE held[x][y]
    BY <1>3, SetRow DEF Stop, TypeOK
  <2> QED
    BY <1>3, <2>1, <2>2 DEF Always, Stop, tableVars, TypeOK, HeldBySpawner, SingleRunner, Has,
       FreshRow, AttemptBudget
<1>4. ASSUME NEW p \in Procs, Exit(p) PROVE Always'
  <2>1. /\ loop' \in [Procs -> [Pools -> LoopStep]]
        /\ \A x \in Procs, y \in Pools :
             loop'[x][y] = IF x = p THEN "down" ELSE loop[x][y]
    BY <1>4, SetRow DEF Exit, LoopStep, TypeOK
  <2>2. /\ held' \in [Procs -> [Pools -> Jobs \union {NoJob}]]
        /\ \A x \in Procs, y \in Pools :
             held'[x][y] = IF x = p THEN NoJob ELSE held[x][y]
    BY <1>4, SetRow DEF Exit, TypeOK
  <2>3. /\ task' \in [Procs -> [Jobs -> TaskStep]]
        /\ \A x \in Procs, y \in Jobs :
             task'[x][y] = IF x = p THEN "none" ELSE task[x][y]
    BY <1>4, SetRow DEF Exit, TaskStep, TypeOK
  <2> QED
    BY <1>4, <2>1, <2>2, <2>3 DEF Always, Exit, tableVars, TypeOK, HeldBySpawner, SingleRunner, Has,
       FreshRow, AttemptBudget
<1>5. ASSUME NEW p \in Procs, NEW q \in Pools, Claim(p, q) PROVE Always'
  <2>1. PICK j \in Jobs :
          /\ status[j] = "QUEUED" /\ PoolOf[j] = q
          /\ status' = [status EXCEPT ![j] = "RUNNING"]
          /\ attempts' = [attempts EXCEPT ![j] = @ + 1]
          /\ ahead' = {x \in ahead : j \notin {x[1], x[2]}}
          /\ SetHeld(p, q, j)
    BY <1>5 DEF Claim, ClaimFrom, Foremost, Take, TypeOK, SetHeld
  <2>2. /\ loop' \in [Procs -> [Pools -> LoopStep]]
        /\ \A x \in Procs, y \in Pools :
             loop'[x][y] = IF x = p /\ y = q THEN "spawning" ELSE loop[x][y]
    BY <1>5, LoopSet DEF Claim, ClaimFrom, LoopStep
  <2>3. /\ held' \in [Procs -> [Pools -> Jobs \union {NoJob}]]
        /\ \A x \in Procs, y \in Pools :
             held'[x][y] = IF x = p /\ y = q THEN j ELSE held[x][y]
    BY <2>1, HeldSet
  <2>4. status' \in [Jobs -> JobStatus] /\ attempts' \in [Jobs -> Nat]
    BY <2>1 DEF JobStatus, TypeOK
  <2>5. UNCHANGED <<due, task>>
    BY <1>5 DEF Claim, ClaimFrom, Take
  <2>6. TypeOK'
    BY <2>1, <2>2, <2>3, <2>4, <2>5, AheadType DEF TypeOK
  <2>7. HeldBySpawner'
    <3>1. j \in Jobs /\ PoolOf[j] = q
      BY <2>1
    <3>2. ASSUME NEW x \in Procs, NEW y \in Pools
          PROVE  /\ loop'[x][y] = "spawning" => held'[x][y] \in Jobs
                 /\ held'[x][y] \in Jobs => /\ loop'[x][y] = "spawning"
                                            /\ PoolOf[held'[x][y]] = y
      <4>1. CASE x = p /\ y = q
        <5>1. loop'[x][y] = "spawning" /\ held'[x][y] = j
          BY <2>2, <2>3, <4>1
        <5> QED
          BY <3>1, <4>1, <5>1
      <4>2. CASE ~(x = p /\ y = q)
        <5>1. loop'[x][y] = loop[x][y] /\ held'[x][y] = held[x][y]
          BY <2>2, <2>3, <4>2
        <5> QED
          BY <5>1 DEF HeldBySpawner
      <4> QED
        BY <4>1, <4>2
    <3> QED
      BY <3>2 DEF HeldBySpawner
  <2>8. SingleRunner'
    <3>1. \A x \in Procs : ~Has(x, j)
      BY <2>1 DEF SingleRunner
    <3>2. ASSUME NEW x \in Procs, NEW k \in Jobs, Has(x, k)'
          PROVE  (k = j /\ x = p) \/ (k # j /\ Has(x, k))
      BY <2>3, <2>5, <3>1, <3>2 DEF Has
    <3>3. status'[j] = "RUNNING" /\ \A k \in Jobs \ {j} : status'[k] = status[k]
      BY <2>1 DEF TypeOK
    <3>4. ASSUME NEW k \in Jobs, NEW x \in Procs, Has(x, k)'
          PROVE  \/ status'[k] = "RUNNING"
                 \/ status'[k] = "COMPLETED" /\ task'[x][k] = "failed"
      BY <2>5, <3>2, <3>3, <3>4 DEF SingleRunner
    <3>5. \A k \in Jobs, x, y \in Procs : Has(x, k)' /\ Has(y, k)' => x = y
      BY <3>2 DEF SingleRunner
    <3>6. \A x \in Procs : task[x][j] = "none"
      BY <3>1 DEF Has
    <3>7. ASSUME NEW x \in Procs, NEW y \in Pools, NEW k \in Jobs, held'[x][y] = k
          PROVE  task'[x][k] = "none"
      BY <2>3, <2>5, <3>6, <3>7 DEF SingleRunner
    <3> QED
      BY <3>4, <3>5, <3>7 DEF SingleRunner
  <2>9. FreshRow' /\ AttemptBudget'
    BY <2>1, <2>4 DEF FreshRow, AttemptBudget, TypeOK
  <2> QED
    BY <2>6, <2>7, <2>8, <2>9 DEF Always
<1>6. ASSUME NEW p \in Procs, NEW q \in Pools, ClaimForNobody(p, q) \/ ClaimError(p, q)
      PROVE  Always'
  <2>1. (\E j \in Runnable(q) : Take(j)) \/ UNCHANGED tableVars
    BY <1>6 DEF ClaimForNobody, ClaimError, Foremost
  <2>2. held' = held /\ task' = task
    BY <1>6 DEF ClaimForNobody, ClaimError
  <2>3. loop' \in [Procs -> [Pools -> LoopStep]] /\ HeldBySpawner'
    BY <1>6, <2>2, LoopOnly DEF ClaimForNobody, ClaimError, LoopStep
  <2>4. CASE UNCHANGED tableVars
    BY <2>2, <2>3, <2>4 DEF Always, tableVars, TypeOK, SingleRunner, Has, FreshRow,
       AttemptBudget
  <2>5. ASSUME NEW j \in Runnable(q), Take(j) PROVE Always'
    <3>0. j \in Jobs /\ status[j] = "QUEUED"
      BY DEF Runnable, Waiting, TypeOK
    <3>1. status' \in [Jobs -> JobStatus] /\ attempts' \in [Jobs -> Nat]
      BY <2>5, <3>0 DEF Take, JobStatus, TypeOK
    <3>2. TypeOK'
      BY <2>2, <2>3, <2>5, <3>0, <3>1, AheadType DEF Take, TypeOK
    <3>3. SingleRunner'
      BY <2>2, <2>5, <3>0 DEF Take, SingleRunner, Has, TypeOK
    <3>4. FreshRow' /\ AttemptBudget'
      BY <2>5, <3>0, <3>1 DEF Take, FreshRow, AttemptBudget, TypeOK
    <3> QED
      BY <2>3, <3>2, <3>3, <3>4 DEF Always
  <2> QED
    BY <2>1, <2>4, <2>5
<1>7. ASSUME NEW p \in Procs, NEW q \in Pools,
             Top(p, q) \/ ClaimEmpty(p, q) \/ Wake(p, q)
      PROVE Always'
  <2>1. UNCHANGED tableVars /\ held' = held /\ task' = task
    BY <1>7 DEF Top, ClaimEmpty, Wake
  <2>2. PICK step \in LoopStep \ {"spawning"} : SetLoop(p, q, step)
    BY <1>7 DEF Top, ClaimEmpty, Wake, LoopStep
  <2>3. loop[p][q] # "spawning"
    BY <1>7 DEF Top, ClaimEmpty, Wake
  <2>4. loop' \in [Procs -> [Pools -> LoopStep]] /\ HeldBySpawner'
    BY <2>1, <2>2, <2>3, LoopOnly
  <2> QED
    BY <2>1, <2>4 DEF Always, tableVars, TypeOK, SingleRunner, Has, FreshRow, AttemptBudget
<1>8. ASSUME NEW p \in Procs, NEW q \in Pools, Spawn(p, q) PROVE Always'
  <2> DEFINE j == held[p][q]
  <2>0. SetHeld(p, q, NoJob) /\ SetTask(p, j, "started")
    BY <1>8 DEF Spawn, SetHeld, SetTask
  <2>1. loop[p][q] = "spawning" /\ j \in Jobs /\ UNCHANGED tableVars
    BY <1>8 DEF Spawn, HeldBySpawner
  <2>2. /\ loop' \in [Procs -> [Pools -> LoopStep]]
        /\ \A x \in Procs, y \in Pools :
             loop'[x][y] = IF x = p /\ y = q THEN "top" ELSE loop[x][y]
    BY <1>8, LoopSet DEF Spawn, LoopStep
  <2>3. /\ held' \in [Procs -> [Pools -> Jobs \union {NoJob}]]
        /\ \A x \in Procs, y \in Pools :
             held'[x][y] = IF x = p /\ y = q THEN NoJob ELSE held[x][y]
    BY <2>0, HeldSet
  <2>4. /\ task' \in [Procs -> [Jobs -> TaskStep]]
        /\ \A x \in Procs, y \in Jobs :
             task'[x][y] = IF x = p /\ y = j THEN "started" ELSE task[x][y]
    BY <2>0, <2>1, TaskSet DEF TaskStep
  <2> HIDE DEF j
  <2>5. \A x \in Procs, y \in Pools : held[x][y] = j => x = p /\ y = q
    BY <2>1 DEF j, SingleRunner, Has, HeldBySpawner
  <2>6. TypeOK'
    BY <2>1, <2>2, <2>3, <2>4 DEF tableVars, TypeOK
  <2>7. HeldBySpawner'
    BY <2>2, <2>3 DEF HeldBySpawner
  <2>8. Has(p, j)
    BY DEF j, Has
  <2>9. ASSUME NEW x \in Procs, NEW k \in Jobs, Has(x, k)' PROVE Has(x, k)
    <3>1. CASE x = p /\ k = j
      BY <2>8, <3>1
    <3>2. CASE ~(x = p /\ k = j)
      BY <2>1, <2>3, <2>4, <2>9, <3>2 DEF Has
    <3> QED
      BY <3>1, <3>2
  <2>10. \A x \in Procs, y \in Pools, k \in Jobs :
           held'[x][y] = k => task'[x][k] = "none"
    <3> SUFFICES ASSUME NEW x \in Procs, NEW y \in Pools, NEW k \in Jobs,
                        held'[x][y] = k
                 PROVE  task'[x][k] = "none"
      OBVIOUS
    <3>1. ~(x = p /\ y = q) /\ held[x][y] = k
      BY <2>3
    <3>2. ~(x = p /\ k = j) /\ task[x][k] = "none"
      BY <2>5, <3>1 DEF SingleRunner
    <3> QED
      BY <2>4, <3>2
  <2>11. SingleRunner'
    <3>0. task[p][j] = "none"
      BY <2>1 DEF j, SingleRunner
    <3>1. ASSUME NEW k \in Jobs, NEW x \in Procs, Has(x, k)'
          PROVE  \/ status'[k] = "RUNNING"
                 \/ status'[k] = "COMPLETED" /\ task'[x][k] = "failed"
      <4>1. \/ status[k] = "RUNNING"
            \/ status[k] = "COMPLETED" /\ task[x][k] = "failed"
        BY <2>9, <3>1 DEF SingleRunner
      <4> QED
        BY <2>1, <2>4, <3>0, <4>1 DEF tableVars
    <3>2. \A k \in Jobs, x, y \in Procs : Has(x, k)' /\ Has(y, k)' => x = y
      BY <2>9 DEF SingleRunner
    <3> QED
      BY <3>1, <3>2, <2>10 DEF SingleRunner
  <2>12. FreshRow' /\ AttemptBudget'
    BY <2>1 DEF tableVars, FreshRow, AttemptBudget
  <2> QED
    BY <2>6, <2>7, <2>11, <2>12 DEF Always
<1>9. ASSUME NEW p \in Procs, NEW j \in Jobs,
             TaskStart(p, j) \/ Acquire(p, j) \/ Handler(p, j) \/ CompleteError(p, j)
               \/ FailError(p, j)
      PROVE Always'
  <2>1. PICK step \in TaskStep : SetTask(p, j, step)
    BY <1>9 DEF TaskStart, Acquire, Handler, CompleteError, FailError, TaskStep
  <2>2. /\ task' \in [Procs -> [Jobs -> TaskStep]]
        /\ \A x \in Procs, y \in Jobs :
             task'[x][y] = IF x = p /\ y = j THEN step ELSE task[x][y]
    BY <2>1, TaskSet
  <2>3. task[p][j] # "none" /\ UNCHANGED <<attempts, due, ahead, loop, held>>
    BY <1>9 DEF TaskStart, Acquire, Handler, CompleteError, FailError, tableVars
  <2>4. \/ status' = status /\ (task[p][j] # "failed" \/ step = "none")
        \/ /\ task[p][j] = "ok" /\ step = "failed"
           /\ status' = [status EXCEPT ![j] = "COMPLETED"]
    BY <1>9, <2>2 DEF TaskStart, Acquire, Handler, CompleteError, FailError, tableVars,
                      SetTask, TypeOK
  <2>5. /\ Has(p, j)
        /\ task[p][j] # "failed" => status[j] = "RUNNING"
    BY <2>3 DEF Has, SingleRunner
  <2>6. status' \in [Jobs -> JobStatus]
    BY <2>4 DEF TypeOK, JobStatus
  <2>7. \A k \in Jobs : \/ status'[k] = status[k]
                        \/ k = j /\ status[k] = "RUNNING" /\ status'[k] = "COMPLETED"
    BY <2>4, <2>5 DEF TypeOK
  <2> QED
    <3>1. TypeOK' /\ HeldBySpawner'
      BY <2>2, <2>3, <2>6 DEF TypeOK, HeldBySpawner
    <3>2. \A x \in Procs, k \in Jobs : Has(x, k)' => Has(x, k)
      BY <2>2, <2>3 DEF Has
    <3>3. \A x \in Procs, y \in Pools : held[x][y] = j => x # p
      BY <2>3 DEF SingleRunner
    <3>4. \A x \in Procs, y \in Pools, k \in Jobs :
            held'[x][y] = k => task'[x][k] = "none"
      BY <2>2, <2>3, <3>3 DEF SingleRunner
    <3>5. ASSUME NEW k \in Jobs, NEW x \in Procs, Has(x, k)'
          PROVE  \/ status'[k] = "RUNNING"
                 \/ status'[k] = "COMPLETED" /\ task'[x][k] = "failed"
      <4>1. Has(x, k)
        BY <3>2, <3>5
      <4>2. CASE x = p /\ k = j
        <5>1. step = "none" => ~Has(p, j)'
          BY <2>2, <2>3, <3>3 DEF Has
        <5>2. step # "none"
          BY <3>5, <4>2, <5>1
        <5>3. \/ status'[j] = status[j] /\ task[p][j] # "failed"
              \/ status'[j] = "COMPLETED" /\ step = "failed"
          BY <2>4, <5>2 DEF TypeOK
        <5> QED
          BY <2>2, <2>5, <4>2, <5>3
      <4>3. CASE ~(x = p /\ k = j)
        <5>1. status'[k] = status[k]
          BY <2>5, <2>7, <4>1, <4>3 DEF SingleRunner
        <5> QED
          BY <2>2, <4>1, <4>3, <5>1 DEF SingleRunner
      <4> QED
        BY <4>2, <4>3
    <3>6. SingleRunner'
      BY <3>2, <3>4, <3>5 DEF SingleRunner
    <3>7. FreshRow' /\ AttemptBudget'
      BY <2>3, <2>7 DEF FreshRow, AttemptBudget
    <3> QED
      BY <3>1, <3>6, <3>7 DEF Always
<1>10. ASSUME NEW p \in Procs, NEW j \in Jobs, Complete(p, j) \/ Fail(p, j) PROVE Always'
  <2>1. /\ task' \in [Procs -> [Jobs -> TaskStep]]
        /\ \A x \in Procs, y \in Jobs :
             task'[x][y] = IF x = p /\ y = j THEN "none" ELSE task[x][y]
    BY <1>10, TaskSet DEF Complete, Fail, FailAfter, TaskStep
  <2>2. task[p][j] # "none" /\ UNCHANGED <<attempts, loop, held>>
    BY <1>10 DEF Complete, Fail, FailAfter
  <2>3. PICK s \in {"COMPLETED", "DEAD_LETTER", "QUEUED"} :
          /\ status' = [status EXCEPT ![j] = s]
          /\ s = "DEAD_LETTER" => attempts[j] >= MaxAttempts
          /\ s = "QUEUED" => ~(attempts[j] >= MaxAttempts)
    BY <1>10 DEF Complete, Fail, FailAfter
  <2>4. due' \subseteq Jobs /\ ahead' = ahead
    BY <1>10 DEF Complete, Fail, FailAfter, TypeOK
  <2>5. status[j] \in {"RUNNING", "COMPLETED"} /\ Has(p, j)
    BY <2>2 DEF SingleRunner, Has
  <2>6. TypeOK'
    BY <2>1, <2>2, <2>3, <2>4 DEF JobStatus, TypeOK
  <2>7. HeldBySpawner'
    BY <2>2 DEF HeldBySpawner
  <2>8. SingleRunner'
    <3>1. \A x \in Procs, k \in Jobs : Has(x, k)' => Has(x, k)
      BY <2>1, <2>2 DEF Has
    <3>2. \A y \in Pools : held[p][y] # j
      BY <2>2 DEF SingleRunner
    <3>3. \A x \in Procs : ~Has(x, j)'
      <4>1. \A x \in Procs \ {p} : ~Has(x, j)
        BY <2>5 DEF SingleRunner
      <4>2. ~Has(p, j)'
        BY <2>1, <2>2, <3>2 DEF Has
      <4> QED
        BY <3>1, <4>1, <4>2
    <3>4. \A k \in Jobs \ {j} : status'[k] = status[k]
      BY <2>3 DEF TypeOK
    <3>5. ASSUME NEW k \in Jobs, NEW x \in Procs, Has(x, k)'
          PROVE  \/ status'[k] = "RUNNING"
                 \/ status'[k] = "COMPLETED" /\ task'[x][k] = "failed"
      <4>1. k # j /\ Has(x, k)
        BY <3>1, <3>3, <3>5
      <4> QED
        BY <2>1, <3>4, <4>1 DEF SingleRunner
    <3>6. \A x \in Procs, y \in Pools, k \in Jobs :
            held'[x][y] = k => task'[x][k] = "none"
      BY <2>1, <2>2, <3>2 DEF SingleRunner
    <3> QED
      BY <3>1, <3>5, <3>6 DEF SingleRunner
  <2>9. attempts[j] \in 1 .. MaxAttempts /\ status' \in [Jobs -> JobStatus]
    BY <2>5, <2>6 DEF AttemptBudget, TypeOK
  <2>10. FreshRow' /\ AttemptBudget'
    <3>1. /\ status'[j] = "QUEUED" => attempts'[j] < MaxAttempts
          /\ status'[j] = "DEAD_LETTER" => attempts'[j] = MaxAttempts
          /\ status'[j] = "COMPLETED" => attempts'[j] \in 1 .. MaxAttempts
          /\ status'[j] \notin {"ABSENT", "RUNNING"}
      <4>1. status'[j] = s /\ attempts'[j] = attempts[j]
        BY <2>2, <2>3 DEF TypeOK
      <4>2. attempts[j] \in Nat /\ MaxAttempts \in Nat /\ attempts[j] <= MaxAttempts
        BY <2>9
      <4> QED
        BY <2>3, <2>9, <4>1, <4>2
    <3>2. \A k \in Jobs \ {j} : status'[k] = status[k] /\ attempts'[k] = attempts[k]
      BY <2>2, <2>3 DEF TypeOK
    <3> QED
      BY <3>1, <3>2 DEF FreshRow, AttemptBudget
  <2> QED
    BY <2>6, <2>7, <2>8, <2>10 DEF Always
<1>11. CASE UNCHANGED vars
  BY <1>11 DEF Always, vars, tableVars, TypeOK, HeldBySpawner, SingleRunner, Has,
       FreshRow, AttemptBudget
<1> QED
  BY <1>1, <1>2, <1>3, <1>4, <1>5, <1>6, <1>7, <1>8, <1>9, <1>10, <1>11
     DEF Next, Loop, Task, Trouble

-----------------------------------------------------------------------------
\* The invariant holds in every behaviour.
THEOREM AlwaysHolds == Spec => []Always
  BY AlwaysInit, AlwaysStep, PTL DEF Spec

\* The state always has its types.
THEOREM TypeCorrect == Spec => []TypeOK
<1>1. Always => TypeOK
  BY DEF Always
<1> QED
  BY AlwaysHolds, <1>1, PTL

\* Two processes never work on one job, nor one process twice, and the row of
\* a job somebody works on is RUNNING: for any number of processes and jobs.
THEOREM OneRunner == Spec => []SingleRunner
<1>1. Always => SingleRunner
  BY DEF Always
<1> QED
  BY AlwaysHolds, <1>1, PTL

\* The attempts of every job stay within its budget, for any budget.
THEOREM BudgetKept == Spec => []AttemptBudget
<1>1. Always => AttemptBudget
  BY DEF Always
<1> QED
  BY AlwaysHolds, <1>1, PTL

\* The unguarded complete() and fail() change no job that has ended, once its task
\* is over: even one whose task takes it for failed, its COMMIT's answer being lost,
\* is changed by that task only.
THEOREM EndedStaysEnded == Spec => TerminalIsFinal
<1> DEFINE Final == \A j \in Jobs \ Recurring :
             status[j] \in Ended /\ (\A p \in Procs : ~Has(p, j)) => status'[j] = status[j]
<1>1. ASSUME Always, [Next]_vars PROVE [Final]_vars
  <2> SUFFICES ASSUME NEW j \in Jobs \ Recurring, status[j] \in Ended,
                      \A p \in Procs : ~Has(p, j)
               PROVE  status'[j] = status[j]
    OBVIOUS
  <2> USE <1>1, JobAssumption DEF Always, TypeOK, Ended
  <2>1. ASSUME NEW k \in Jobs, Enqueue(k) \/ BackoffOver(k)
        PROVE  status'[j] = status[j]
    BY <2>1 DEF Enqueue, BackoffOver
  <2>2. ASSUME NEW p \in Procs, Start(p) \/ Stop(p) \/ Exit(p)
        PROVE  status'[j] = status[j]
    BY <2>2 DEF Start, Stop, Exit, tableVars
  <2>3. ASSUME NEW p \in Procs, NEW q \in Pools,
               Claim(p, q) \/ ClaimForNobody(p, q) \/ ClaimError(p, q)
        PROVE  status'[j] = status[j]
    <3>1. status' = status \/ \E k \in Jobs : status[k] = "QUEUED" /\ Take(k)
      BY <2>3 DEF Claim, ClaimFrom, ClaimForNobody, ClaimError, Foremost, Runnable,
                  Waiting, tableVars
    <3> QED
      BY <3>1 DEF Take
  <2>4. ASSUME NEW p \in Procs, NEW q \in Pools,
               Top(p, q) \/ ClaimEmpty(p, q) \/ Wake(p, q) \/ Spawn(p, q)
        PROVE  status'[j] = status[j]
    BY <2>4 DEF Top, ClaimEmpty, Wake, Spawn, tableVars
  <2>5. ASSUME NEW p \in Procs, NEW k \in Jobs,
               Task(p, k) \/ CompleteError(p, k) \/ FailError(p, k)
        PROVE  status'[j] = status[j]
    <3>1. task[p][k] # "none"
      BY <2>5 DEF Task, TaskStart, Acquire, Handler, Complete, Fail, FailAfter,
                  CompleteError, FailError
    <3>2. k # j
      BY <3>1 DEF Has
    <3>3. status' = status \/ \E v : status' = [status EXCEPT ![k] = v]
      BY <2>5 DEF Task, TaskStart, Acquire, Handler, Complete, Fail, FailAfter,
                  CompleteError, FailError, tableVars
    <3> QED
      BY <3>2, <3>3
  <2>6. CASE UNCHANGED vars
    BY <2>6 DEF vars
  <2> QED
    BY <2>1, <2>2, <2>3, <2>4, <2>5, <2>6 DEF Next, Loop, Trouble
<1>2. Always /\ [Next]_vars => [Final]_vars
  BY <1>1
<1> QED
  BY AlwaysHolds, <1>2, PTL DEF Spec, TerminalIsFinal

-----------------------------------------------------------------------------
(* Capacities.  Jobs may be infinitely many; what a process works on is not. *)

\* A loop on its way from the capacity test to the new task has room for it:
\* between the two, tasks only end.
RoomAt(p, q) ==
  /\ IsFiniteSet(InFlight(p, q))
  /\ Cardinality(InFlight(p, q)) <= Concurrency[q]
  /\ loop[p][q] \in {"claiming", "spawning"}
       => Cardinality(InFlight(p, q)) < Concurrency[q]

Room == \A p \in Procs, q \in Pools : RoomAt(p, q)

\* Fewer tasks keep the room.
LEMMA RoomKept ==
  ASSUME NEW p \in Procs, NEW q \in Pools, RoomAt(p, q),
         InFlight(p, q)' \subseteq InFlight(p, q),
         \/ loop'[p][q] \notin {"claiming", "spawning"}
         \/ loop[p][q] \in {"claiming", "spawning"}
         \/ Cardinality(InFlight(p, q)) < Concurrency[q]
  PROVE  RoomAt(p, q)'
<1> DEFINE S == InFlight(p, q)
           T == InFlight(p, q)'
<1>1. IsFiniteSet(S)
  BY DEF RoomAt
<1>2. /\ IsFiniteSet(T) /\ Cardinality(T) <= Cardinality(S)
      /\ Cardinality(S) \in Nat /\ Cardinality(T) \in Nat
  BY <1>1, FS_Subset, FS_CardinalityType
<1>3. Concurrency[q] \in Nat
  BY JobAssumption
<1> QED
  BY <1>2, <1>3 DEF RoomAt

\* Every step keeps the room.
LEMMA RoomStep == Always /\ Room /\ [Next]_vars => Room'
<1> SUFFICES ASSUME Always, Room, [Next]_vars, NEW x \in Procs, NEW y \in Pools
             PROVE  RoomAt(x, y)'
  BY DEF Room
<1>0. TypeOK /\ HeldBySpawner /\ SingleRunner /\ RoomAt(x, y)
  BY DEF Always, Room
<1> USE <1>0
<1>1. ASSUME UNCHANGED <<loop, task>> PROVE RoomAt(x, y)'
  BY <1>1, RoomKept DEF InFlight, RoomAt
<1>2. ASSUME NEW p \in Procs, Start(p) \/ Stop(p) \/ Exit(p) PROVE RoomAt(x, y)'
  <2>1. loop' = [loop EXCEPT ![p] = loop'[p]] /\ loop'[p] \in [Pools -> LoopStep]
    BY <1>2 DEF Start, Stop, Exit, TypeOK, LoopStep
  <2>2. \/ loop'[x][y] = loop[x][y]
        \/ loop'[x][y] \notin {"claiming", "spawning"}
    <3>1. CASE x = p
      BY <1>2, <3>1 DEF Start, Stop, Exit, TypeOK
    <3>2. CASE x # p
      BY <2>1, <3>2 DEF TypeOK
    <3> QED
      BY <3>1, <3>2
  <2>3. InFlight(x, y)' \subseteq InFlight(x, y)
    <3>1. CASE Exit(p)
      <4>1. \A z \in Procs, k \in Jobs :
              task'[z][k] = IF z = p THEN "none" ELSE task[z][k]
        BY <3>1, SetRow DEF Exit, TypeOK, TaskStep
      <4> QED
        BY <4>1 DEF InFlight
    <3>2. CASE Start(p) \/ Stop(p)
      BY <3>2 DEF Start, Stop, InFlight
    <3> QED
      BY <1>2, <3>1, <3>2
  <2> QED
    BY <2>2, <2>3, RoomKept
<1>3. ASSUME NEW p \in Procs, NEW q \in Pools,
             \/ Top(p, q) \/ Claim(p, q) \/ ClaimEmpty(p, q) \/ Wake(p, q)
             \/ ClaimError(p, q) \/ ClaimForNobody(p, q)
      PROVE  RoomAt(x, y)'
  <2>1. task' = task
    BY <1>3 DEF Top, Claim, ClaimFrom, ClaimEmpty, Wake, ClaimError, ClaimForNobody
  <2>2. PICK step \in LoopStep : SetLoop(p, q, step)
    BY <1>3 DEF Top, Claim, ClaimFrom, ClaimEmpty, Wake, ClaimError, ClaimForNobody,
                LoopStep
  <2>3. \/ step \notin {"claiming", "spawning"}
        \/ loop[p][q] \in {"claiming", "spawning"}
        \/ Cardinality(InFlight(p, q)) < Concurrency[q]
    BY <1>3, <2>2 DEF Top, Claim, ClaimFrom, ClaimEmpty, Wake, ClaimError,
                      ClaimForNobody, SetLoop, TypeOK
  <2>4. loop'[x][y] = IF x = p /\ y = q THEN step ELSE loop[x][y]
    BY <2>2, LoopSet
  <2>5. InFlight(x, y)' \subseteq InFlight(x, y)
    BY <2>1 DEF InFlight
  <2> QED
    BY <2>3, <2>4, <2>5, RoomKept
<1>4. ASSUME NEW p \in Procs, NEW q \in Pools, Spawn(p, q) PROVE RoomAt(x, y)'
  <2> DEFINE j == held[p][q]
  <2>1. /\ SetTask(p, j, "started") /\ SetLoop(p, q, "top")
        /\ loop[p][q] = "spawning" /\ j \in Jobs /\ PoolOf[j] = q
    BY <1>4 DEF Spawn, SetTask, HeldBySpawner
  <2> HIDE DEF j
  <2>2. \A z \in Procs, k \in Jobs :
          task'[z][k] = IF z = p /\ k = j THEN "started" ELSE task[z][k]
    BY <2>1, TaskSet DEF TaskStep
  <2>3. loop'[x][y] = IF x = p /\ y = q THEN "top" ELSE loop[x][y]
    BY <2>1, LoopSet DEF LoopStep
  <2>4. CASE x = p /\ y = q
    <3> DEFINE S == InFlight(x, y)
               T == InFlight(x, y)'
    <3>1. T \subseteq S \union {j}
      BY <2>2 DEF InFlight
    <3>2. /\ IsFiniteSet(S \union {j}) /\ Cardinality(S) \in Nat
          /\ Cardinality(S \union {j}) <= Cardinality(S) + 1
          /\ Cardinality(S \union {j}) \in Nat
      <4>1. IsFiniteSet(S)
        BY DEF RoomAt
      <4>2. /\ IsFiniteSet(S \union {j})
            /\ Cardinality(S \union {j}) = IF j \in S THEN Cardinality(S)
                                                       ELSE Cardinality(S) + 1
        BY <4>1, FS_AddElement
      <4>3. Cardinality(S) \in Nat /\ Cardinality(S \union {j}) \in Nat
        BY <4>1, <4>2, FS_CardinalityType
      <4> QED
        BY <4>2, <4>3
    <3>3. /\ IsFiniteSet(T) /\ Cardinality(T) <= Cardinality(S \union {j})
          /\ Cardinality(T) \in Nat
      BY <3>1, <3>2, FS_Subset, FS_CardinalityType
    <3>4. Cardinality(S) < Concurrency[y] /\ Concurrency[y] \in Nat
      BY <2>1, <2>4, JobAssumption DEF RoomAt
    <3>5. loop'[x][y] \notin {"claiming", "spawning"}
      BY <2>3, <2>4
    <3> QED
      BY <3>2, <3>3, <3>4, <3>5 DEF RoomAt
  <2>5. CASE ~(x = p /\ y = q)
    <3>1. InFlight(x, y)' \subseteq InFlight(x, y)
      BY <2>1, <2>2, <2>5 DEF InFlight
    <3> QED
      BY <2>3, <2>5, <3>1, RoomKept
  <2> QED
    BY <2>4, <2>5
<1>5. ASSUME NEW p \in Procs, NEW j \in Jobs, Task(p, j) \/ CompleteError(p, j) \/ FailError(p, j)
      PROVE  RoomAt(x, y)'
  <2>1. PICK step \in TaskStep : SetTask(p, j, step)
    BY <1>5 DEF Task, TaskStart, Acquire, Handler, Complete, Fail, FailAfter,
                CompleteError, FailError, TaskStep
  <2>2. task[p][j] # "none" /\ loop' = loop
    BY <1>5 DEF Task, TaskStart, Acquire, Handler, Complete, Fail, FailAfter,
                CompleteError, FailError
  <2>3. \A z \in Procs, k \in Jobs :
          task'[z][k] = IF z = p /\ k = j THEN step ELSE task[z][k]
    BY <2>1, TaskSet
  <2>4. InFlight(x, y)' \subseteq InFlight(x, y)
    BY <2>2, <2>3 DEF InFlight
  <2> QED
    BY <2>2, <2>4, RoomKept
<1>6. ASSUME NEW j \in Jobs, Enqueue(j) \/ BackoffOver(j) PROVE RoomAt(x, y)'
  BY <1>1, <1>6 DEF Enqueue, BackoffOver
<1>7. CASE UNCHANGED vars
  BY <1>1, <1>7 DEF vars
<1> QED
  BY <1>2, <1>3, <1>4, <1>5, <1>6, <1>7 DEF Next, Loop, Trouble

LEMMA RoomInit == Init => Room
<1> SUFFICES ASSUME Init, NEW p \in Procs, NEW q \in Pools PROVE RoomAt(p, q)
  BY DEF Room
<1>1. InFlight(p, q) = {}
  BY DEF Init, InFlight
<1>2. Concurrency[q] \in Nat /\ loop[p][q] = "down"
  BY JobAssumption DEF Init
<1> QED
  BY <1>1, <1>2, FS_EmptySet DEF RoomAt

\* No process ever works on more jobs of a pool than its concurrency, for any
\* number of jobs and any concurrency.
THEOREM CapacityKept == Spec => []PoolCapacity
<1>1. Always /\ Room => PoolCapacity
  <2> SUFFICES ASSUME Always, Room, NEW p \in Procs, NEW q \in Pools
               PROVE  Cardinality(InFlight(p, q)) + (IF held[p][q] = NoJob THEN 0 ELSE 1)
                        <= Concurrency[q]
    BY DEF PoolCapacity
  <2>1. RoomAt(p, q) /\ Concurrency[q] \in Nat /\ Cardinality(InFlight(p, q)) \in Nat
    BY FS_CardinalityType, JobAssumption DEF Room, RoomAt
  <2>2. held[p][q] # NoJob => loop[p][q] = "spawning"
    BY DEF Always, TypeOK, HeldBySpawner
  <2> QED
    BY <2>1, <2>2 DEF RoomAt
<1> QED
  BY <1>1, AlwaysHolds, RoomInit, RoomStep, PTL DEF Spec

-----------------------------------------------------------------------------
(* The queue implements WorkOnce.                                          *)

\* Nobody has a job yet, and none has been tried.
LEMMA WorkInit == Init => Work!WInit
<1> SUFFICES ASSUME Init PROVE Work!WInit
  OBVIOUS
<1>1. \A p \in Procs, j \in Jobs : ~Has(p, j)
  BY JobAssumption DEF Init, Has
<1>2. Hands = [j \in Jobs |-> {}]
  BY <1>1 DEF Hands
<1>3. Returned = {}
  BY DEF Init, Returned
<1> QED
  BY <1>2, <1>3 DEF Init, Work!WInit

\* A process that has a job is the only one, and the row says so.
LEMMA HandIsOne ==
  ASSUME Always, NEW p \in Procs, NEW j \in Jobs, Has(p, j)
  PROVE  /\ status[j] = "RUNNING" \/ (status[j] = "COMPLETED" /\ task[p][j] = "failed")
         /\ Hands[j] = {p}
  BY DEF Always, SingleRunner, Hands

\* Nobody has a job that waits.
LEMMA WaitingIsFree ==
  ASSUME Always, NEW j \in Jobs, status[j] = "QUEUED"
  PROVE  Hands[j] = {}
  BY DEF Always, SingleRunner, Hands

\* A step that changes nothing of the table and of who has what is a stutter.
LEMMA WorkIdle ==
  ASSUME status' = status, attempts' = attempts, held' = held, task' = task
  PROVE  [Work!WNext]_(Work!wvars)
<1>1. Hands' = Hands
  BY DEF Hands, Has
<1>2. Returned' = Returned
  BY DEF Returned
<1> QED
  BY <1>1, <1>2 DEF Work!wvars

\* What a step of a task does to who has what: the job stays with its process,
\* or leaves it and with it everybody.
LEMMA TaskMoves ==
  ASSUME Always, NEW p \in Procs, NEW j \in Jobs, NEW step \in TaskStep,
         SetTask(p, j, step), held' = held, task[p][j] # "none"
  PROVE  /\ status[j] = "RUNNING" \/ (status[j] = "COMPLETED" /\ task[p][j] = "failed")
         /\ Hands[j] = {p}
         /\ step # "none" => Hands' = Hands
         /\ step = "none" => Hands' = [Hands EXCEPT ![j] = {}]
         /\ step = "ok" => Returned' = Returned \union {j}
         /\ step # "ok" => Returned' = Returned \ {j}
         /\ j \in Returned <=> task[p][j] = "ok"
<1>0. TypeOK /\ SingleRunner
  BY DEF Always
<1>1. /\ task' \in [Procs -> [Jobs -> TaskStep]]
      /\ \A x \in Procs, y \in Jobs :
           task'[x][y] = IF x = p /\ y = j THEN step ELSE task[x][y]
  BY <1>0, TaskSet
<1>2. Has(p, j)
  BY DEF Has
<1>3. /\ status[j] = "RUNNING" \/ (status[j] = "COMPLETED" /\ task[p][j] = "failed")
      /\ Hands[j] = {p}
  BY <1>2, HandIsOne
<1>4. \A x \in Procs : x # p => ~Has(x, j)
  BY <1>0, <1>2 DEF SingleRunner
<1>5. \A y \in Pools : held[p][y] # j
  BY <1>0 DEF SingleRunner
<1>6. \A x \in Procs, k \in Jobs : ~(x = p /\ k = j) => (Has(x, k)' <=> Has(x, k))
  BY <1>1 DEF Has
<1>7. Has(p, j)' <=> step # "none"
  BY <1>1, <1>5 DEF Has
<1>8. ASSUME step # "none" PROVE Hands' = Hands
  <2>1. \A x \in Procs, k \in Jobs : Has(x, k)' <=> Has(x, k)
    BY <1>2, <1>6, <1>7, <1>8
  <2> QED
    BY <2>1 DEF Hands
<1>9. ASSUME step = "none" PROVE Hands' = [Hands EXCEPT ![j] = {}]
  <2>1. \A x \in Procs : ~Has(x, j)'
    BY <1>4, <1>6, <1>7, <1>9
  <2>2. \A x \in Procs, k \in Jobs \ {j} : Has(x, k)' <=> Has(x, k)
    BY <1>6
  <2> QED
    BY <2>1, <2>2 DEF Hands
<1>10. \A x \in Procs : x # p => task[x][j] # "ok"
  BY <1>4 DEF Has
<1>11. step = "ok" => Returned' = Returned \union {j}
  BY <1>1 DEF Returned
<1>12. step # "ok" => Returned' = Returned \ {j}
  BY <1>1, <1>10 DEF Returned
<1>13. j \in Returned <=> task[p][j] = "ok"
  BY <1>10 DEF Returned
<1> QED
  BY <1>3, <1>8, <1>9, <1>11, <1>12, <1>13

\* Every step is one of WorkOnce, or changes nothing WorkOnce sees.
LEMMA WorkStep ==
  ASSUME Always, [Next]_vars
  PROVE  [Work!WNext]_(Work!wvars)
<1>0. TypeOK /\ HeldBySpawner /\ SingleRunner /\ AttemptBudget
  BY DEF Always
<1> USE <1>0, JobAssumption
<1>1. ASSUME NEW j \in Jobs, Enqueue(j) PROVE [Work!WNext]_(Work!wvars)
  <2>1. Hands' = Hands /\ Returned' = Returned
    BY <1>1 DEF Enqueue, Hands, Has, Returned
  <2>2. (\A p \in Procs : ~Has(p, j)) => Hands[j] = {}
    BY DEF Hands
  <2>3. Work!WSubmit(j)
    BY <1>1, <2>1, <2>2 DEF Enqueue, Ended, Work!WSubmit
  <2> QED
    BY <2>3 DEF Work!WNext
<1>2. ASSUME NEW p \in Procs, NEW q \in Pools, Claim(p, q)
      PROVE  [Work!WNext]_(Work!wvars)
  <2>1. PICK j \in Jobs :
          /\ status[j] = "QUEUED"
          /\ status' = [status EXCEPT ![j] = "RUNNING"]
          /\ attempts' = [attempts EXCEPT ![j] = @ + 1]
          /\ SetHeld(p, q, j)
    BY <1>2 DEF Claim, ClaimFrom, Foremost, Take, TypeOK, SetHeld
  <2>2. \A x \in Procs, y \in Pools :
          held'[x][y] = IF x = p /\ y = q THEN j ELSE held[x][y]
    BY <2>1, HeldSet
  <2>3. task' = task /\ loop[p][q] = "claiming"
    BY <1>2 DEF Claim, ClaimFrom
  <2>4. held[p][q] \notin Jobs
    BY <2>3 DEF HeldBySpawner
  <2>5. \A x \in Procs, k \in Jobs : Has(x, k)' <=> (Has(x, k) \/ (x = p /\ k = j))
    BY <2>2, <2>3, <2>4 DEF Has
  <2>6. Hands[j] = {} /\ attempts[j] < MaxAttempts
    BY <2>1, WaitingIsFree DEF AttemptBudget
  <2>7. Hands' = [Hands EXCEPT ![j] = {p}]
    <3>1. \A x \in Procs : ~Has(x, j)
      BY <2>6 DEF Hands
    <3>2. {x \in Procs : Has(x, j)'} = {p}
      BY <2>5, <3>1
    <3>3. \A k \in Jobs \ {j} : {x \in Procs : Has(x, k)'} = {x \in Procs : Has(x, k)}
      BY <2>5
    <3>4. \A k \in Jobs : Hands'[k] = IF k = j THEN {p} ELSE Hands[k]
      BY <3>2, <3>3 DEF Hands
    <3>5. /\ Hands = [k \in Jobs |-> Hands[k]]
          /\ Hands' = [k \in Jobs |-> Hands'[k]]
      BY DEF Hands
    <3> QED
      BY <3>4, <3>5
  <2>8. Returned' = Returned
    BY <2>3 DEF Returned
  <2>9. Work!WTake(j, {p})
    BY <2>1, <2>6, <2>7, <2>8 DEF Work!WTake
  <2> QED
    BY <2>9 DEF Work!WNext
<1>3. ASSUME NEW p \in Procs, NEW q \in Pools, ClaimForNobody(p, q) \/ ClaimError(p, q)
      PROVE  [Work!WNext]_(Work!wvars)
  <2>1. held' = held /\ task' = task
    BY <1>3 DEF ClaimForNobody, ClaimError
  <2>2. CASE status' = status /\ attempts' = attempts
    BY <2>1, <2>2, WorkIdle
  <2>3. ASSUME NEW j \in Jobs, status[j] = "QUEUED",
               status' = [status EXCEPT ![j] = "RUNNING"],
               attempts' = [attempts EXCEPT ![j] = @ + 1]
        PROVE  [Work!WNext]_(Work!wvars)
    <3>1. Hands[j] = {} /\ attempts[j] < MaxAttempts
      BY <2>3, WaitingIsFree DEF AttemptBudget
    <3>2. Hands' = Hands /\ Returned' = Returned
      BY <2>1 DEF Hands, Has, Returned
    <3>3. Hands' = [Hands EXCEPT ![j] = {}]
      BY <3>1, <3>2 DEF Hands
    <3>4. Work!WTake(j, {})
      BY <2>3, <3>1, <3>2, <3>3 DEF Work!WTake
    <3> QED
      BY <3>4 DEF Work!WNext
  <2>4. \/ \E j \in Jobs : /\ status[j] = "QUEUED"
                           /\ status' = [status EXCEPT ![j] = "RUNNING"]
                           /\ attempts' = [attempts EXCEPT ![j] = @ + 1]
        \/ status' = status /\ attempts' = attempts
    BY <1>3 DEF ClaimForNobody, ClaimError, Foremost, Runnable, Waiting, Take, tableVars,
                TypeOK
  <2> QED
    BY <2>2, <2>3, <2>4
<1>4. ASSUME NEW p \in Procs, NEW q \in Pools, Spawn(p, q)
      PROVE  [Work!WNext]_(Work!wvars)
  <2>j. PICK j \in Jobs : j = held[p][q]
    BY <1>4 DEF Spawn, HeldBySpawner
  <2>0. SetHeld(p, q, NoJob) /\ SetTask(p, j, "started")
    BY <1>4, <2>j DEF Spawn, SetHeld, SetTask
  <2>1. j \in Jobs /\ status' = status /\ attempts' = attempts
    BY <1>4 DEF Spawn, tableVars
  <2>2. \A x \in Procs, y \in Pools :
          held'[x][y] = IF x = p /\ y = q THEN NoJob ELSE held[x][y]
    BY <2>0, HeldSet
  <2>3. \A x \in Procs, y \in Jobs :
          task'[x][y] = IF x = p /\ y = j THEN "started" ELSE task[x][y]
    BY <2>0, <2>1, TaskSet DEF TaskStep
  <2>4. Has(p, j) /\ task[p][j] = "none"
    BY <2>j DEF Has, SingleRunner
  <2>6. \A x \in Procs, k \in Jobs : Has(x, k)' <=> Has(x, k)
    <3>1. Has(p, j)'
      BY <2>1, <2>3 DEF Has
    <3>2. ASSUME NEW x \in Procs, NEW k \in Jobs, ~(x = p /\ k = j)
          PROVE  Has(x, k)' <=> Has(x, k)
      <4>1. task'[x][k] = task[x][k]
        BY <2>3, <3>2
      <4>2. ASSUME NEW y \in Pools PROVE held'[x][y] = k <=> held[x][y] = k
        BY <2>j, <2>2, <3>2
      <4> QED
        BY <4>1, <4>2 DEF Has
    <3> QED
      BY <2>4, <3>1, <3>2
  <2>7. Hands' = Hands
    BY <2>6 DEF Hands
  <2>8. Returned' = Returned
    BY <2>3, <2>4 DEF Returned
  <2> QED
    BY <2>1, <2>7, <2>8 DEF Work!wvars
<1>5. ASSUME NEW p \in Procs, NEW j \in Jobs, NEW step \in TaskStep,
             SetTask(p, j, step), UNCHANGED <<status, attempts, held>>,
             task[p][j] # "none"
      PROVE  [Work!WNext]_(Work!wvars)
  <2>1. /\ Hands[j] = {p}
        /\ step # "none" => Hands' = Hands
        /\ step = "none" => Hands' = [Hands EXCEPT ![j] = {}]
        /\ step = "ok" => Returned' = Returned \union {j}
        /\ step # "ok" => Returned' = Returned \ {j}
    BY <1>5, TaskMoves
  <2>2. CASE step = "ok"
    <3>1. CASE j \in Returned
      <4>1. Returned \union {j} = Returned
        BY <3>1
      <4>2. Hands' = Hands /\ Returned' = Returned
        BY <2>1, <2>2, <4>1
      <4> QED
        BY <1>5, <4>2 DEF Work!wvars
    <3>2. CASE j \notin Returned
      <4>1. Work!WReturn(j)
        BY <1>5, <2>1, <2>2, <3>2 DEF Work!WReturn
      <4> QED
        BY <4>1 DEF Work!WNext
    <3> QED
      BY <3>1, <3>2
  <2>3. CASE step \notin {"ok", "none"}
    <3>1. CASE j \notin Returned
      <4>1. Hands' = Hands /\ Returned' = Returned
        BY <2>1, <2>3, <3>1
      <4> QED
        BY <1>5, <4>1 DEF Work!wvars
    <3>2. CASE j \in Returned
      <4>1. Work!WForget(j)
        BY <1>5, <2>1, <2>3, <3>2 DEF Work!WForget
      <4> QED
        BY <4>1 DEF Work!WNext
    <3> QED
      BY <3>1, <3>2
  <2>4. CASE step = "none"
    <3>1. Hands' = [k \in Jobs |-> IF k \in {j} THEN Hands[k] \ {p} ELSE Hands[k]]
      BY <2>1, <2>4 DEF Hands
    <3>2. Work!WLose(p, {j})
      BY <1>5, <2>1, <2>4, <3>1 DEF Work!WLose
    <3> QED
      BY <3>2 DEF Work!WNext
  <2> QED
    BY <2>2, <2>3, <2>4
<1>6. ASSUME NEW p \in Procs, NEW j \in Jobs,
             \/ TaskStart(p, j) \/ Acquire(p, j) \/ Handler(p, j)
             \/ CompleteError(p, j) \/ FailError(p, j)
      PROVE  [Work!WNext]_(Work!wvars)
  <2>1. \E step \in TaskStep : SetTask(p, j, step)
    BY <1>6 DEF TaskStart, Acquire, Handler, CompleteError, FailError, TaskStep
  <2>2. task[p][j] # "none" /\ UNCHANGED <<attempts, held>>
    BY <1>6 DEF TaskStart, Acquire, Handler, CompleteError, FailError, tableVars
  <2>3. CASE status' = status
    BY <1>5, <2>1, <2>2, <2>3
  <2>4. CASE CompleteError(p, j) /\ status' = [status EXCEPT ![j] = "COMPLETED"]
    <3>1. SetTask(p, j, "failed") /\ task[p][j] = "ok"
      BY <2>4 DEF CompleteError
    <3>2. /\ status[j] = "RUNNING" /\ j \in Returned
          /\ Hands' = Hands /\ Returned' = Returned \ {j}
      BY <2>2, <3>1, TaskMoves DEF TaskStep
    <3>3. Work!WCompleteUnheard(j)
      BY <2>2, <2>4, <3>2 DEF Work!WCompleteUnheard
    <3> QED
      BY <3>3 DEF Work!WNext
  <2> QED
    BY <1>6, <2>3, <2>4
       DEF TaskStart, Acquire, Handler, CompleteError, FailError, tableVars
<1>7. ASSUME NEW p \in Procs, NEW j \in Jobs, Complete(p, j)
      PROVE  [Work!WNext]_(Work!wvars)
  <2>1. /\ SetTask(p, j, "none") /\ held' = held /\ attempts' = attempts
        /\ task[p][j] = "ok" /\ status' = [status EXCEPT ![j] = "COMPLETED"]
    BY <1>7 DEF Complete
  <2>2. /\ status[j] = "RUNNING" /\ Hands[j] = {p} /\ j \in Returned
        /\ Hands' = [Hands EXCEPT ![j] = {}]
        /\ Returned' = Returned \ {j}
    BY <2>1, TaskMoves DEF TaskStep
  <2>3. Work!WComplete(j)
    BY <2>1, <2>2 DEF Work!WComplete
  <2> QED
    BY <2>3 DEF Work!WNext
<1>8. ASSUME NEW p \in Procs, NEW j \in Jobs, Fail(p, j)
      PROVE  [Work!WNext]_(Work!wvars)
  <2>1. /\ SetTask(p, j, "none") /\ held' = held /\ attempts' = attempts
        /\ task[p][j] = "failed"
        /\ status' = [status EXCEPT ![j] = IF attempts[j] >= MaxAttempts
                                           THEN "DEAD_LETTER" ELSE "QUEUED"]
    BY <1>8 DEF Fail, FailAfter
  <2>2. /\ status[j] \in {"RUNNING", "COMPLETED"} /\ Hands[j] = {p} /\ j \notin Returned
        /\ Hands' = [Hands EXCEPT ![j] = {}]
        /\ Returned' = Returned \ {j}
    BY <2>1, TaskMoves DEF TaskStep
  <2>3. attempts[j] >= MaxAttempts <=> attempts[j] = MaxAttempts
    BY <2>2 DEF AttemptBudget
  <2>4. Returned' = Returned
    BY <2>2
  <2>5. Work!WFail(j)
    BY <2>1, <2>2, <2>3, <2>4 DEF Work!WFail
  <2> QED
    BY <2>5 DEF Work!WNext
<1>9. ASSUME NEW p \in Procs, Stop(p) PROVE [Work!WNext]_(Work!wvars)
  <2> DEFINE S == {j \in Jobs : Has(p, j) /\ task[p][j] = "none"}
  <2>1. \A x \in Procs, y \in Pools : held'[x][y] = IF x = p THEN NoJob ELSE held[x][y]
    BY <1>9, SetRow DEF Stop, TypeOK
  <2>2. UNCHANGED <<status, attempts, task>>
    BY <1>9 DEF Stop, tableVars
  <2>3. \A x \in Procs, k \in Jobs : Has(x, k)' <=> (Has(x, k) /\ ~(x = p /\ k \in S))
    BY <2>1, <2>2 DEF Has
  <2>4. Hands' = [k \in Jobs |-> IF k \in S THEN Hands[k] \ {p} ELSE Hands[k]]
    BY <2>3 DEF Hands
  <2>5. Returned' = Returned \ S
    <3>1. \A k \in S, x \in Procs : task[x][k] # "ok"
      BY DEF Has, SingleRunner
    <3> QED
      BY <2>2, <3>1 DEF Returned
  <2>6. \A k \in S : p \in Hands[k]
    BY DEF Hands
  <2> HIDE DEF S
  <2>7. Work!WLose(p, S)
    BY <2>2, <2>4, <2>5, <2>6 DEF Work!WLose
  <2> QED
    BY <2>7 DEF Work!WNext, S
<1>10. ASSUME NEW p \in Procs, Exit(p) PROVE [Work!WNext]_(Work!wvars)
  <2> DEFINE S == {j \in Jobs : Has(p, j)}
  <2>1. \A x \in Procs, y \in Pools : held'[x][y] = IF x = p THEN NoJob ELSE held[x][y]
    BY <1>10, SetRow DEF Exit, TypeOK
  <2>2. \A x \in Procs, y \in Jobs : task'[x][y] = IF x = p THEN "none" ELSE task[x][y]
    BY <1>10, SetRow DEF Exit, TaskStep, TypeOK
  <2>3. UNCHANGED <<status, attempts>>
    BY <1>10 DEF Exit, tableVars
  <2>4. \A x \in Procs, k \in Jobs : Has(x, k)' <=> (Has(x, k) /\ x # p)
    BY <2>1, <2>2 DEF Has
  <2>5. Hands' = [k \in Jobs |-> IF k \in S THEN Hands[k] \ {p} ELSE Hands[k]]
    BY <2>4 DEF Hands
  <2>6. Returned' = Returned \ S
    <3>1. \A k \in S, x \in Procs : x # p => task[x][k] # "ok"
      BY DEF Has, SingleRunner
    <3>2. \A k \in Jobs \ S : task[p][k] # "ok"
      BY DEF Has
    <3> QED
      BY <2>2, <3>1, <3>2 DEF Returned
  <2>7. \A k \in S : p \in Hands[k]
    BY DEF Hands
  <2> HIDE DEF S
  <2>8. Work!WLose(p, S)
    BY <2>3, <2>5, <2>6, <2>7 DEF Work!WLose
  <2> QED
    BY <2>8 DEF Work!WNext, S
<1>11. ASSUME NEW j \in Jobs, BackoffOver(j) PROVE [Work!WNext]_(Work!wvars)
  BY <1>11, WorkIdle DEF BackoffOver
<1>12. ASSUME NEW p \in Procs, Start(p) PROVE [Work!WNext]_(Work!wvars)
  BY <1>12, WorkIdle DEF Start, tableVars
<1>13. ASSUME NEW p \in Procs, NEW q \in Pools,
              Top(p, q) \/ ClaimEmpty(p, q) \/ Wake(p, q)
       PROVE  [Work!WNext]_(Work!wvars)
  BY <1>13, WorkIdle DEF Top, ClaimEmpty, Wake, tableVars
<1>14. CASE UNCHANGED vars
  BY <1>14, WorkIdle DEF vars, tableVars
<1> QED
  BY <1>1, <1>2, <1>3, <1>4, <1>6, <1>7, <1>8, <1>9, <1>10, <1>11, <1>12, <1>13, <1>14
     DEF Next, Loop, Task, Trouble

\* One worker at a time, at most max_attempts times, ended only by the worker
\* that has it, and for good once it has let go: the queue implements WorkOnce, for any number of
\* processes, pools and jobs, with exits and failing statements.
THEOREM Implements == Spec => WorksOnce
<1>1. Always /\ [Next]_vars => [Work!WNext]_(Work!wvars)
  BY WorkStep
<1> QED
  BY <1>1, WorkInit, AlwaysHolds, PTL DEF Spec, WorksOnce, Work!WSpec

=============================================================================
