------------------------------ MODULE JobQueue ------------------------------
(***************************************************************************)
(* The durable job queue and its workers: services/job_queue.py.  The rows *)
(* of table jobs are shared by the API processes (uvicorn --workers 2);    *)
(* each process runs one supervisor, that is one asyncio loop per pool     *)
(* which claims jobs in a thread and starts a task for each.               *)
(*                                                                         *)
(* A database transaction is one step, and so is what a coroutine does     *)
(* from one await to the next.                                             *)
(***************************************************************************)
EXTENDS Naturals, FiniteSets

CONSTANTS
  Jobs,          \* jobs that may be enqueued, one idempotency key each
  Procs,         \* API processes
  Pools,         \* worker pools
  PoolOf,        \* jobs.pool
  Priority,      \* jobs.priority, 0 is the most urgent
  Handled,       \* jobs with a registered handler
  Providers,     \* providers with a concurrency limit
  ProviderOf,    \* jobs.provider, or NoProvider
  NoProvider,
  Concurrency,   \* tasks per pool in one process
  ProviderLimit, \* running handlers per provider in one process
  MaxAttempts,   \* jobs.max_attempts
  Recurring,     \* jobs enqueued again, under a new key, when they have ended
  NoJob,         \* "no job claimed"
  Exits,         \* TRUE: processes may shut down or die, and start again
  DbErrors       \* TRUE: a statement of the queue may fail

ASSUME JobAssumption ==
  /\ PoolOf \in [Jobs -> Pools]
  /\ Priority \in [Jobs -> 0 .. 5]
  /\ Handled \subseteq Jobs
  /\ ProviderOf \in [Jobs -> Providers \union {NoProvider}]
  /\ NoProvider \notin Providers
  /\ Recurring \subseteq Jobs
  /\ NoJob \notin Jobs
  /\ Concurrency \in [Pools -> Nat \ {0}]
  /\ ProviderLimit \in [Providers -> Nat \ {0}]
  /\ MaxAttempts \in Nat \ {0}
  /\ {Exits, DbErrors} \subseteq BOOLEAN

VARIABLES
  status,    \* jobs.status; "ABSENT" before the row exists
  attempts,  \* jobs.attempts
  due,       \* jobs whose run_at has come
  ahead,     \* pairs of due, waiting jobs, the first with the earlier run_at
  loop,      \* per process and pool: where _pool_loop is
  held,      \* per process and pool: claimed, its task not created yet
  task       \* per process and job: where _run_job is

tableVars == <<status, attempts, due, ahead>>
vars == <<status, attempts, due, ahead, loop, held, task>>

JobStatus == {"ABSENT", "QUEUED", "RUNNING", "COMPLETED", "DEAD_LETTER"}

\* "dead" is a loop that raised or was stopped, "cancelled" one whose claim
\* thread still runs: nothing starts them again while the process lives.
LoopStep == {"down", "top", "claiming", "spawning", "waiting", "cancelled", "dead"}
TaskStep == {"none", "started", "limited", "running", "ok", "failed"}

Init ==
  /\ status = [j \in Jobs |-> "ABSENT"]
  /\ attempts = [j \in Jobs |-> 0]
  /\ due = {} /\ ahead = {}
  /\ loop = [p \in Procs |-> [q \in Pools |-> "down"]]
  /\ held = [p \in Procs |-> [q \in Pools |-> NoJob]]
  /\ task = [p \in Procs |-> [j \in Jobs |-> "none"]]

-----------------------------------------------------------------------------
(* The table.                                                              *)

\* Process p has job j: claimed by the loop of its pool, or running as a task.
Has(p, j) == task[p][j] # "none" \/ \E q \in Pools : held[p][q] = j

Ended == {"COMPLETED", "DEAD_LETTER"}

Waiting == {j \in due : status[j] = "QUEUED"}

\* The row's run_at has come, later than those of the jobs that wait already.
ComesDue(j) ==
  /\ due' = due \union {j}
  /\ ahead' = ahead \union (Waiting \X {j})

\* A second enqueue with the key returns the row and changes nothing.  When a
\* recurring job has ended, what stood for it stands for the next one.
Enqueue(j) ==
  /\ \/ status[j] = "ABSENT"
     \/ j \in Recurring /\ status[j] \in Ended /\ \A p \in Procs : ~Has(p, j)
  /\ status' = [status EXCEPT ![j] = "QUEUED"]
  /\ attempts' = [attempts EXCEPT ![j] = 0]
  /\ ComesDue(j)
  /\ UNCHANGED <<loop, held, task>>

\* run_at comes for a job that was pushed out by a backoff.
BackoffOver(j) ==
  /\ status[j] = "QUEUED" /\ j \notin due
  /\ ComesDue(j)
  /\ UNCHANGED <<status, attempts, loop, held, task>>

Runnable(q) == {j \in Waiting : PoolOf[j] = q}

\* Faulty: of equally urgent jobs the one that came last.
Latest(S) ==
  {j \in S : \A k \in S \ {j} :
     Priority[j] < Priority[k] \/ (Priority[j] = Priority[k] /\ <<j, k>> \notin ahead)}

\* ORDER BY priority, run_at.
Foremost(S) ==
  {j \in S : \A k \in S \ {j} :
     Priority[j] < Priority[k] \/ (Priority[j] = Priority[k] /\ <<k, j>> \notin ahead)}

-----------------------------------------------------------------------------
(* _pool_loop.                                                             *)

InFlight(p, q) == {j \in Jobs : PoolOf[j] = q /\ task[p][j] # "none"}

SetLoop(p, q, step) == loop' = [loop EXCEPT ![p][q] = step]

\* WorkerSupervisor.start, for all pools, when the process starts.
Start(p) ==
  /\ \A q \in Pools : loop[p][q] = "down"
  /\ loop' = [loop EXCEPT ![p] = [q \in Pools |-> "top"]]
  /\ UNCHANGED <<tableVars, held, task>>

\* Faulty: the capacity test lets one task too many in.
TopUnbounded(p, q) ==
  /\ loop[p][q] = "top"
  /\ SetLoop(p, q, IF Cardinality(InFlight(p, q)) <= Concurrency[q]
                   THEN "claiming" ELSE "waiting")
  /\ UNCHANGED <<tableVars, held, task>>

\* Claim another job while there is room, else wait for a task.
Top(p, q) ==
  /\ loop[p][q] = "top"
  /\ SetLoop(p, q, IF Cardinality(InFlight(p, q)) < Concurrency[q]
                   THEN "claiming" ELSE "waiting")
  /\ UNCHANGED <<tableVars, held, task>>

\* The claim's effect on the row.
Take(j) ==
  /\ status' = [status EXCEPT ![j] = "RUNNING"]
  /\ attempts' = [attempts EXCEPT ![j] = @ + 1]
  /\ ahead' = {x \in ahead : j \notin {x[1], x[2]}}
  /\ UNCHANGED due

ClaimFrom(p, q, from) ==
  /\ loop[p][q] = "claiming"
  /\ \E j \in Foremost({k \in due : status[k] \in from /\ PoolOf[k] = q}) :
       Take(j) /\ held' = [held EXCEPT ![p][q] = j]
  /\ SetLoop(p, q, "spawning")
  /\ UNCHANGED task

\* Faulty: a running job may be claimed again.
ClaimRunning(p, q) == ClaimFrom(p, q, {"QUEUED", "RUNNING"})

\* claim_next in its thread: UPDATE ... FOR UPDATE SKIP LOCKED, atomic.
Claim(p, q) == ClaimFrom(p, q, {"QUEUED"})

\* Nothing to claim: wait for a task, or, without one, asyncio.wait raises
\* ValueError on the empty set and the loop is over.
ClaimEmpty(p, q) ==
  /\ loop[p][q] = "claiming"
  /\ Runnable(q) = {}
  /\ SetLoop(p, q, IF InFlight(p, q) = {} THEN "dead" ELSE "waiting")
  /\ UNCHANGED <<tableVars, held, task>>

\* The claim fails, or commits and its answer is lost; nobody catches it.
ClaimError(p, q) ==
  /\ DbErrors
  /\ loop[p][q] = "claiming"
  /\ UNCHANGED tableVars \/ \E j \in Foremost(Runnable(q)) : Take(j)
  /\ SetLoop(p, q, "dead")
  /\ UNCHANGED <<held, task>>

Spawn(p, q) ==
  /\ loop[p][q] = "spawning"
  /\ task' = [task EXCEPT ![p][held[p][q]] = "started"]
  /\ held' = [held EXCEPT ![p][q] = NoJob]
  /\ SetLoop(p, q, "top")
  /\ UNCHANGED tableVars

\* asyncio.wait returns, at the latest after poll_interval.
Wake(p, q) ==
  /\ loop[p][q] = "waiting"
  /\ SetLoop(p, q, "top")
  /\ UNCHANGED <<tableVars, held, task>>

-----------------------------------------------------------------------------
(* _run_job.                                                               *)

SetTask(p, j, step) == task' = [task EXCEPT ![p][j] = step]

Running(p, v) == {j \in Jobs : task[p][j] = "running" /\ ProviderOf[j] = v}

TaskStart(p, j) ==
  /\ task[p][j] = "started"
  /\ SetTask(p, j, IF j \notin Handled THEN "failed"
                   ELSE IF ProviderOf[j] \in Providers THEN "limited" ELSE "running")
  /\ UNCHANGED <<tableVars, loop, held>>

\* Faulty: the limit itself is never reached.
AcquireShort(p, j) ==
  /\ task[p][j] = "limited"
  /\ Cardinality(Running(p, ProviderOf[j])) + 1 < ProviderLimit[ProviderOf[j]]
  /\ SetTask(p, j, "running")
  /\ UNCHANGED <<tableVars, loop, held>>

\* The provider's semaphore, one per process.
Acquire(p, j) ==
  /\ task[p][j] = "limited"
  /\ Cardinality(Running(p, ProviderOf[j])) < ProviderLimit[ProviderOf[j]]
  /\ SetTask(p, j, "running")
  /\ UNCHANGED <<tableVars, loop, held>>

\* The handler returns or raises; either way the semaphore is released.
Handler(p, j) ==
  /\ task[p][j] = "running"
  /\ SetTask(p, j, "ok") \/ SetTask(p, j, "failed")
  /\ UNCHANGED <<tableVars, loop, held>>

\* Faulty: a handler that raised counts as done, too.
CompleteWhatever(p, j) ==
  /\ task[p][j] \in {"ok", "failed"}
  /\ status' = [status EXCEPT ![j] = "COMPLETED"]
  /\ SetTask(p, j, "none")
  /\ UNCHANGED <<attempts, due, ahead, loop, held>>

Complete(p, j) ==
  /\ task[p][j] = "ok"
  /\ status' = [status EXCEPT ![j] = "COMPLETED"]
  /\ SetTask(p, j, "none")
  /\ UNCHANGED <<attempts, due, ahead, loop, held>>

\* complete() raises, and the except clause records a failure: whether the UPDATE
\* was lost, or was committed and only the answer was lost.
CompleteError(p, j) ==
  /\ DbErrors
  /\ task[p][j] = "ok"
  /\ UNCHANGED status \/ status' = [status EXCEPT ![j] = "COMPLETED"]
  /\ SetTask(p, j, "failed")
  /\ UNCHANGED <<attempts, due, ahead, loop, held>>

FailAfter(p, j, limit) ==
  /\ task[p][j] = "failed"
  /\ status' = [status EXCEPT ![j] = IF attempts[j] >= limit THEN "DEAD_LETTER"
                                                             ELSE "QUEUED"]
  /\ due' = IF attempts[j] >= limit THEN due ELSE due \ {j}
  /\ SetTask(p, j, "none")
  /\ UNCHANGED <<attempts, ahead, loop, held>>

\* Faulty: one attempt too many.
FailLate(p, j) == FailAfter(p, j, MaxAttempts + 1)

\* Faulty: a retry waits in the status the schema has for it, which no claim
\* looks for.
FailRetrying(p, j) ==
  /\ task[p][j] = "failed"
  /\ status' = [status EXCEPT ![j] = IF attempts[j] >= MaxAttempts
                                     THEN "DEAD_LETTER" ELSE "RETRYING"]
  /\ SetTask(p, j, "none")
  /\ UNCHANGED <<attempts, due, ahead, loop, held>>

\* fail(): by id, whatever the status; dead letter or queued with a backoff.
Fail(p, j) == FailAfter(p, j, MaxAttempts)

\* fail() raises as well: the task ends, the row stays as it is.  (If it was
\* committed and only the answer is lost, the task ends likewise: that is Fail.)
FailError(p, j) ==
  /\ DbErrors
  /\ task[p][j] = "failed"
  /\ SetTask(p, j, "none")
  /\ UNCHANGED <<tableVars, loop, held>>

-----------------------------------------------------------------------------
(* Processes end.                                                          *)

\* WorkerSupervisor.stop cancels the loops, not the tasks.  A claim thread
\* cannot be cancelled; a job that was claimed gets no task.
Stop(p) ==
  /\ Exits
  /\ \E q \in Pools : loop[p][q] \notin {"down", "cancelled", "dead"}
  /\ loop' = [loop EXCEPT ![p] = [q \in Pools |->
                IF loop[p][q] \in {"claiming", "cancelled"} THEN "cancelled" ELSE "dead"]]
  /\ held' = [held EXCEPT ![p] = [q \in Pools |-> NoJob]]
  /\ UNCHANGED <<tableVars, task>>

\* The thread of a cancelled loop claims a job for nobody, or finds none.
ClaimForNobody(p, q) ==
  /\ loop[p][q] = "cancelled"
  /\ \/ \E j \in Foremost(Runnable(q)) : Take(j)
     \/ Runnable(q) = {} /\ UNCHANGED tableVars
  /\ SetLoop(p, q, "dead")
  /\ UNCHANGED <<held, task>>

\* The process is gone, with its tasks; systemd may start it again.
Exit(p) ==
  /\ Exits
  /\ loop' = [loop EXCEPT ![p] = [q \in Pools |-> "down"]]
  /\ held' = [held EXCEPT ![p] = [q \in Pools |-> NoJob]]
  /\ task' = [task EXCEPT ![p] = [j \in Jobs |-> "none"]]
  /\ UNCHANGED tableVars

-----------------------------------------------------------------------------
Loop(p, q) ==
  Top(p, q) \/ Claim(p, q) \/ ClaimEmpty(p, q) \/ Spawn(p, q) \/ Wake(p, q)

Task(p, j) ==
  TaskStart(p, j) \/ Acquire(p, j) \/ Handler(p, j) \/ Complete(p, j) \/ Fail(p, j)

Trouble(p) ==
  \/ \E q \in Pools : ClaimError(p, q) \/ ClaimForNobody(p, q)
  \/ \E j \in Jobs : CompleteError(p, j) \/ FailError(p, j)
  \/ Stop(p) \/ Exit(p)

Next ==
  \/ \E j \in Jobs : Enqueue(j) \/ BackoffOver(j)
  \/ \E p \in Procs :
       \/ Start(p)
       \/ \E q \in Pools : Loop(p, q)
       \/ \E j \in Jobs : Task(p, j)
       \/ Trouble(p)

Spec == Init /\ [][Next]_vars

\* The event loop of a live process runs every coroutine that is ready,
\* handlers return, semaphores are fair, time passes, processes are started.
FairSpec ==
  /\ Spec
  /\ \A p \in Procs :
       /\ WF_vars(Start(p))
       /\ \A q \in Pools : WF_vars(Loop(p, q))
       /\ \A j \in Jobs : WF_vars(Task(p, j)) /\ SF_vars(Acquire(p, j))
  /\ \A j \in Jobs : WF_vars(BackoffOver(j))

-----------------------------------------------------------------------------
(* Properties.                                                             *)

TypeOK ==
  /\ status \in [Jobs -> JobStatus]
  /\ attempts \in [Jobs -> Nat]
  /\ due \subseteq Jobs
  /\ ahead \subseteq Jobs \X Jobs
  /\ loop \in [Procs -> [Pools -> LoopStep]]
  /\ held \in [Procs -> [Pools -> Jobs \union {NoJob}]]
  /\ task \in [Procs -> [Jobs -> TaskStep]]

\* A job is in the hands of one process at most, once, and its row says so, but
\* for the time between a complete() whose answer was lost and the failure its
\* task reports then: the claim is exclusive between processes, and no failure
\* report puts a job back in the queue while another task works on it.
SingleRunner ==
  \A j \in Jobs :
    /\ \A p \in Procs : Has(p, j) =>
         status[j] = "RUNNING" \/ (status[j] = "COMPLETED" /\ task[p][j] = "failed")
    /\ \A p1, p2 \in Procs : Has(p1, j) /\ Has(p2, j) => p1 = p2
    /\ \A p \in Procs, q \in Pools : held[p][q] = j => task[p][j] = "none"

\* A job that waits has attempts left, one that runs or is completed is within
\* its budget and a dead letter has used it up exactly.
AttemptBudget ==
  \A j \in Jobs :
    /\ status[j] = "QUEUED" => attempts[j] < MaxAttempts
    /\ status[j] \in {"RUNNING", "COMPLETED"} => attempts[j] \in 1 .. MaxAttempts
    /\ status[j] = "DEAD_LETTER" => attempts[j] = MaxAttempts

\* The pool's concurrency bounds what a process works on, whatever order its
\* claims and its tasks' ends come in.
PoolCapacity ==
  \A p \in Procs, q \in Pools :
    Cardinality(InFlight(p, q)) + (IF held[p][q] = NoJob THEN 0 ELSE 1)
      <= Concurrency[q]

\* A completed job or a dead letter that no task has any more stays what it is:
\* complete() and fail() are not guarded, so only the single runner protects it.
TerminalIsFinal ==
  [][\A j \in Jobs \ Recurring :
       status[j] \in Ended /\ (\A p \in Procs : ~Has(p, j)) => status'[j] = status[j]]_vars

\* Who has each job, and the jobs whose handler has returned.
Hands == [j \in Jobs |-> {p \in Procs : Has(p, j)}]
Returned == {j \in Jobs : \E p \in Procs : task[p][j] = "ok"}

Work == INSTANCE WorkOnce WITH
  Workers  <- Procs,
  Limit    <- MaxAttempts,
  Repeated <- Recurring,
  state    <- status,
  tries    <- attempts,
  workers  <- Hands,
  returned <- Returned

\* Every step of the loops, the tasks, the stopping and dying processes and
\* the failing statements takes a waiting job that nobody has, ends one for
\* the process that has it, lets go of jobs without a word, or changes nothing
\* a caller of the queue may rely on.
WorksOnce == Work!WSpec

\* Every task ends: nothing it waits for keeps it for ever.
TaskEnds ==
  \A p \in Procs, j \in Jobs : task[p][j] # "none" ~> task[p][j] = "none"

Alive(p, q) == loop[p][q] \in {"top", "claiming", "spawning", "waiting"}

\* From some time on, no more urgent job of the pool is enqueued.
NoRush(j) ==
  \A k \in Jobs : PoolOf[k] = PoolOf[j] /\ Priority[k] < Priority[j] =>
    <>[][~Enqueue(k)]_vars

\* One loop that stays alive is enough for every due job of its pool, unless more
\* urgent jobs are enqueued for ever: full pools, busy providers, jobs that fail
\* and are retried, equally urgent jobs that keep coming do not keep it waiting.
ServedWhileAlive ==
  \A p \in Procs, j \in Jobs :
    NoRush(j) =>
      ((status[j] = "QUEUED" /\ j \in due /\ Alive(p, PoolOf[j])) ~>
         (status[j] # "QUEUED" \/ ~Alive(p, PoolOf[j])))

\* The queue is durable: a job that was enqueued is claimed.
QueuedServed == \A j \in Jobs : status[j] = "QUEUED" ~> status[j] # "QUEUED"

=============================================================================
