---------------------------- MODULE IntentEvents ----------------------------
(* From an intent event to a lead's priority: ingestion and its job, the       *)
(* recurring schedule that asks for the same work (agents/scheduler.py), and   *)
(* the processor that claims events and evaluates their leads anew             *)
(* (services/intent_engine.py), with the hiring signals it reads               *)
(* (services/hiring_signals.py).  Of module JobQueue only what callers rely on *)
(* is left here: a key makes one job, and a worker takes each job once.        *)
EXTENDS Naturals, FiniteSets

CONSTANTS Events, EventLead,    \* intent_events, and the lead each is about
          Signals, SignalLead,  \* hiring_signals, and the lead of their company
          Slots,                \* values of next_run
          SchedTickers, Processors,
          BatchLimit,           \* events claimed at once
          NoSlot, NoJob,
          QueueFails,           \* enqueue may raise
          TickerDies,           \* a tick may die before it commits
          PromptTicks           \* a tick has ended when the next time comes

Keys == Events \union Slots     \* idempotency keys of gtm_intent_process jobs
IntentLeads == {EventLead[e] : e \in Events} \union {SignalLead[s] : s \in Signals}

ASSUME IntentAssumption ==
  /\ IsFiniteSet(Events) /\ Events \intersect Slots = {}
  /\ BatchLimit \in Nat \ {0}
  /\ {QueueFails, TickerDies, PromptTicks} \subseteq BOOLEAN

VARIABLES
  event,    \* "none", "stored", or "processed"; "dropped" is processed as well, by
            \* a run that ended before it evaluated the event's lead (history)
  signal,   \* "none", "active", or "expired"
  nextRun,  \* agent_schedules.next_run
  due,      \* next_run has come
  job,      \* jobs by key: "none", "queued", "running", "completed"
  made,     \* history: INSERTs of a job for the current use of a slot
  sched,    \* tickers: where they are and the slot they read
  proc,     \* the 'ai' pool's loops: where they are, their job, the events they
            \* claimed and did not evaluate yet, the lead and evidence in hand
  counted   \* leads.priority_score, as the evidence it was computed from

intentVars == <<event, signal, nextRun, due, job, made, sched, proc, counted>>

Resting == [at |-> "idle", job |-> NoJob, todo |-> {}, lead |-> {}, seen |-> {}]

IntentInit ==
  /\ event = [e \in Events |-> "none"]
  /\ signal = [s \in Signals |-> "none"]
  /\ nextRun \in Slots /\ due = TRUE
  /\ job = [k \in Keys |-> "none"]
  /\ made = [s \in Slots |-> 0]
  /\ sched = [t \in SchedTickers |-> [at |-> "idle", slot |-> NoSlot]]
  /\ proc = [p \in Processors |-> Resting]
  /\ counted = [l \in IntentLeads |-> {}]

-----------------------------------------------------------------------------
\* job_queue.enqueue with an idempotency key.
EnqueueKey(k) ==
  IF job[k] = "none"
    THEN /\ job' = [job EXCEPT ![k] = "queued"]
         /\ made' = IF k \in Slots THEN [made EXCEPT ![k] = @ + 1] ELSE made
    ELSE UNCHANGED <<job, made>>

\* ingest_event: the row, then the job; an error of the queue is swallowed.
Ingest(e) ==
  /\ event[e] = "none"
  /\ event' = [event EXCEPT ![e] = "stored"]
  /\ \/ EnqueueKey(e)
     \/ QueueFails /\ UNCHANGED <<job, made>>
  /\ UNCHANGED <<signal, nextRun, due, sched, proc, counted>>

\* upsert_hiring_signal: a posting found again makes an expired signal active.
\* It stores no event: leads are not evaluated for it.
Discover(s) ==
  /\ signal[s] # "active"
  /\ signal' = [signal EXCEPT ![s] = "active"]
  /\ UNCHANGED <<event, nextRun, due, job, made, sched, proc, counted>>

\* apply_expiry, which the scoring job of any signal of the workspace runs.
Expire(S) ==
  /\ S # {} /\ \A s \in S : signal[s] = "active"
  /\ signal' = [s \in Signals |-> IF s \in S THEN "expired" ELSE signal[s]]
  /\ UNCHANGED <<event, nextRun, due, job, made, sched, proc, counted>>

-----------------------------------------------------------------------------
(* The schedule                                                             *)

\* A tick takes well under the interval of its schedule (15 minutes), unless a
\* connection hangs for as long.
ComesDue ==
  /\ ~due /\ due' = TRUE
  /\ PromptTicks => \A t \in SchedTickers : sched[t].at = "idle"
  /\ UNCHANGED <<event, signal, nextRun, job, made, sched, proc, counted>>

TickRead(t) ==
  /\ sched[t].at = "idle" /\ due
  /\ sched' = [sched EXCEPT ![t] = [at |-> "read", slot |-> nextRun]]
  /\ UNCHANGED <<event, signal, nextRun, due, job, made, proc, counted>>

\* enqueue commits on a connection of its own.
TickEnqueue(t) ==
  /\ sched[t].at = "read"
  /\ EnqueueKey(sched[t].slot)
  /\ sched' = [sched EXCEPT ![t].at = "enqueued"]
  /\ UNCHANGED <<event, signal, nextRun, due, proc, counted>>

\* Variant: the schedule moves on although the queue failed.
TickFailsOn(t) ==
  /\ QueueFails /\ sched[t].at = "read"
  /\ sched' = [sched EXCEPT ![t] = [at |-> "idle", slot |-> NoSlot]]
  /\ nextRun' \in {s \in Slots : s # nextRun /\ made[s] = 0} /\ due' = FALSE
  /\ UNCHANGED <<event, signal, job, made, proc, counted>>

\* next_run is left alone when the queue fails, and the slot is tried again.
TickFails(t) ==
  /\ QueueFails /\ sched[t].at = "read"
  /\ sched' = [sched EXCEPT ![t] = [at |-> "idle", slot |-> NoSlot]]
  /\ UNCHANGED <<event, signal, nextRun, due, job, made, proc, counted>>

TickDies(t) ==
  /\ TickerDies /\ sched[t].at # "idle"
  /\ sched' = [sched EXCEPT ![t] = [at |-> "idle", slot |-> NoSlot]]
  /\ UNCHANGED <<event, signal, nextRun, due, job, made, proc, counted>>

\* A time never used before: in the model, a slot nobody uses any more, the job of
\* a loop that died, which stays running for ever, among them.
Fresh(s) ==
  /\ s # nextRun /\ job[s] # "queued"
  /\ \A p \in Processors : proc[p].job # s
  /\ \A t \in SchedTickers : sched[t].slot # s

\* next_run := now + the interval, by id only.
TickCommit(t, s) ==
  /\ sched[t].at = "enqueued" /\ Fresh(s)
  /\ nextRun' = s /\ due' = FALSE
  /\ job' = [job EXCEPT ![s] = "none"] /\ made' = [made EXCEPT ![s] = 0]
  /\ sched' = [sched EXCEPT ![t] = [at |-> "idle", slot |-> NoSlot]]
  /\ UNCHANGED <<event, signal, proc, counted>>

-----------------------------------------------------------------------------
(* The processor                                                            *)

Alive(p) == proc[p].at \in {"idle", "claim", "eval"}

TakeJob(p, k) ==
  /\ proc[p].at = "idle" /\ job[k] = "queued"
  /\ job' = [job EXCEPT ![k] = "running"]
  /\ proc' = [proc EXCEPT ![p] = [Resting EXCEPT !.at = "claim", !.job = k]]
  /\ UNCHANGED <<event, signal, nextRun, due, made, sched, counted>>

Pending == {e \in Events : event[e] = "stored"}

\* process_pending_events: up to a batch of events is marked processed, in a
\* transaction of its own, before any of them has been evaluated.
ClaimEvents(p, E) ==
  /\ proc[p].at = "claim"
  /\ E \subseteq Pending
  /\ Cardinality(E) = IF Cardinality(Pending) < BatchLimit THEN Cardinality(Pending)
                                                          ELSE BatchLimit
  /\ event' = [e \in Events |-> IF e \in E THEN "processed" ELSE event[e]]
  /\ proc' = [proc EXCEPT ![p].at = "eval", ![p].todo = E]
  /\ UNCHANGED <<signal, nextRun, due, job, made, sched, counted>>

\* Variant: only what has not been processed yet counts.
EvidencePending(l) ==
  {e \in Events : EventLead[e] = l /\ event[e] = "stored"}
    \union {s \in Signals : SignalLead[s] = l /\ signal[s] = "active"}

\* The events of the last 30 days, processed or not, and the active signals.
Evidence(l) ==
  {e \in Events : EventLead[e] = l /\ event[e] # "none"}
    \union {s \in Signals : SignalLead[s] = l /\ signal[s] = "active"}

\* reevaluate_lead reads the evidence ...
EvalRead(p, l) ==
  /\ proc[p].at = "eval" /\ proc[p].lead = {}
  /\ \E e \in proc[p].todo : EventLead[e] = l
  /\ proc' = [proc EXCEPT ![p].lead = {l}, ![p].seen = Evidence(l)]
  /\ UNCHANGED <<event, signal, nextRun, due, job, made, sched, counted>>

\* ... and writes the score in another transaction, by id only.
EvalWrite(p) ==
  /\ proc[p].lead # {}
  /\ counted' = [l \in IntentLeads |-> IF l \in proc[p].lead THEN proc[p].seen ELSE counted[l]]
  /\ proc' = [proc EXCEPT ![p].todo = {e \in @ : EventLead[e] \notin proc[p].lead},
                          ![p].lead = {}, ![p].seen = {}]
  /\ UNCHANGED <<event, signal, nextRun, due, job, made, sched>>

\* A run that ends leaves the events it claimed as they are: processed.
LeavesBehind(p) ==
  event' = [e \in Events |-> IF e \in proc[p].todo THEN "dropped" ELSE event[e]]

\* The claim fails, or anything but a ValueError is raised later: the handler
\* returns it as the job's result, and the job is completed.
EvalRaises(p) ==
  /\ proc[p].at \in {"claim", "eval"}
  /\ job' = [job EXCEPT ![proc[p].job] = "completed"]
  /\ LeavesBehind(p)
  /\ proc' = [proc EXCEPT ![p] = Resting]
  /\ UNCHANGED <<signal, nextRun, due, made, sched, counted>>

EndJob(p) ==
  /\ proc[p].at = "eval" /\ proc[p].todo = {}
  /\ job' = [job EXCEPT ![proc[p].job] = "completed"]
  /\ proc' = [proc EXCEPT ![p] = Resting]
  /\ UNCHANGED <<event, signal, nextRun, due, made, sched, counted>>

\* The process dies or is stopped, or the claim of a job raises.  Nothing takes up
\* a job that was running.
Dies(p) ==
  /\ Alive(p)
  /\ LeavesBehind(p)
  /\ proc' = [proc EXCEPT ![p] = [Resting EXCEPT !.at = "dead"]]
  /\ UNCHANGED <<signal, nextRun, due, job, made, sched, counted>>

\* A loop with nothing to do ends (module JobQueue), unless others of its tasks
\* are still running.
LoopEnds(p) ==
  /\ proc[p].at = "idle" /\ \A k \in Keys : job[k] # "queued"
  /\ proc' = [proc EXCEPT ![p].at = "ended"]
  /\ UNCHANGED <<event, signal, nextRun, due, job, made, sched, counted>>

\* The process is started again.
Starts(p) ==
  /\ ~Alive(p)
  /\ proc' = [proc EXCEPT ![p] = Resting]
  /\ UNCHANGED <<event, signal, nextRun, due, job, made, sched, counted>>

-----------------------------------------------------------------------------
TickerStep(t) ==
  TickRead(t) \/ TickEnqueue(t) \/ \E s \in Slots : TickCommit(t, s)

ProcStep(p) ==
  \/ \E k \in Keys : TakeJob(p, k)
  \/ \E E \in SUBSET Pending : ClaimEvents(p, E)
  \/ \E l \in IntentLeads : EvalRead(p, l)
  \/ EvalWrite(p) \/ EndJob(p)

IntentNext ==
  \/ \E e \in Events : Ingest(e)
  \/ \E s \in Signals : Discover(s)
  \/ \E S \in SUBSET Signals : Expire(S)
  \/ ComesDue
  \/ \E t \in SchedTickers : TickerStep(t) \/ TickFails(t) \/ TickDies(t)
  \/ \E p \in Processors : ProcStep(p) \/ EvalRaises(p) \/ Dies(p) \/ LoopEnds(p) \/ Starts(p)

\* The schedule is polled for ever, and neither the queue nor the claim of events
\* fails every time.  A loop that is alive goes on; nobody has to start one again.
IntentFairness ==
  /\ WF_intentVars(ComesDue)
  /\ \A t \in SchedTickers :
       /\ WF_intentVars(TickRead(t))
       /\ SF_intentVars(TickEnqueue(t))
       /\ SF_intentVars(\E s \in Slots : TickCommit(t, s))
  /\ \A p \in Processors :
       /\ WF_intentVars(ProcStep(p))
       /\ SF_intentVars(\E E \in SUBSET Pending : ClaimEvents(p, E))

IntentSpec == IntentInit /\ [][IntentNext]_intentVars /\ IntentFairness

-----------------------------------------------------------------------------
(* Properties                                                               *)

IntentTypeOK ==
  /\ event \in [Events -> {"none", "stored", "processed", "dropped"}]
  /\ signal \in [Signals -> {"none", "active", "expired"}]
  /\ nextRun \in Slots /\ due \in BOOLEAN
  /\ job \in [Keys -> {"none", "queued", "running", "completed"}]
  /\ made \in [Slots -> Nat]
  /\ sched \in [SchedTickers -> [at : {"idle", "read", "enqueued"}, slot : Slots \union {NoSlot}]]
  /\ \A p \in Processors : /\ proc[p].at \in {"idle", "claim", "eval", "ended", "dead"}
                           /\ proc[p].job \in Keys \union {NoJob}
                           /\ proc[p].todo \subseteq Events
  /\ \A l \in IntentLeads : counted[l] \subseteq Events \union Signals

\* However many ticks overlap, hang and die, a due time of the schedule makes one
\* job at most: enqueue commits before next_run moves, and only the key stands
\* between a second tick and a second job.  (ServesEveryTime says more, of ticks
\* that do not hang.)
OneJobPerSlot == \A s \in Slots : made[s] <= 1

\* The promise of the schedule, stated in DueOnce: the time that has come waits
\* until its job is made.
Schedules == INSTANCE DueOnce WITH
  Times   <- Slots,
  time    <- nextRun,
  waiting <- due /\ made[nextRun] = 0,
  jobs    <- made

\* Every step of ticks that overlap, fail or die in between makes the one job of
\* the time that has come, moves on after it was made, or changes nothing of the
\* schedule.  Not without PromptTicks: a tick that commits after a later time
\* has come due writes next_run by id, and that time never gets its job.
ServesEveryTime == Schedules!DSpec

\* An event that is stored comes to count in its lead's score, even when its own
\* job could not be queued, for the recurring job finds it; unless the run that
\* claimed it ended first, for events are marked processed before they are
\* evaluated.  That is all a loop gives that has a process to run in: not when
\* the loops have ended, idle, and nobody starts them again, nor when they die
\* again and again.  A score may be overtaken later by one from older evidence.
EventsCount ==
  \/ \A e \in Events :
       event[e] = "stored" ~> e \in counted[EventLead[e]] \/ event[e] = "dropped"
  \/ <>[](\A p \in Processors : ~Alive(p))
  \/ []<>(\E p \in Processors : proc[p].at = "dead")

=============================================================================
