--------------------------- MODULE SchedulerProofs ---------------------------
(***************************************************************************)
(* Theorems about the two schedulers: the recurring schedule of module     *)
(* IntentEvents, for any number of ticks, slots, events and processors,    *)
(* and the pauses of module OutboundScheduler, for any number of ticks,    *)
(* messages, mailboxes and operators.                                      *)
(***************************************************************************)
EXTENDS IntentEvents, OutboundScheduler, FiniteSetTheorems, TLAPS

-----------------------------------------------------------------------------
(* The recurring schedule                                                   *)

\* A slot for which a job was inserted has a job.
MadeHasJob == \A s \in Slots : made[s] = 0 \/ (made[s] = 1 /\ job[s] # "none")

\* What a processor may be doing, with a job in hand while it is busy.
Process ==
  [at : {"idle", "claim", "eval", "ended", "dead"}, job : Keys \union {NoJob}, todo : SUBSET Events,
   lead : SUBSET IntentLeads, seen : SUBSET (Events \union Signals)]

Busy(x) == x.at \in {"claim", "eval"}

Occupied(x) == Busy(x) => x.job \in Keys

ProcsOccupied ==
  proc \in [Processors -> Process] /\ \A p \in Processors : Occupied(proc[p])

\* A tick that is under way holds a slot.
TicksHoldSlots == \A t \in SchedTickers : sched[t].at # "idle" => sched[t].slot \in Slots

Schedule == IntentTypeOK /\ MadeHasJob /\ ProcsOccupied /\ TicksHoldSlots

\* What enqueue makes of the jobs: every slot keeps to one job.
LEMMA EnqueueKeeps ==
  ASSUME Schedule, NEW k \in Keys, EnqueueKey(k)
  PROVE  /\ job' \in [Keys -> {"none", "queued", "running", "completed"}]
         /\ made' \in [Slots -> Nat]
         /\ MadeHasJob'
<1> USE DEF Schedule, IntentTypeOK
<1>1. CASE job[k] # "none"
  BY <1>1 DEF EnqueueKey, MadeHasJob
<1>2. CASE job[k] = "none" /\ k \in Slots
  <2>1. job' = [job EXCEPT ![k] = "queued"] /\ made' = [made EXCEPT ![k] = made[k] + 1]
    BY <1>2 DEF EnqueueKey
  <2>2. made[k] = 0
    BY <1>2 DEF MadeHasJob
  <2>3. Slots \subseteq Keys
    BY DEF Keys
  <2> QED
    BY <1>2, <2>1, <2>2, <2>3 DEF MadeHasJob
<1>3. CASE job[k] = "none" /\ k \notin Slots
  <2>1. job' = [job EXCEPT ![k] = "queued"] /\ made' = made
    BY <1>3 DEF EnqueueKey
  <2>2. Slots \subseteq Keys
    BY DEF Keys
  <2> QED
    BY <1>3, <2>1, <2>2 DEF MadeHasJob
<1> QED
  BY <1>1, <1>2, <1>3

\* The steps of a processor, as updates of its record.
Taking(k) == [Resting EXCEPT !.at = "claim", !.job = k]
ToEval(x, todo) == [x EXCEPT !.at = "eval", !.todo = todo]
HasRead(x, l, seen) == [x EXCEPT !.lead = {l}, !.seen = seen]
HasWritten(x, todo) == [x EXCEPT !.todo = todo, !.lead = {}, !.seen = {}]

DeadLoop == [Resting EXCEPT !.at = "dead"]
EndedLoop(y) == [y EXCEPT !.at = "ended"]

LEMMA ProcessUpdates ==
  /\ Resting \in Process /\ Occupied(Resting) /\ ~Busy(Resting)
  /\ DeadLoop \in Process /\ Occupied(DeadLoop) /\ ~Busy(DeadLoop)
  /\ \A y \in Process :
       EndedLoop(y) \in Process /\ Occupied(EndedLoop(y)) /\ ~Busy(EndedLoop(y))
  /\ \A k \in Keys : Taking(k) \in Process /\ Occupied(Taking(k))
  /\ \A x \in Process, todo \in SUBSET Events :
       x.job \in Keys => ToEval(x, todo) \in Process /\ Occupied(ToEval(x, todo))
  /\ \A x \in Process, l \in IntentLeads, seen \in SUBSET (Events \union Signals) :
       Occupied(x) => HasRead(x, l, seen) \in Process /\ Occupied(HasRead(x, l, seen))
  /\ \A x \in Process, todo \in SUBSET Events :
       Occupied(x) => HasWritten(x, todo) \in Process /\ Occupied(HasWritten(x, todo))
<1> USE DEF Busy
<1>1. Resting \in Process /\ Resting.at = "idle"
  BY DEF Resting, Process
<1>6. DeadLoop \in Process /\ Occupied(DeadLoop) /\ ~Busy(DeadLoop)
  BY DEF DeadLoop, Resting, Process, Occupied
<1>7. ASSUME NEW y \in Process
      PROVE  EndedLoop(y) \in Process /\ Occupied(EndedLoop(y)) /\ ~Busy(EndedLoop(y))
  BY DEF EndedLoop, Process, Occupied
<1>2. ASSUME NEW k \in Keys PROVE Taking(k) \in Process /\ Occupied(Taking(k))
  BY <1>1, <1>2 DEF Taking, Process, Occupied
<1>3. ASSUME NEW x \in Process, NEW todo \in SUBSET Events, x.job \in Keys
      PROVE  ToEval(x, todo) \in Process /\ Occupied(ToEval(x, todo))
  BY <1>3 DEF ToEval, Process, Occupied
<1>4. ASSUME NEW x \in Process, NEW l \in IntentLeads, NEW seen \in SUBSET (Events \union Signals),
             Occupied(x)
      PROVE  HasRead(x, l, seen) \in Process /\ Occupied(HasRead(x, l, seen))
  BY <1>4 DEF HasRead, Process, Occupied
<1>5. ASSUME NEW x \in Process, NEW todo \in SUBSET Events, Occupied(x)
      PROVE  HasWritten(x, todo) \in Process /\ Occupied(HasWritten(x, todo))
  BY <1>5 DEF HasWritten, Process, Occupied
<1> QED
  BY <1>1, <1>2, <1>3, <1>4, <1>5, <1>6, <1>7 DEF Occupied

\* A step of a processor leaves the schedule as it should be.
LEMMA ProcKeeps ==
  ASSUME Schedule, NEW p \in Processors, NEW x \in Process, Occupied(x),
         proc' = [proc EXCEPT ![p] = x],
         event' \in [Events -> {"none", "stored", "processed", "dropped"}],
         job' \in [Keys -> {"none", "queued", "running", "completed"}],
         \A s \in Slots : job[s] # "none" => job'[s] # "none",
         \A l \in IntentLeads : counted'[l] \subseteq Events \union Signals,
         UNCHANGED <<signal, nextRun, due, made, sched>>
  PROVE  Schedule'
<1> USE DEF Schedule
<1>1. ProcsOccupied'
  BY DEF ProcsOccupied
<1>2. \A q \in Processors : /\ proc'[q].at \in {"idle", "claim", "eval", "ended", "dead"}
                             /\ proc'[q].job \in Keys \union {NoJob}
                             /\ proc'[q].todo \subseteq Events
  BY <1>1 DEF ProcsOccupied, Process
<1>3. IntentTypeOK'
  BY <1>2 DEF IntentTypeOK
<1> QED
  BY <1>1, <1>3 DEF MadeHasJob, TicksHoldSlots

\* The initial state satisfies the invariant.
LEMMA ScheduleInit == IntentInit => Schedule
<1> SUFFICES ASSUME IntentInit PROVE Schedule
  OBVIOUS
<1>1. ProcsOccupied
  BY ProcessUpdates DEF IntentInit, ProcsOccupied
<1>2. \A q \in Processors : /\ proc[q].at \in {"idle", "claim", "eval", "ended", "dead"}
                             /\ proc[q].job \in Keys \union {NoJob}
                             /\ proc[q].todo \subseteq Events
  BY <1>1 DEF ProcsOccupied, Process
<1>3. \A t \in SchedTickers : sched[t].at = "idle"
  BY DEF IntentInit
<1>4. sched \in [SchedTickers -> [at : {"idle", "read", "enqueued"}, slot : Slots \union {NoSlot}]]
  BY DEF IntentInit
<1>5. IntentTypeOK
  BY <1>2, <1>4 DEF IntentInit, IntentTypeOK
<1> QED
  BY <1>1, <1>3, <1>5 DEF IntentInit, Schedule, MadeHasJob, TicksHoldSlots

\* Every step keeps the invariant.
LEMMA ScheduleStep == Schedule /\ [IntentNext]_intentVars => Schedule'
<1> SUFFICES ASSUME Schedule, [IntentNext]_intentVars PROVE Schedule'
  OBVIOUS
<1> USE DEF Schedule
<1>1. ASSUME NEW e \in Events, Ingest(e) PROVE Schedule'
  <2>1. e \in Keys
    BY DEF Keys
  <2>2. /\ job' \in [Keys -> {"none", "queued", "running", "completed"}]
        /\ made' \in [Slots -> Nat]
        /\ MadeHasJob'
    <3>1. CASE EnqueueKey(e)
      BY <2>1, <3>1, EnqueueKeeps
    <3>2. CASE UNCHANGED <<job, made>>
      BY <3>2 DEF IntentTypeOK, MadeHasJob
    <3> QED
      BY <1>1, <3>1, <3>2 DEF Ingest
  <2>3. event' \in [Events -> {"none", "stored", "processed", "dropped"}]
    BY <1>1 DEF Ingest, IntentTypeOK
  <2>4. UNCHANGED <<signal, nextRun, due, sched, proc, counted>>
    BY <1>1 DEF Ingest
  <2>5. IntentTypeOK'
    BY <2>2, <2>3, <2>4 DEF IntentTypeOK
  <2> QED
    BY <2>2, <2>4, <2>5 DEF ProcsOccupied, TicksHoldSlots
<1>2. ASSUME NEW t \in SchedTickers, TickEnqueue(t) PROVE Schedule'
  <2>1. sched[t].slot \in Keys
    BY <1>2 DEF TickEnqueue, TicksHoldSlots, Keys
  <2>2. /\ job' \in [Keys -> {"none", "queued", "running", "completed"}]
        /\ made' \in [Slots -> Nat]
        /\ MadeHasJob'
    BY <1>2, <2>1, EnqueueKeeps DEF TickEnqueue
  <2>3. /\ sched' \in [SchedTickers -> [at : {"idle", "read", "enqueued"}, slot : Slots \union {NoSlot}]]
        /\ TicksHoldSlots'
    <3> DEFINE x == [sched[t] EXCEPT !.at = "enqueued"]
    <3>1. sched' = [sched EXCEPT ![t] = x] /\ sched[t].at # "idle"
      BY <1>2 DEF TickEnqueue
    <3>2. sched \in [SchedTickers -> [at : {"idle", "read", "enqueued"}, slot : Slots \union {NoSlot}]]
      BY DEF IntentTypeOK
    <3>3. x \in [at : {"idle", "read", "enqueued"}, slot : Slots \union {NoSlot}] /\ x.slot \in Slots
      BY <3>1, <3>2 DEF TicksHoldSlots
    <3> HIDE DEF x
    <3> QED
      BY <3>1, <3>2, <3>3 DEF TicksHoldSlots
  <2> QED
    BY <1>2, <2>2, <2>3 DEF TickEnqueue, IntentTypeOK, ProcsOccupied
<1>3. ASSUME \/ \E s \in Signals : Discover(s)
             \/ \E S \in SUBSET Signals : Expire(S)
             \/ ComesDue
             \/ \E t \in SchedTickers : TickRead(t) \/ TickFails(t) \/ TickDies(t)
      PROVE  Schedule'
  <2>1. UNCHANGED <<event, nextRun, job, made, proc, counted>>
    BY <1>3 DEF Discover, Expire, ComesDue, TickRead, TickFails, TickDies
  <2>2. signal' \in [Signals -> {"none", "active", "expired"}]
    BY <1>3 DEF Discover, Expire, ComesDue, TickRead, TickFails, TickDies, IntentTypeOK
  <2>3. due' \in BOOLEAN
    BY <1>3 DEF Discover, Expire, ComesDue, TickRead, TickFails, TickDies, IntentTypeOK
  <2>4. /\ sched' \in [SchedTickers -> [at : {"idle", "read", "enqueued"}, slot : Slots \union {NoSlot}]]
        /\ TicksHoldSlots'
    BY <1>3 DEF Discover, Expire, ComesDue, TickRead, TickFails, TickDies, IntentTypeOK, TicksHoldSlots
  <2> QED
    BY <2>1, <2>2, <2>3, <2>4 DEF IntentTypeOK, MadeHasJob, ProcsOccupied
<1>4. ASSUME NEW t \in SchedTickers, NEW s \in Slots, TickCommit(t, s) PROVE Schedule'
  <2>1. Slots \subseteq Keys
    BY DEF Keys
  <2> QED
    BY <1>4, <2>1 DEF TickCommit, IntentTypeOK, MadeHasJob, ProcsOccupied, TicksHoldSlots
<1>5. ASSUME NEW p \in Processors, NEW k \in Keys, TakeJob(p, k) PROVE Schedule'
  <2>1. proc' = [proc EXCEPT ![p] = Taking(k)]
    BY <1>5 DEF TakeJob, Taking
  <2>2. /\ job' \in [Keys -> {"none", "queued", "running", "completed"}]
        /\ \A s \in Slots : job[s] # "none" => job'[s] # "none"
    BY <1>5 DEF TakeJob, IntentTypeOK, Keys
  <2>3. UNCHANGED <<event, signal, nextRun, due, made, sched, counted>>
    BY <1>5 DEF TakeJob
  <2> QED
    BY <2>1, <2>2, <2>3, ProcessUpdates, ProcKeeps DEF IntentTypeOK
<1>6. ASSUME NEW p \in Processors, NEW E \in SUBSET Pending, ClaimEvents(p, E) PROVE Schedule'
  <2>1. proc' = [proc EXCEPT ![p] = ToEval(proc[p], E)]
    BY <1>6 DEF ClaimEvents, ToEval
  <2>2. E \in SUBSET Events /\ proc[p].job \in Keys /\ proc[p] \in Process
    BY <1>6 DEF ClaimEvents, Pending, ProcsOccupied, Occupied, Busy
  <2>3. event' \in [Events -> {"none", "stored", "processed", "dropped"}]
    BY <1>6 DEF ClaimEvents, IntentTypeOK
  <2>4. UNCHANGED <<signal, nextRun, due, job, made, sched, counted>>
    BY <1>6 DEF ClaimEvents
  <2> QED
    BY <2>1, <2>2, <2>3, <2>4, ProcessUpdates, ProcKeeps DEF IntentTypeOK
<1>7. ASSUME NEW p \in Processors, NEW l \in IntentLeads, EvalRead(p, l) PROVE Schedule'
  <2>1. proc' = [proc EXCEPT ![p] = HasRead(proc[p], l, Evidence(l))]
    BY <1>7 DEF EvalRead, HasRead
  <2>2. Evidence(l) \in SUBSET (Events \union Signals) /\ proc[p] \in Process /\ Occupied(proc[p])
    BY DEF Evidence, ProcsOccupied
  <2>3. UNCHANGED <<event, signal, nextRun, due, job, made, sched, counted>>
    BY <1>7 DEF EvalRead
  <2> QED
    BY <2>1, <2>2, <2>3, ProcessUpdates, ProcKeeps DEF IntentTypeOK
<1>8. ASSUME NEW p \in Processors, EvalWrite(p) PROVE Schedule'
  <2> DEFINE todo == {e \in proc[p].todo : EventLead[e] \notin proc[p].lead}
  <2>1. proc' = [proc EXCEPT ![p] = HasWritten(proc[p], todo)]
    BY <1>8 DEF EvalWrite, HasWritten
  <2>2. todo \in SUBSET Events /\ proc[p] \in Process /\ Occupied(proc[p])
        /\ proc[p].seen \subseteq Events \union Signals
    BY DEF ProcsOccupied, Process
  <2>3. \A l \in IntentLeads : counted'[l] \subseteq Events \union Signals
    BY <1>8, <2>2 DEF EvalWrite, IntentTypeOK
  <2>4. UNCHANGED <<event, signal, nextRun, due, job, made, sched>>
    BY <1>8 DEF EvalWrite
  <2> HIDE DEF todo
  <2> QED
    BY <2>1, <2>2, <2>3, <2>4, ProcessUpdates, ProcKeeps DEF IntentTypeOK
<1>9. ASSUME NEW p \in Processors, EvalRaises(p) \/ EndJob(p) PROVE Schedule'
  <2>1. proc' = [proc EXCEPT ![p] = Resting]
    BY <1>9 DEF EvalRaises, EndJob
  <2>2. /\ job' \in [Keys -> {"none", "queued", "running", "completed"}]
        /\ \A s \in Slots : job[s] # "none" => job'[s] # "none"
    BY <1>9 DEF EvalRaises, EndJob, IntentTypeOK, Keys
  <2>3. event' \in [Events -> {"none", "stored", "processed", "dropped"}]
    BY <1>9 DEF EvalRaises, EndJob, LeavesBehind, IntentTypeOK
  <2>4. UNCHANGED <<signal, nextRun, due, made, sched, counted>>
    BY <1>9 DEF EvalRaises, EndJob
  <2> QED
    BY <2>1, <2>2, <2>3, <2>4, ProcessUpdates, ProcKeeps DEF IntentTypeOK
<1>11. ASSUME NEW p \in Processors, Dies(p) \/ LoopEnds(p) \/ Starts(p) PROVE Schedule'
  <2>1. \E x \in {Resting, DeadLoop, EndedLoop(proc[p])} : proc' = [proc EXCEPT ![p] = x]
    BY <1>11 DEF Dies, LoopEnds, Starts, DeadLoop, EndedLoop
  <2>2. proc[p] \in Process
    BY DEF ProcsOccupied
  <2>3. event' \in [Events -> {"none", "stored", "processed", "dropped"}]
    BY <1>11 DEF Dies, LoopEnds, Starts, LeavesBehind, IntentTypeOK
  <2>4. UNCHANGED <<signal, nextRun, due, job, made, sched, counted>>
    BY <1>11 DEF Dies, LoopEnds, Starts
  <2> QED
    BY <2>1, <2>2, <2>3, <2>4, ProcessUpdates, ProcKeeps DEF IntentTypeOK
<1>10. CASE UNCHANGED intentVars
  BY <1>10 DEF intentVars, IntentTypeOK, MadeHasJob, ProcsOccupied, TicksHoldSlots
<1> QED
  BY <1>1, <1>2, <1>3, <1>4, <1>5, <1>6, <1>7, <1>8, <1>9, <1>10, <1>11
  DEF IntentNext, TickerStep, ProcStep

\* The invariant holds in every behaviour, fair or not.
THEOREM ScheduleHolds == IntentInit /\ [][IntentNext]_intentVars => []Schedule
  BY ScheduleInit, ScheduleStep, PTL

\* The state of the engine always has its types.
THEOREM IntentTypeCorrect == IntentSpec => []IntentTypeOK
<1>1. Schedule => IntentTypeOK
  BY DEF Schedule
<1> QED
  BY <1>1, ScheduleHolds, PTL DEF IntentSpec

\* However many ticks overlap, and wherever they die, a due time makes one job.
THEOREM OneJob == IntentSpec => []OneJobPerSlot
<1>1. Schedule => OneJobPerSlot
  BY DEF Schedule, MadeHasJob, OneJobPerSlot
<1> QED
  BY <1>1, ScheduleHolds, PTL DEF IntentSpec

-----------------------------------------------------------------------------
(* The recurring schedule implements DueOnce                                *)

\* A slot has a job just when one was made for it.
Tallied == \A s \in Slots : made[s] \in {0, 1} /\ (made[s] = 0 <=> job[s] = "none")

\* A busy processor has a running job, and has it alone.
JobsRunning ==
  \A p \in Processors : Busy(proc[p]) =>
    /\ job[proc[p].job] = "running"
    /\ \A q \in Processors : q # p /\ Busy(proc[q]) => proc[q].job # proc[p].job

\* Nothing has been done for a time that has not come.
NotBeforeTime ==
  ~due => made[nextRun] = 0 /\ \A t \in SchedTickers : sched[t].at # "idle" => sched[t].slot # nextRun

\* What a tick has enqueued has its job; and if ticks end before the next time,
\* the ticks under way hold the time that has come, or one that was served.
TicksAgree ==
  \A t \in SchedTickers :
    /\ sched[t].at = "enqueued" => made[sched[t].slot] = 1
    /\ PromptTicks /\ sched[t].at # "idle" =>
         IF due THEN sched[t].slot = nextRun ELSE made[sched[t].slot] = 1

Served == Tallied /\ JobsRunning /\ NotBeforeTime /\ TicksAgree

\* What enqueue makes of a key: a slot has its one job then, and no other changes.
LEMMA EnqueueServes ==
  ASSUME Schedule, Served, NEW k \in Keys, EnqueueKey(k), UNCHANGED proc
  PROVE  /\ Tallied' /\ JobsRunning'
         /\ k \in Slots => made'[k] = 1
         /\ \A s \in Slots : s # k => made'[s] = made[s]
         /\ k \notin Slots \/ made[k] = 1 => made' = made
<1> USE DEF Schedule, IntentTypeOK, Served
<1>1. Slots \subseteq Keys
  BY DEF Keys
<1>2. CASE job[k] # "none"
  <2>1. job' = job /\ made' = made
    BY <1>2 DEF EnqueueKey
  <2>2. k \in Slots => made[k] = 1
    BY <1>2 DEF Tallied
  <2> QED
    BY <2>1, <2>2 DEF Tallied, JobsRunning
<1>3. CASE job[k] = "none"
  <2>1. job' = [job EXCEPT ![k] = "queued"]
    BY <1>3 DEF EnqueueKey
  <2>2. JobsRunning'
    <3>1. \A p \in Processors : Busy(proc[p]) => proc[p].job \in Keys /\ proc[p].job # k
      BY <1>3 DEF JobsRunning, ProcsOccupied, Occupied
    <3> QED
      BY <2>1, <3>1 DEF JobsRunning
  <2>3. CASE k \in Slots
    <3>1. made[k] = 0
      BY <1>3, <2>3 DEF Tallied
    <3>2. made' = [made EXCEPT ![k] = 1]
      BY <1>3, <2>3, <3>1 DEF EnqueueKey
    <3> QED
      BY <1>1, <2>1, <2>2, <2>3, <3>1, <3>2 DEF Tallied
  <2>4. CASE k \notin Slots
    <3>1. made' = made
      BY <1>3, <2>4 DEF EnqueueKey
    <3> QED
      BY <1>1, <2>1, <2>2, <2>4, <3>1 DEF Tallied
  <2> QED
    BY <2>3, <2>4
<1> QED
  BY <1>2, <1>3

\* A step of a processor leaves slots and ticks alone.
LEMMA ProcServes ==
  ASSUME Served, JobsRunning',
         \A s \in Slots : job'[s] = "none" <=> job[s] = "none",
         UNCHANGED <<nextRun, due, made, sched>>
  PROVE  Served'
BY DEF Served, Tallied, NotBeforeTime, TicksAgree

\* At the start no job was made, and nobody is at work.
LEMMA ServedInit == IntentInit => Served
<1> SUFFICES ASSUME IntentInit PROVE Served
  OBVIOUS
<1>1. Tallied
  BY DEF IntentInit, Tallied, Keys
<1>2. JobsRunning
  BY DEF IntentInit, JobsRunning, Resting, Busy
<1>3. NotBeforeTime /\ TicksAgree
  BY DEF IntentInit, NotBeforeTime, TicksAgree
<1> QED
  BY <1>1, <1>2, <1>3 DEF Served

\* Every step keeps jobs, slots and ticks in agreement.
LEMMA ServedStep == Schedule /\ Served /\ [IntentNext]_intentVars => Served'
<1> SUFFICES ASSUME Schedule, Served, [IntentNext]_intentVars PROVE Served'
  OBVIOUS
<1> USE DEF Schedule, IntentTypeOK
<1>0. Slots \subseteq Keys
  BY DEF Keys
<1>1. ASSUME NEW e \in Events, Ingest(e) PROVE Served'
  <2>1. UNCHANGED <<nextRun, due, sched, proc>>
    BY <1>1 DEF Ingest
  <2>2. e \in Keys /\ e \notin Slots
    BY IntentAssumption DEF Keys
  <2>3. Tallied' /\ JobsRunning' /\ made' = made
    <3>1. CASE EnqueueKey(e)
      BY <2>1, <2>2, <3>1, EnqueueServes
    <3>2. CASE UNCHANGED <<job, made>>
      BY <2>1, <3>2 DEF Served, Tallied, JobsRunning
    <3> QED
      BY <1>1, <3>1, <3>2 DEF Ingest
  <2> QED
    BY <2>1, <2>3 DEF Served, NotBeforeTime, TicksAgree
<1>2. ASSUME NEW t \in SchedTickers, TickEnqueue(t) PROVE Served'
  <2> DEFINE k == sched[t].slot
  <2>1. k \in Slots /\ sched[t].at # "idle"
    BY <1>2 DEF TickEnqueue, TicksHoldSlots
  <2>2. UNCHANGED <<nextRun, due, proc>> /\ EnqueueKey(k)
    BY <1>2 DEF TickEnqueue
  <2>3. /\ Tallied' /\ JobsRunning' /\ made'[k] = 1
        /\ \A s \in Slots : s # k => made'[s] = made[s]
    BY <1>0, <2>1, <2>2, EnqueueServes
  <2>4. \A q \in SchedTickers : /\ sched'[q].slot = sched[q].slot
                                /\ q # t => sched'[q].at = sched[q].at
    BY <1>2 DEF TickEnqueue
  <2>5. /\ nextRun \in Slots
        /\ \A q \in SchedTickers : sched[q].at # "idle" => sched[q].slot \in Slots
    BY DEF TicksHoldSlots
  <2>6. ~due => k # nextRun
    BY <2>1 DEF Served, NotBeforeTime
  <2>7. PromptTicks => IF due THEN k = nextRun ELSE TRUE
    BY <2>1 DEF Served, TicksAgree
  <2>8. Served
    OBVIOUS
  <2> HIDE DEF k, Schedule, IntentTypeOK
  <2>9. NotBeforeTime'
    <3>1. \A q \in SchedTickers : ~due /\ sched'[q].at # "idle" => sched[q].slot # nextRun
      BY <2>4, <2>6, <2>8 DEF Served, NotBeforeTime, k
    <3>2. ~due => made'[nextRun] = 0
      BY <2>3, <2>5, <2>6, <2>8 DEF Served, NotBeforeTime
    <3> QED
      BY <2>2, <2>4, <3>1, <3>2 DEF NotBeforeTime
  <2>10. TicksAgree'
    <3>1. ASSUME NEW q \in SchedTickers, q # t, sched[q].at # "idle"
          PROVE  /\ sched[q].at = "enqueued" => made'[sched[q].slot] = 1
                 /\ PromptTicks => IF due THEN sched[q].slot = nextRun ELSE made'[sched[q].slot] = 1
      BY <2>3, <2>5, <2>8, <3>1 DEF Served, TicksAgree
    <3>2. sched'[t].slot = k
      BY <2>4 DEF k
    <3>3. ASSUME NEW q \in SchedTickers
          PROVE  /\ sched'[q].at = "enqueued" => made'[sched'[q].slot] = 1
                 /\ PromptTicks /\ sched'[q].at # "idle" =>
                      IF due THEN sched'[q].slot = nextRun ELSE made'[sched'[q].slot] = 1
      <4>1. CASE q = t
        BY <2>3, <2>7, <3>2, <4>1
      <4>2. CASE q # t
        BY <2>4, <3>1, <4>2
      <4> QED
        BY <4>1, <4>2
    <3> QED
      BY <2>2, <3>3 DEF TicksAgree
  <2> QED
    BY <2>3, <2>9, <2>10 DEF Served
<1>3. ASSUME \/ \E s \in Signals : Discover(s)
             \/ \E S \in SUBSET Signals : Expire(S)
             \/ ComesDue
             \/ \E t \in SchedTickers : TickRead(t) \/ TickFails(t) \/ TickDies(t)
      PROVE  Served'
  <2>1. UNCHANGED <<nextRun, job, made, proc>>
    BY <1>3 DEF Discover, Expire, ComesDue, TickRead, TickFails, TickDies
  <2>2. Tallied' /\ JobsRunning'
    BY <2>1 DEF Served, Tallied, JobsRunning
  <2>3. NotBeforeTime' /\ TicksAgree'
    BY <1>3, <2>1 DEF Served, NotBeforeTime, TicksAgree, Discover, Expire, ComesDue, TickRead,
                      TickFails, TickDies
  <2> QED
    BY <2>2, <2>3 DEF Served
<1>4. ASSUME NEW t \in SchedTickers, NEW s \in Slots, TickCommit(t, s) PROVE Served'
  <2>1. /\ nextRun' = s /\ due' = FALSE /\ proc' = proc
        /\ job' = [job EXCEPT ![s] = "none"] /\ made' = [made EXCEPT ![s] = 0]
        /\ sched[t].at = "enqueued" /\ Fresh(s)
    BY <1>4 DEF TickCommit
  <2>2. Tallied'
    BY <1>0, <2>1 DEF Served, Tallied
  <2>3. JobsRunning'
    <3>1. \A p \in Processors : Busy(proc[p]) => proc[p].job \in Keys /\ proc[p].job # s
      BY <1>0, <2>1 DEF Served, JobsRunning, ProcsOccupied, Occupied, Fresh
    <3> QED
      BY <2>1, <3>1 DEF Served, JobsRunning
  <2>4. \A q \in SchedTickers :
          sched'[q].at # "idle" => /\ q # t /\ sched'[q] = sched[q]
                                   /\ sched[q].slot \in Slots /\ sched[q].slot # s
                                   /\ made'[sched[q].slot] = made[sched[q].slot]
    BY <1>4, <2>1 DEF TickCommit, Fresh, TicksHoldSlots
  <2>5. NotBeforeTime'
    BY <2>1, <2>4 DEF NotBeforeTime
  <2>6. PromptTicks => \A q \in SchedTickers : sched[q].at # "idle" => made[sched[q].slot] = 1
    BY <2>1 DEF Served, TicksAgree
  <2>7. TicksAgree'
    BY <2>1, <2>4, <2>6 DEF Served, TicksAgree
  <2> QED
    BY <2>2, <2>3, <2>5, <2>7 DEF Served
<1>5. ASSUME NEW p \in Processors, NEW k \in Keys, TakeJob(p, k) PROVE Served'
  <2>1. proc' = [proc EXCEPT ![p] = Taking(k)] /\ job' = [job EXCEPT ![k] = "running"]
        /\ job[k] = "queued"
    BY <1>5 DEF TakeJob, Taking
  <2>2. \A q \in Processors : Busy(proc[q]) => proc[q].job \in Keys /\ proc[q].job # k
    BY <2>1 DEF Served, JobsRunning, ProcsOccupied, Occupied
  <2>3. proc'[p] = Taking(k) /\ \A q \in Processors : q # p => proc'[q] = proc[q]
    BY <2>1 DEF ProcsOccupied
  <2>4. Taking(k).job = k
    BY DEF Taking, Resting
  <2>5. JobsRunning'
    BY <2>1, <2>2, <2>3, <2>4 DEF Served, JobsRunning
  <2>6. \A s \in Slots : job'[s] = "none" <=> job[s] = "none"
    BY <1>0, <2>1
  <2> QED
    BY <1>5, <2>5, <2>6, ProcServes DEF TakeJob
<1>6. ASSUME NEW p \in Processors,
             \/ \E E \in SUBSET Pending : ClaimEvents(p, E)
             \/ \E l \in IntentLeads : EvalRead(p, l)
             \/ EvalWrite(p)
      PROVE  Served'
  <2>1. UNCHANGED <<nextRun, due, job, made, sched>>
    BY <1>6 DEF ClaimEvents, EvalRead, EvalWrite
  <2>2. \A q \in Processors : /\ proc'[q].job = proc[q].job
                              /\ Busy(proc'[q]) => Busy(proc[q])
    <3>1. \A y \in Process, todo \in SUBSET Events :
            ToEval(y, todo).job = y.job
      BY DEF ToEval, Process
    <3>2. \A y \in Process : \A l, seen :
            HasRead(y, l, seen).job = y.job /\ Busy(HasRead(y, l, seen)) = Busy(y)
      BY DEF HasRead, Process, Busy
    <3>3. \A y \in Process : \A todo :
            HasWritten(y, todo).job = y.job /\ Busy(HasWritten(y, todo)) = Busy(y)
      BY DEF HasWritten, Process, Busy
    <3>4. proc[p] \in Process
      BY DEF ProcsOccupied
    <3>5. CASE \E E \in SUBSET Pending : ClaimEvents(p, E)
      <4>1. PICK E \in SUBSET Pending : ClaimEvents(p, E)
        BY <3>5
      <4>2. proc' = [proc EXCEPT ![p] = ToEval(proc[p], E)] /\ Busy(proc[p])
        BY <4>1 DEF ClaimEvents, ToEval, Busy
      <4>3. E \in SUBSET Events
        BY DEF Pending
      <4> QED
        BY <3>1, <3>4, <4>2, <4>3 DEF ProcsOccupied
    <3>6. CASE \E l \in IntentLeads : EvalRead(p, l)
      <4>1. PICK l \in IntentLeads : EvalRead(p, l)
        BY <3>6
      <4>2. proc' = [proc EXCEPT ![p] = HasRead(proc[p], l, Evidence(l))]
        BY <4>1 DEF EvalRead, HasRead
      <4> QED
        BY <3>2, <3>4, <4>2 DEF ProcsOccupied
    <3>7. CASE EvalWrite(p)
      <4>1. proc' = [proc EXCEPT ![p] = HasWritten(proc[p],
                     {e \in proc[p].todo : EventLead[e] \notin proc[p].lead})]
        BY <3>7 DEF EvalWrite, HasWritten
      <4> QED
        BY <3>3, <3>4, <4>1 DEF ProcsOccupied
    <3> QED
      BY <1>6, <3>5, <3>6, <3>7
  <2>3. JobsRunning'
    BY <2>1, <2>2 DEF Served, JobsRunning
  <2> QED
    BY <2>1, <2>3, ProcServes
<1>7. ASSUME NEW p \in Processors, EvalRaises(p) \/ EndJob(p) PROVE Served'
  <2> DEFINE k == proc[p].job
  <2>1. proc' = [proc EXCEPT ![p] = Resting] /\ job' = [job EXCEPT ![k] = "completed"]
        /\ Busy(proc[p])
    BY <1>7 DEF EvalRaises, EndJob, Busy
  <2>2. k \in Keys /\ job[k] = "running"
    BY <2>1 DEF Served, JobsRunning, ProcsOccupied, Occupied
  <2>3. \A q \in Processors : q # p /\ Busy(proc[q]) => proc[q].job \in Keys /\ proc[q].job # k
    BY <2>1 DEF Served, JobsRunning, ProcsOccupied, Occupied
  <2>4. ~Busy(proc'[p]) /\ \A q \in Processors : q # p => proc'[q] = proc[q]
    BY <2>1, ProcessUpdates DEF ProcsOccupied
  <2> HIDE DEF k
  <2>5. JobsRunning'
    BY <2>1, <2>3, <2>4 DEF Served, JobsRunning
  <2>6. \A s \in Slots : job'[s] = "none" <=> job[s] = "none"
    BY <1>0, <2>1, <2>2
  <2> QED
    BY <1>7, <2>5, <2>6, ProcServes DEF EvalRaises, EndJob
<1>9. ASSUME NEW p \in Processors, Dies(p) \/ LoopEnds(p) \/ Starts(p) PROVE Served'
  <2>1. \E x \in {Resting, DeadLoop, EndedLoop(proc[p])} : proc' = [proc EXCEPT ![p] = x]
    BY <1>9 DEF Dies, LoopEnds, Starts, DeadLoop, EndedLoop
  <2>2. proc[p] \in Process
    BY DEF ProcsOccupied
  <2>3. ~Busy(proc'[p]) /\ \A q \in Processors : q # p => proc'[q] = proc[q]
    BY <2>1, <2>2, ProcessUpdates DEF ProcsOccupied
  <2>4. UNCHANGED <<nextRun, due, job, made, sched>>
    BY <1>9 DEF Dies, LoopEnds, Starts
  <2>5. JobsRunning'
    BY <2>3, <2>4 DEF Served, JobsRunning
  <2> QED
    BY <2>4, <2>5, ProcServes
<1>8. CASE UNCHANGED intentVars
  BY <1>8 DEF intentVars, Served, Tallied, JobsRunning, NotBeforeTime, TicksAgree
<1> QED
  BY <1>1, <1>2, <1>3, <1>4, <1>5, <1>6, <1>7, <1>8, <1>9 DEF IntentNext, TickerStep, ProcStep

LEMMA ServedHolds == IntentSpec => []Served
  BY ServedInit, ServedStep, ScheduleHolds, PTL DEF IntentSpec

\* The schedule starts where its promise starts.
LEMMA DueInit == IntentInit => Schedules!DInit
  BY DEF IntentInit, Schedules!DInit

\* Every step serves the time that has come, lets the next one come, moves on
\* from one that was served, or does nothing to the schedule.
LEMMA DueStep ==
  PromptTicks /\ Schedule /\ Served /\ [IntentNext]_intentVars
    => [Schedules!DNext]_(Schedules!dvars)
<1> SUFFICES ASSUME PromptTicks, Schedule, Served, [IntentNext]_intentVars
             PROVE  [Schedules!DNext]_(Schedules!dvars)
  OBVIOUS
<1> USE DEF Schedule, IntentTypeOK
<1>0. Slots \subseteq Keys
  BY DEF Keys
<1>1. ASSUME UNCHANGED <<nextRun, due, made>> PROVE [Schedules!DNext]_(Schedules!dvars)
  BY <1>1 DEF Schedules!dvars
<1>2. ASSUME NEW e \in Events, Ingest(e) PROVE [Schedules!DNext]_(Schedules!dvars)
  <2>1. UNCHANGED <<nextRun, due>> /\ made' = made
    BY <1>2, IntentAssumption DEF Ingest, EnqueueKey
  <2> QED
    BY <1>1, <2>1
<1>3. ASSUME ComesDue PROVE [Schedules!DNext]_(Schedules!dvars)
  <2>1. ~due /\ due' = TRUE /\ UNCHANGED <<nextRun, made>> /\ made[nextRun] = 0
    BY <1>3 DEF ComesDue, Served, NotBeforeTime
  <2>2. Schedules!DComesDue
    BY <2>1 DEF Schedules!DComesDue
  <2> QED
    BY <2>2 DEF Schedules!DNext
<1>4. ASSUME NEW t \in SchedTickers, TickEnqueue(t) PROVE [Schedules!DNext]_(Schedules!dvars)
  <2> DEFINE k == sched[t].slot
  <2>1. k \in Slots /\ sched[t].at # "idle" /\ EnqueueKey(k) /\ UNCHANGED <<nextRun, due, proc>>
    BY <1>4 DEF TickEnqueue, TicksHoldSlots
  <2> HIDE DEF k
  <2>2. CASE made[k] = 1
    BY <1>0, <1>1, <2>1, <2>2, EnqueueServes
  <2>3. CASE made[k] # 1
    <3>1. due /\ k = nextRun
      BY <2>1, <2>3 DEF Served, TicksAgree, k
    <3>2. made[k] = 0 /\ job[k] = "none"
      BY <2>1, <2>3 DEF Served, Tallied
    <3>3. made' = [made EXCEPT ![k] = 1]
      BY <2>1, <3>2 DEF EnqueueKey
    <3>4. Schedules!DServe
      BY <2>1, <3>1, <3>2, <3>3 DEF Schedules!DServe
    <3> QED
      BY <3>4 DEF Schedules!DNext
  <2> QED
    BY <2>2, <2>3
<1>5. ASSUME NEW t \in SchedTickers, NEW s \in Slots, TickCommit(t, s)
      PROVE  [Schedules!DNext]_(Schedules!dvars)
  <2>1. /\ nextRun' = s /\ due' = FALSE /\ made' = [made EXCEPT ![s] = 0]
        /\ sched[t].at = "enqueued" /\ s # nextRun
    BY <1>5 DEF TickCommit, Fresh
  <2>2. due => made[nextRun] = 1
    BY <2>1 DEF Served, TicksAgree
  <2>3. Schedules!DMoveOn(s)
    BY <2>1, <2>2 DEF Schedules!DMoveOn
  <2> QED
    BY <2>3 DEF Schedules!DNext
<1>6. ASSUME \/ \E s \in Signals : Discover(s)
             \/ \E S \in SUBSET Signals : Expire(S)
             \/ \E t \in SchedTickers : TickRead(t) \/ TickFails(t) \/ TickDies(t)
             \/ \E p \in Processors : ProcStep(p) \/ EvalRaises(p) \/ Dies(p) \/ LoopEnds(p) \/ Starts(p)
             \/ UNCHANGED intentVars
      PROVE  [Schedules!DNext]_(Schedules!dvars)
  <2>1. UNCHANGED <<nextRun, due, made>>
    BY <1>6 DEF Discover, Expire, TickRead, TickFails, TickDies, ProcStep, TakeJob, ClaimEvents,
                EvalRead, EvalWrite, EvalRaises, EndJob, Dies, LoopEnds, Starts, intentVars
  <2> QED
    BY <1>1, <2>1
<1> QED
  BY <1>2, <1>3, <1>4, <1>5, <1>6 DEF IntentNext, TickerStep

\* However ticks overlap, fail or die, as long as they end before the next time
\* comes: every due time gets its one job before the schedule moves on.
THEOREM EveryTimeServed == ASSUME PromptTicks PROVE IntentSpec => ServesEveryTime
<1>1. Schedule /\ Served /\ [IntentNext]_intentVars => [Schedules!DNext]_(Schedules!dvars)
  BY DueStep
<1> QED
  BY <1>1, DueInit, ScheduleHolds, ServedHolds, PTL DEF IntentSpec, ServesEveryTime, Schedules!DSpec

-----------------------------------------------------------------------------
(* The pauses of the outbound scheduler                                     *)

\* A tick, as far as its switches are concerned.
TickShape(x) ==
  DOMAIN x = {"at", "eff", "room", "domRoom", "queue", "stops", "shadow", "rested", "cut", "given"}

\* What was paused when the tick asked for the switches is among what it stops.
Heeds(x) == x.at = "assign" => x.rested \intersect Granular \subseteq x.stops

TicksHeed ==
  /\ DOMAIN tick = Tickers
  /\ \A t \in Tickers : TickShape(tick[t]) /\ Heeds(tick[t])

OperatorRecord ==
  [target : Granular \union {NoTarget}, on : BOOLEAN, read : SUBSET Targets, missed : SUBSET Targets]

OperatorType == operator \in [Operators -> OperatorRecord]

\* A pause that stands is in the switches, and whoever is about to write them has
\* read it or missed it.
PausesKept ==
  /\ OperatorType /\ switches \subseteq Targets
  /\ stopped \intersect Granular \subseteq switches
  /\ \A o \in Operators : operator[o].target # NoTarget =>
       stopped \intersect Granular \subseteq operator[o].read \union operator[o].missed

Pauses == TicksHeed /\ PausesKept

\* The targets an operator names in kill_switches are not the two flags.
LEMMA TargetKinds ==
  /\ Granular \subseteq Targets
  /\ NoTarget \notin Granular
  /\ "all" \notin Granular /\ "followups" \notin Granular
  BY SchedulerAssumption DEF Granular, Targets

\* The initial state satisfies the invariant.
LEMMA PausesInit == OutInit => Pauses
<1> SUFFICES ASSUME OutInit PROVE Pauses
  OBVIOUS
<1>1. TickShape(Off) /\ Heeds(Off)
  BY DEF TickShape, Heeds, Off
<1>2. TicksHeed
  BY <1>1 DEF OutInit, TicksHeed
<1>3. OperatorType /\ \A o \in Operators : operator[o].target = NoTarget
  BY DEF OutInit, OperatorType, OperatorRecord, NotPausing
<1>4. switches = {} /\ stopped = {}
  BY DEF OutInit
<1> QED
  BY <1>2, <1>3, <1>4 DEF Pauses, PausesKept

\* Charging a mailbox gives it one more, and nothing else that matters here.
LEMMA ChargeKeeps ==
  ASSUME NEW x, TickShape(x), NEW b \in Boxes
  PROVE  /\ TickShape(Charge(x, b))
         /\ Charge(x, b).at = x.at
         /\ Charge(x, b).stops = x.stops
         /\ Charge(x, b).rested = x.rested
         /\ Charge(x, b).given = x.given \union {[id |-> Head(x.queue).id, box |-> b]}
  BY DEF TickShape, Charge

\* What a tick's own step makes of it: it heeds the switches, and its mailboxes
\* are given more only by an assignment to them.
LEMMA TickKeeps ==
  ASSUME Pauses, NEW t \in Tickers, TickStep(t)
  PROVE  /\ DOMAIN tick' = Tickers
         /\ \A u \in Tickers \ {t} : tick'[u] = tick[u]
         /\ TickShape(tick'[t]) /\ Heeds(tick'[t])
         /\ \A m \in OutMessages, b \in Boxes : Gives(t, m, b) => Assign(t, b)
<1> USE DEF Pauses, TicksHeed
<1>0. TickShape(tick[t]) /\ Heeds(tick[t])
  OBVIOUS
<1>1. CASE Capacity(t)
  BY <1>0, <1>1 DEF Capacity, Off, TickShape, Heeds, Gives
<1>2. CASE Fetch(t)
  BY <1>0, <1>2 DEF Fetch, TickShape, Heeds, Gives
<1>3. CASE Switches(t)
  BY <1>0, <1>3 DEF Switches, TickShape, Heeds, PausesKept, Gives
<1>4. CASE Defer(t)
  BY <1>0, <1>4 DEF Defer, Pop, TickShape, Heeds, Gives
<1>5. CASE Finish(t)
  BY <1>0, <1>5 DEF Finish, Off, TickShape, Heeds, Gives
<1>6. ASSUME NEW b \in Boxes, Assign(t, b)
      PROVE  /\ DOMAIN tick' = Tickers
             /\ \A u \in Tickers \ {t} : tick'[u] = tick[u]
             /\ TickShape(tick'[t]) /\ Heeds(tick'[t])
             /\ \A m \in OutMessages, c \in Boxes : Gives(t, m, c) => c = b
  <2>1. CASE tick' = Pop(t)
    BY <1>0, <2>1 DEF Pop, TickShape, Heeds, Gives
  <2>2. CASE tick' = [tick EXCEPT ![t] = Off]
    BY <1>0, <2>2 DEF Off, TickShape, Heeds, Gives
  <2>3. CASE tick' = [tick EXCEPT ![t] = Charge(tick[t], b)]
    <3> DEFINE y == Charge(tick[t], b)
    <3>1. TickShape(y) /\ Heeds(y)
      BY <1>0, ChargeKeeps DEF Heeds
    <3>2. y.given = tick[t].given \union {[id |-> Head(tick[t].queue).id, box |-> b]}
      BY <1>0, ChargeKeeps
    <3> HIDE DEF y
    <3>3. DOMAIN tick' = Tickers /\ tick'[t] = y /\ \A u \in Tickers \ {t} : tick'[u] = tick[u]
      BY <2>3 DEF y
    <3>4. \A m \in OutMessages, c \in Boxes : Gives(t, m, c) => c = b
      BY <3>2, <3>3 DEF Gives
    <3> QED
      BY <3>1, <3>3, <3>4
  <2> QED
    BY <1>6, <2>1, <2>2, <2>3 DEF Assign
<1> QED
  BY <1>1, <1>2, <1>3, <1>4, <1>5, <1>6 DEF TickStep

\* What an operator's steps make of the operators and of what they are told.
LEMMA ReadTyped ==
  ASSUME OperatorType, switches \subseteq Targets,
         NEW o \in Operators, NEW x, NEW on \in BOOLEAN, PauseRead(o, x, on)
  PROVE  OperatorType'
<1>1. x \in Granular /\ [NotPausing EXCEPT !.target = x, !.on = on, !.read = switches] \in OperatorRecord
  BY DEF PauseRead, OperatorRecord, NotPausing
<1> QED
  BY <1>1 DEF PauseRead, OperatorType

LEMMA WriteTyped ==
  ASSUME OperatorType, NEW o \in Operators, PauseWrite(o)
  PROVE  /\ OperatorType'
         /\ switches' \subseteq Targets /\ stopped' \subseteq stopped \union Targets
<1> DEFINE r == operator[o]
<1>1. r \in OperatorRecord /\ r.target \in Granular /\ r.target \in Targets
  BY TargetKinds DEF OperatorType, OperatorRecord, PauseWrite
<1>2. r.read \subseteq Targets
  BY <1>1 DEF OperatorRecord
<1>3. switches' = Put(r.read, r.target, r.on)
      /\ stopped' = Put(stopped \ (r.missed \ r.read), r.target, r.on)
  BY DEF PauseWrite
<1>4. switches' \subseteq Targets /\ stopped' \subseteq stopped \union Targets
  BY <1>1, <1>2, <1>3 DEF Put
<1>5. ASSUME NEW p \in Operators
      PROVE  /\ NotPausing \in OperatorRecord /\ operator[p] \in OperatorRecord
             /\ [operator[p] EXCEPT !.missed = @ \union {r.target}] \in OperatorRecord
  BY <1>1 DEF OperatorType, OperatorRecord, NotPausing
<1>6. OperatorType'
  BY <1>5 DEF PauseWrite, OperatorType
<1> QED
  BY <1>4, <1>6

\* In any order of operators and ticks, every step keeps the pauses.
LEMMA PausesStep == Pauses /\ [OutNext]_outVars => Pauses'
<1> SUFFICES ASSUME Pauses, [OutNext]_outVars PROVE Pauses'
  OBVIOUS
<1>1. ASSUME NEW t \in Tickers, TickStep(t) PROVE Pauses'
  <2>1. TicksHeed'
    <3>1. ASSUME NEW u \in Tickers PROVE TickShape(tick'[u]) /\ Heeds(tick'[u])
      <4>1. CASE u = t
        BY <1>1, <4>1, TickKeeps
      <4>2. CASE u # t
        BY <1>1, <4>2, TickKeeps DEF Pauses, TicksHeed
      <4> QED
        BY <4>1, <4>2
    <3> QED
      BY <1>1, <3>1, TickKeeps DEF TicksHeed
  <2>2. UNCHANGED <<switches, stopped, operator>>
    BY <1>1 DEF TickStep, Capacity, Fetch, Switches, Defer, Finish, Assign
  <2> QED
    BY <2>1, <2>2 DEF Pauses, PausesKept, OperatorType
<1>2. ASSUME NEW l \in OutLeads, CancelFollowUps(l) PROVE Pauses'
  <2>1. DOMAIN tick' = Tickers /\ UNCHANGED <<switches, stopped, operator>>
    BY <1>2 DEF CancelFollowUps
  <2>2. ASSUME NEW t \in Tickers PROVE TickShape(tick'[t]) /\ Heeds(tick'[t])
    <3>1. TickShape(tick[t]) /\ Heeds(tick[t])
      BY DEF Pauses, TicksHeed
    <3>2. \/ tick'[t] = tick[t]
          \/ \E c : tick'[t] = [tick[t] EXCEPT !.cut = c]
      BY <1>2 DEF CancelFollowUps
    <3>3. ASSUME NEW c, tick'[t] = [tick[t] EXCEPT !.cut = c]
          PROVE  TickShape(tick'[t]) /\ Heeds(tick'[t])
      BY <3>1, <3>3 DEF TickShape, Heeds
    <3> QED
      BY <3>1, <3>2, <3>3
  <2> QED
    BY <2>1, <2>2 DEF Pauses, PausesKept, OperatorType, TicksHeed
<1>3. CASE UNCHANGED <<switches, stopped, operator, tick>>
  BY <1>3 DEF Pauses, PausesKept, OperatorType, TicksHeed
<1>4. ASSUME NEW o \in Operators, NEW x \in Pausable, NEW on \in BOOLEAN, PauseRead(o, x, on)
      PROVE  Pauses'
  <2>1. OperatorType' /\ UNCHANGED <<switches, stopped, tick>>
    BY <1>4, ReadTyped DEF PauseRead, Pauses, PausesKept
  <2>2. ASSUME NEW p \in Operators
        PROVE  operator'[p] = operator[p] \/ operator'[p].read = switches
    BY <1>4 DEF PauseRead, Pauses, PausesKept, OperatorType, OperatorRecord, NotPausing
  <2> QED
    BY <2>1, <2>2 DEF Pauses, PausesKept, TicksHeed
<1>5. ASSUME NEW o \in Operators, PauseWrite(o) PROVE Pauses'
  <2> DEFINE r == operator[o]
             seen(p) == [operator[p] EXCEPT !.missed = @ \union {r.target}]
  <2>1. /\ r.target # NoTarget /\ tick' = tick
        /\ switches' = Put(r.read, r.target, r.on)
        /\ stopped' = Put(stopped \ (r.missed \ r.read), r.target, r.on)
    BY <1>5 DEF PauseWrite
  <2>2. r \in OperatorRecord /\ r.target \in Granular
    BY <2>1 DEF Pauses, PausesKept, OperatorType, OperatorRecord
  <2>3. /\ stopped \intersect Granular \subseteq r.read \union r.missed
        /\ r.read \subseteq Targets /\ r.on \in BOOLEAN
    BY <2>1, <2>2 DEF Pauses, PausesKept, OperatorRecord
  <2>4. switches' \subseteq Targets /\ stopped' \intersect Granular \subseteq switches'
    BY <2>1, <2>2, <2>3, TargetKinds DEF Put
  <2>5. ASSUME NEW p \in Operators
        PROVE  operator'[p].target # NoTarget
                 => stopped' \intersect Granular \subseteq operator'[p].read \union operator'[p].missed
    <3>1. operator[p] \in OperatorRecord
      BY DEF Pauses, PausesKept, OperatorType
    <3>2. CASE p = o
      <4>1. operator'[p] = NotPausing
        BY <1>5, <3>2 DEF PauseWrite
      <4> QED
        BY <4>1 DEF NotPausing
    <3>3. CASE p # o /\ r.on /\ operator[p].target # NoTarget
      <4>1. operator'[p] = seen(p)
        BY <1>5, <3>3 DEF PauseWrite
      <4>2. /\ seen(p).read = operator[p].read
            /\ seen(p).missed = operator[p].missed \union {r.target}
        BY <3>1 DEF OperatorRecord
      <4>3. stopped \intersect Granular \subseteq operator[p].read \union operator[p].missed
        BY <3>3 DEF Pauses, PausesKept
      <4>4. stopped' \subseteq stopped \union {r.target}
        BY <2>1 DEF Put
      <4> QED
        BY <4>1, <4>2, <4>3, <4>4
    <3>4. CASE p # o /\ ~(r.on /\ operator[p].target # NoTarget)
      <4>1. operator'[p] = operator[p]
        BY <1>5, <3>4 DEF PauseWrite
      <4>2. operator[p].target # NoTarget => stopped' \subseteq stopped
        BY <2>1, <3>4 DEF Put
      <4>3. operator[p].target # NoTarget
              => stopped \intersect Granular \subseteq operator[p].read \union operator[p].missed
        BY DEF Pauses, PausesKept
      <4> QED
        BY <4>1, <4>2, <4>3
    <3> QED
      BY <3>2, <3>3, <3>4
  <2>6. OperatorType'
    BY <1>5, WriteTyped DEF Pauses, PausesKept
  <2> QED
    BY <2>1, <2>4, <2>5, <2>6 DEF Pauses, PausesKept, OperatorType, TicksHeed
<1>6. ASSUME NEW x \in Pausable, NEW on \in BOOLEAN, PauseOwn(x, on) PROVE Pauses'
  <2>1. /\ x \notin Granular /\ UNCHANGED <<switches, operator, tick>>
        /\ stopped' = stopped \union {x} \/ stopped' = stopped \ {x}
    BY <1>6, TargetKinds DEF PauseOwn, Put
  <2>2. stopped' \intersect Granular \subseteq switches
    BY <2>1 DEF Pauses, PausesKept
  <2> QED
    BY <2>1, <2>2 DEF Pauses, PausesKept, OperatorType, TicksHeed
<1> QED
  BY <1>1, <1>2, <1>3, <1>4, <1>5, <1>6 DEF OutNext, AddFollowUp, LeadOver, HealthChange, SetMode, outVars

\* What an operator paused, a mailbox, a domain or a campaign, rests in every
\* tick that asks for the switches after the answer, until it is resumed or lost
\* to an operator who had read the switches before; for any number of operators
\* at the same time.
THEOREM PausesAreHeeded == OutSpec => PausesHold
<1> DEFINE Rests ==
      \A t \in Tickers, m \in OutMessages, b \in Boxes :
        Gives(t, m, b)
          => {b, DomainOf[b], CampaignOf[m]} \intersect tick[t].rested = {}
<1>1. Pauses /\ [OutNext]_outVars => Pauses'
  BY PausesStep
<1>2. Pauses /\ [OutNext]_outVars => [Rests]_outVars
  <2> SUFFICES ASSUME Pauses, OutNext, NEW t \in Tickers, NEW m \in OutMessages, NEW b \in Boxes,
                      Gives(t, m, b)
               PROVE  {b, DomainOf[b], CampaignOf[m]} \intersect tick[t].rested = {}
    OBVIOUS
  <2>1. /\ tick[t].at = "assign" /\ Head(tick[t].queue).id = m
        /\ [id |-> m, box |-> b] \in tick'[t].given \ tick[t].given
    BY DEF Gives
  <2>2. TickShape(tick[t]) /\ Heeds(tick[t])
    BY DEF Pauses, TicksHeed
  <2>3. tick'[t] # tick[t]
    BY <2>1
  <2>4. TickStep(t)
    <3>1. PICK u \in Tickers : TickStep(u)
      <4>1. ASSUME NEW l \in OutLeads, CancelFollowUps(l) PROVE tick'[t].given = tick[t].given
        <5>1. \/ tick'[t] = tick[t]
              \/ \E c : tick'[t] = [tick[t] EXCEPT !.cut = c]
          BY <4>1 DEF CancelFollowUps
        <5>2. ASSUME NEW c, tick'[t] = [tick[t] EXCEPT !.cut = c]
              PROVE  tick'[t].given = tick[t].given
          BY <2>2, <5>2 DEF TickShape
        <5> QED
          BY <5>1, <5>2
      <4> QED
        BY <2>1, <2>3, <4>1 DEF OutNext, AddFollowUp, LeadOver, HealthChange, PauseRead,
           PauseWrite, PauseOwn, SetMode
    <3> QED
      BY <2>3, <3>1, TickKeeps
  <2>5. Assign(t, b)
    BY <2>4, TickKeeps
  <2>6. /\ b \notin tick[t].stops /\ DomainOf[b] \notin tick[t].stops
        /\ CampaignOf[m] \notin tick[t].stops
    BY <2>1, <2>5 DEF Assign, Stopped, IsPaused
  <2>7. {b, DomainOf[b], CampaignOf[m]} \subseteq Granular
    BY DEF Granular, Domains, Campaigns
  <2> QED
    BY <2>1, <2>2, <2>6, <2>7 DEF Heeds
<1> QED
  BY <1>1, <1>2, PausesInit, PTL DEF OutSpec, PausesHold

-----------------------------------------------------------------------------
(* What the outbound scheduler gives out, and what is cancelled under it    *)

QueueRows == [id : OutMessages, box : Boxes \union {NoBox}]
Gifts == [id : OutMessages, box : Boxes]

TickType ==
  [at : {"off", "capacity", "fetched", "assign"}, eff : [Boxes -> Nat], room : [Boxes -> Nat],
   domRoom : [Domains -> Nat], queue : Seq(QueueRows), stops : SUBSET Targets, shadow : BOOLEAN,
   rested : SUBSET Targets, cut : SUBSET OutMessages, given : SUBSET Gifts]

OutTypes == OutTypeOK /\ OperatorType /\ tick \in [Tickers -> TickType]

\* What a tick has given, and what it has left to give, is within what it found.
Budgeted(x) ==
  /\ IsFiniteSet(x.given)
  /\ \A b \in Boxes : GivenTo(x.given, b) + x.room[b] <= Less(x.eff[b], SentToday[b])
  /\ \A d \in Domains : GivenIn(x.given, d) + x.domRoom[d] <= Less(DomainCap[d], SentFrom(d))

\* A tick that still holds a cancelled message has been told.
CutTold(t) ==
  \A i \in DOMAIN tick[t].queue :
    msg[tick[t].queue[i].id].status = "cancelled" => tick[t].queue[i].id \in tick[t].cut

Dispatch == OutTypes /\ \A t \in Tickers : Budgeted(tick[t]) /\ CutTold(t)

LEMMA LessNat ==
  ASSUME NEW m \in Nat, NEW n \in Nat
  PROVE  Less(m, n) \in Nat /\ (m > 0 => Less(m, 1) = m - 1)
  BY DEF Less

\* A product of two numbers is one.
LEMMA ProductNat == ASSUME NEW m \in Nat, NEW n \in Nat PROVE m * n \in Nat
  OBVIOUS

LEMMA RoundNat == ASSUME NEW n \in Nat PROVE RoundDiv(n, 100) \in Nat
<1>1. n \div 100 \in Nat
  OBVIOUS
<1> QED
  BY <1>1 DEF RoundDiv

LEMMA EffectiveNat == OutTypes => \A b \in Boxes : Effective(b) \in Nat
<1> SUFFICES ASSUME OutTypes, NEW b \in Boxes PROVE Effective(b) \in Nat
  OBVIOUS
<1>1. health[b] \in Health /\ DailyLimit[b] \in Nat
  BY SchedulerAssumption DEF OutTypes, OutTypeOK
<1>2. HEALTH_MULTIPLIER[health[b]] \in Nat
  BY <1>1 DEF Health, HEALTH_MULTIPLIER
<1>3. DailyLimit[b] * HEALTH_MULTIPLIER[health[b]] \in Nat
  BY <1>1, <1>2
<1> QED
  BY <1>3, RoundNat DEF Effective

LEMMA MessagesFinite == IsFiniteSet(OutMessages)
<1>1. ByPriority \in Seq(OutMessages) /\ \A m \in OutMessages : \E i \in DOMAIN ByPriority : ByPriority[i] = m
  BY SchedulerAssumption DEF OutMessages, ToSet
<1>2. Len(ByPriority) \in Nat /\ DOMAIN ByPriority = 1..Len(ByPriority)
  BY <1>1
<1>3. ByPriority \in [1..Len(ByPriority) -> OutMessages]
  BY <1>1, <1>2
<1>4. ByPriority \in Surjection(1..Len(ByPriority), OutMessages)
  BY <1>1, <1>2, <1>3 DEF Surjection
<1>5. IsFiniteSet(1..Len(ByPriority))
  BY <1>2, FS_Interval
<1> QED
  BY <1>4, <1>5, FS_Surjection

LEMMA SentNat == ASSUME NEW d PROVE SentFrom(d) \in Nat
<1> DEFINE B == {c \in Boxes : DomainOf[c] = d}
           f == [b \in B |-> {b} \X (1..SentToday[b])]
           F == {{b} \X (1..SentToday[b]) : b \in B}
<1>1. IsFiniteSet(B)
  BY SchedulerAssumption, FS_Subset
<1>2. IsFiniteSet(F)
  <2>1. f \in Surjection(B, F)
    BY DEF Surjection
  <2> QED
    BY <1>1, <2>1, FS_Surjection
<1>3. \A T \in F : IsFiniteSet(T)
  <2> SUFFICES ASSUME NEW b \in B PROVE IsFiniteSet({b} \X (1..SentToday[b]))
    OBVIOUS
  <2>1. IsFiniteSet(1..SentToday[b])
    BY SchedulerAssumption, FS_Interval
  <2> QED
    BY <2>1, FS_Singleton, FS_Product
<1>4. IsFiniteSet(UNION F)
  BY <1>2, <1>3, FS_UNION
<1> QED
  BY <1>4, FS_CardinalityType DEF SentFrom

\* A part of a queue comes from the queue.
LEMMA TakeOf ==
  ASSUME NEW S, NEW q \in Seq(S), NEW n \in Nat
  PROVE  Take(q, n) \in Seq(S)
<1> DEFINE k == IF Len(q) < n THEN Len(q) ELSE n
<1>1. k \in 0..Len(q)
  OBVIOUS
<1>2. SubSeq(q, 1, k) \in Seq(S)
  BY <1>1
<1> QED
  BY <1>2 DEF Take

\* The allocation brings in no message.
LEMMA AllowedOf ==
  ASSUME NEW S \in SUBSET OutMessages,
         NEW new \in QueueOrders(S \ FollowUps), NEW old \in QueueOrders(S \intersect FollowUps)
  PROVE  Allowed(Cardinality(S), new, old) \in Seq(S)
<1> DEFINE n == Cardinality(S)
<1>1. n \in Nat /\ \A T \in SUBSET S : Cardinality(T) \in Nat
  BY MessagesFinite, FS_Subset, FS_CardinalityType
<1>2. ASSUME NEW T \in SUBSET S, NEW p \in QueueOrders(T) PROVE p \in Seq(S)
  <2>1. p \in [1..Cardinality(T) -> S] /\ Cardinality(T) \in Nat
    BY <1>1, <1>2 DEF QueueOrders
  <2> QED
    BY <2>1
<1>3. new \in Seq(S) /\ old \in Seq(S)
  BY <1>2
<1>4. RoundDiv(n * NewPct, 100) \in Nat /\ RoundDiv(n * FollowPct, 100) \in Nat
  <2>1. NewPct \in Nat /\ FollowPct \in Nat
    BY SchedulerAssumption
  <2>2. n * NewPct \in Nat /\ n * FollowPct \in Nat
    BY <1>1, <2>1, ProductNat
  <2> QED
    BY <2>2, RoundNat
<1> HIDE DEF n
<1>5. /\ Larger(MinNew, RoundDiv(n * NewPct, 100)) \in Nat
      /\ Larger(1, RoundDiv(n * FollowPct, 100)) \in Nat
  BY <1>4, SchedulerAssumption DEF Larger
<1>6. /\ Take(new, Larger(MinNew, RoundDiv(n * NewPct, 100))) \in Seq(S)
      /\ Take(old, Larger(1, RoundDiv(n * FollowPct, 100))) \in Seq(S)
  BY <1>3, <1>5, TakeOf
<1> QED
  BY <1>6 DEF Allowed, n

\* One more given to a mailbox counts for that mailbox and its domain.
LEMMA GivenGrows ==
  ASSUME NEW G, IsFiniteSet(G), NEW p
  PROVE  /\ IsFiniteSet(G \union {p})
         /\ \A b : /\ GivenTo(G, b) \in Nat
                   /\ GivenTo(G \union {p}, b) <= GivenTo(G, b) + 1
                   /\ p.box # b => GivenTo(G \union {p}, b) = GivenTo(G, b)
         /\ \A d : /\ GivenIn(G, d) \in Nat
                   /\ GivenIn(G \union {p}, d) <= GivenIn(G, d) + 1
                   /\ DomainOf[p.box] # d => GivenIn(G \union {p}, d) = GivenIn(G, d)
<1>1. IsFiniteSet(G \union {p})
  BY FS_AddElement
<1>2. ASSUME NEW A \in SUBSET G
      PROVE  /\ Cardinality(A) \in Nat
             /\ Cardinality(A \union {p}) \in Nat
             /\ Cardinality(A \union {p}) <= Cardinality(A) + 1
  <2>1. IsFiniteSet(A)
    BY FS_Subset
  <2>2. Cardinality(A) \in Nat
    BY <2>1, FS_CardinalityType
  <2> QED
    BY <2>1, <2>2, FS_AddElement
<1>3. ASSUME NEW b
      PROVE  /\ GivenTo(G, b) \in Nat
             /\ GivenTo(G \union {p}, b) <= GivenTo(G, b) + 1
             /\ p.box # b => GivenTo(G \union {p}, b) = GivenTo(G, b)
  <2> DEFINE A == {g \in G : g.box = b}
             C == {g \in G \union {p} : g.box = b}
  <2>1. C = A \/ C = A \union {p}
    OBVIOUS
  <2>2. p.box # b => C = A
    OBVIOUS
  <2>3. /\ Cardinality(A) \in Nat /\ Cardinality(A \union {p}) \in Nat
        /\ Cardinality(A \union {p}) <= Cardinality(A) + 1
    BY <1>2
  <2>4. GivenTo(G, b) = Cardinality(A) /\ GivenTo(G \union {p}, b) = Cardinality(C)
    BY DEF GivenTo
  <2> DEFINE D == A \union {p}
  <2> HIDE DEF A, C, D
  <2>5. Cardinality(C) \in Nat /\ Cardinality(C) <= Cardinality(A) + 1
    <3>1. Cardinality(C) = Cardinality(A) \/ Cardinality(C) = Cardinality(D)
      BY <2>1, Zenon DEF D
    <3> QED
      BY <2>3, <3>1 DEF D
  <2>6. GivenTo(G, b) = Cardinality(A) /\ GivenTo(G \union {p}, b) = Cardinality(C)
    BY <2>4
  <2>7. p.box # b => Cardinality(C) = Cardinality(A)
    BY <2>2, Zenon
  <2> QED
    BY <2>3, <2>5, <2>6, <2>7
<1>4. ASSUME NEW d
      PROVE  /\ GivenIn(G, d) \in Nat
             /\ GivenIn(G \union {p}, d) <= GivenIn(G, d) + 1
             /\ DomainOf[p.box] # d => GivenIn(G \union {p}, d) = GivenIn(G, d)
  <2> DEFINE A == {g \in G : DomainOf[g.box] = d}
             C == {g \in G \union {p} : DomainOf[g.box] = d}
  <2>1. C = A \/ C = A \union {p}
    OBVIOUS
  <2>2. DomainOf[p.box] # d => C = A
    OBVIOUS
  <2>3. /\ Cardinality(A) \in Nat /\ Cardinality(A \union {p}) \in Nat
        /\ Cardinality(A \union {p}) <= Cardinality(A) + 1
    BY <1>2
  <2>4. GivenIn(G, d) = Cardinality(A) /\ GivenIn(G \union {p}, d) = Cardinality(C)
    BY DEF GivenIn
  <2> DEFINE D == A \union {p}
  <2> HIDE DEF A, C, D
  <2>5. Cardinality(C) \in Nat /\ Cardinality(C) <= Cardinality(A) + 1
    <3>1. Cardinality(C) = Cardinality(A) \/ Cardinality(C) = Cardinality(D)
      BY <2>1, Zenon DEF D
    <3> QED
      BY <2>3, <3>1 DEF D
  <2>6. GivenIn(G, d) = Cardinality(A) /\ GivenIn(G \union {p}, d) = Cardinality(C)
    BY <2>4
  <2>7. DomainOf[p.box] # d => Cardinality(C) = Cardinality(A)
    BY <2>2, Zenon
  <2> QED
    BY <2>3, <2>5, <2>6, <2>7
<1> QED
  BY <1>1, <1>3, <1>4

LEMMA OffTyped ==
  /\ Off \in TickType /\ Off.queue = <<>>
  /\ (\A d : SentFrom(d) \in Nat) => Budgeted(Off)
<1>1. Off \in TickType /\ Off.queue = <<>>
  BY DEF Off, TickType
<1>2. ASSUME \A d : SentFrom(d) \in Nat PROVE Budgeted(Off)
  <2>1. /\ Off.given = {} /\ Off.room = [b \in Boxes |-> 0] /\ Off.eff = [b \in Boxes |-> 0]
        /\ Off.domRoom = [d \in Domains |-> 0]
    BY DEF Off
  <2>2. \A b, d : GivenTo({}, b) = 0 /\ GivenIn({}, d) = 0
    BY FS_EmptySet DEF GivenTo, GivenIn
  <2>3. \A b \in Boxes : Less(0, SentToday[b]) \in Nat
    BY LessNat, SchedulerAssumption
  <2>4. \A d \in Domains : Less(DomainCap[d], SentFrom(d)) \in Nat
    BY <1>2, LessNat, SchedulerAssumption
  <2> QED
    BY <2>1, <2>2, <2>3, <2>4, FS_EmptySet DEF Budgeted
<1> QED
  BY <1>1, <1>2

\* A tick that charges a mailbox stays within what it found.
LEMMA ChargeTyped ==
  ASSUME NEW x \in TickType, Budgeted(x), NEW b \in Boxes, x.queue # <<>>,
         x.room[b] > 0, x.domRoom[DomainOf[b]] > 0
  PROVE  Charge(x, b) \in TickType /\ Budgeted(Charge(x, b))
<1> DEFINE p == [id |-> Head(x.queue).id, box |-> b]
           d == DomainOf[b]
           y == Charge(x, b)
<1>1. d \in Domains /\ Head(x.queue) \in QueueRows /\ Tail(x.queue) \in Seq(QueueRows)
  BY DEF Domains, TickType
<1>2. p \in Gifts /\ p.box = b
  BY <1>1 DEF QueueRows, Gifts
<1>3. x.room[b] \in Nat /\ x.domRoom[d] \in Nat
  BY <1>1 DEF TickType
<1>4. /\ Less(x.room[b], 1) = x.room[b] - 1 /\ Less(x.room[b], 1) \in Nat
      /\ Less(x.domRoom[d], 1) = x.domRoom[d] - 1 /\ Less(x.domRoom[d], 1) \in Nat
  BY <1>3, LessNat
<1> HIDE DEF p, d
<1>5. /\ y.eff = x.eff /\ y.given = x.given \union {p}
      /\ y.room = [x.room EXCEPT ![b] = Less(x.room[b], 1)]
      /\ y.domRoom = [x.domRoom EXCEPT ![d] = Less(x.domRoom[d], 1)]
  BY DEF Charge, TickType, p, d
<1>6. y \in TickType
  <2>1. /\ y.room \in [Boxes -> Nat] /\ y.domRoom \in [Domains -> Nat] /\ y.given \subseteq Gifts
    BY <1>1, <1>2, <1>4, <1>5 DEF TickType
  <2>2. y = [x EXCEPT !.queue = Tail(x.queue), !.room = y.room, !.domRoom = y.domRoom, !.given = y.given]
    BY <1>5 DEF Charge, TickType, p, d
  <2> HIDE DEF y
  <2> QED
    BY <1>1, <2>1, <2>2 DEF TickType
<1> HIDE DEF y
<1>7. IsFiniteSet(x.given)
  BY DEF Budgeted
<1>8. ASSUME NEW c \in Boxes
      PROVE  GivenTo(y.given, c) + y.room[c] <= Less(y.eff[c], SentToday[c])
  <2>1. /\ GivenTo(x.given, c) + x.room[c] <= Less(x.eff[c], SentToday[c])
        /\ x.room[c] \in Nat /\ Less(x.eff[c], SentToday[c]) \in Nat
    BY LessNat, SchedulerAssumption DEF Budgeted, TickType
  <2>2. /\ GivenTo(x.given, c) \in Nat /\ GivenTo(y.given, c) \in Nat
        /\ GivenTo(y.given, c) <= GivenTo(x.given, c) + 1
        /\ b # c => GivenTo(y.given, c) = GivenTo(x.given, c)
    <3> DEFINE G == x.given \union {p}
    <3>1. IsFiniteSet(G)
      BY <1>7, GivenGrows
    <3>2. /\ GivenTo(x.given, c) \in Nat /\ GivenTo(G, c) <= GivenTo(x.given, c) + 1
          /\ b # c => GivenTo(G, c) = GivenTo(x.given, c)
      BY <1>2, <1>7, GivenGrows
    <3>3. y.given = G
      BY <1>5
    <3> HIDE DEF G
    <3>4. GivenTo(G, c) \in Nat
      BY <3>1, GivenGrows
    <3> QED
      BY <3>2, <3>3, <3>4, Zenon
  <2>3. y.room[c] = IF c = b THEN x.room[c] - 1 ELSE x.room[c]
    BY <1>4, <1>5 DEF TickType
  <2> QED
    BY <1>5, <2>1, <2>2, <2>3
<1>9. ASSUME NEW c \in Domains
      PROVE  GivenIn(y.given, c) + y.domRoom[c] <= Less(DomainCap[c], SentFrom(c))
  <2>1. /\ GivenIn(x.given, c) + x.domRoom[c] <= Less(DomainCap[c], SentFrom(c))
        /\ x.domRoom[c] \in Nat /\ Less(DomainCap[c], SentFrom(c)) \in Nat
    BY LessNat, SentNat, SchedulerAssumption DEF Budgeted, TickType
  <2>2. /\ GivenIn(x.given, c) \in Nat /\ GivenIn(y.given, c) \in Nat
        /\ GivenIn(y.given, c) <= GivenIn(x.given, c) + 1
        /\ d # c => GivenIn(y.given, c) = GivenIn(x.given, c)
    <3> DEFINE G == x.given \union {p}
    <3>1. IsFiniteSet(G)
      BY <1>7, GivenGrows
    <3>2. /\ GivenIn(x.given, c) \in Nat /\ GivenIn(G, c) <= GivenIn(x.given, c) + 1
          /\ d # c => GivenIn(G, c) = GivenIn(x.given, c)
      BY <1>2, <1>7, GivenGrows DEF d
    <3>3. y.given = G
      BY <1>5
    <3> HIDE DEF G
    <3>4. GivenIn(G, c) \in Nat
      BY <3>1, GivenGrows
    <3> QED
      BY <3>2, <3>3, <3>4, Zenon
  <2>3. y.domRoom[c] = IF c = d THEN x.domRoom[c] - 1 ELSE x.domRoom[c]
    BY <1>1, <1>4, <1>5 DEF TickType
  <2> QED
    BY <1>5, <2>1, <2>2, <2>3
<1>10. IsFiniteSet(y.given)
  <2>1. IsFiniteSet(x.given \union {p})
    BY <1>7, GivenGrows
  <2> QED
    BY <1>5, <2>1, Zenon
<1> QED
  BY <1>6, <1>8, <1>9, <1>10 DEF Budgeted, y

MsgType == [status : {"absent", "queued", "scheduled", "claimed", "cancelled"},
            box : Boxes \union {NoBox}, shadow : BOOLEAN]

LEMMA DispatchInit == OutInit => Dispatch
<1> SUFFICES ASSUME OutInit PROVE Dispatch
  OBVIOUS
<1>1. msg \in [OutMessages -> MsgType]
  BY DEF OutInit, MsgType
<1>2. health \in [Boxes -> Health]
  BY DEF OutInit, Health, HEALTH_MULTIPLIER
<1>3. tick \in [Tickers -> TickType] /\ \A t \in Tickers : tick[t] = Off
  BY OffTyped DEF OutInit
<1>4. OperatorType
  BY DEF OutInit, OperatorType, OperatorRecord, NotPausing
<1>5. OutTypeOK
  BY <1>1, <1>2, <1>3, <1>4 DEF OutInit, OutTypeOK, MsgType, OperatorType, OperatorRecord, NotPausing, Off
<1>6. \A t \in Tickers : Budgeted(tick[t]) /\ CutTold(t)
  BY <1>3, OffTyped, SentNat DEF CutTold
<1> QED
  BY <1>3, <1>4, <1>5, <1>6 DEF Dispatch, OutTypes

LEMMA EntryMessage ==
  ASSUME NEW q \in Seq(QueueRows), NEW i \in DOMAIN q
  PROVE  q[i].id \in OutMessages
<1>1. q[i] \in QueueRows
  OBVIOUS
<1> QED
  BY <1>1 DEF QueueRows

\* The one step of a tick.
LEMMA TickOnly ==
  ASSUME Dispatch, NEW t \in Tickers, NEW x \in TickType, Budgeted(x),
         tick' = [tick EXCEPT ![t] = x],
         msg' \in [OutMessages -> MsgType],
         \A m \in OutMessages : msg'[m].status = "cancelled" => msg[m].status = "cancelled",
         \A i \in DOMAIN x.queue :
           msg'[x.queue[i].id].status = "cancelled" => x.queue[i].id \in x.cut,
         UNCHANGED <<health, over, switches, own, modes, operator, stopped>>
  PROVE  Dispatch'
<1>1. /\ tick \in [Tickers -> TickType] /\ OutTypeOK /\ OperatorType
      /\ \A u \in Tickers : Budgeted(tick[u]) /\ CutTold(u)
  BY DEF Dispatch, OutTypes
<1>2. /\ tick' \in [Tickers -> TickType] /\ tick'[t] = x
      /\ \A u \in Tickers \ {t} : tick'[u] = tick[u]
  BY <1>1
<1>3. \A u \in Tickers : tick'[u].at \in {"off", "capacity", "fetched", "assign"}
  BY <1>2 DEF TickType
<1>4. OutTypeOK' /\ OperatorType'
  BY <1>1, <1>3 DEF OutTypeOK, OperatorType, MsgType
<1>5. \A u \in Tickers : Budgeted(tick'[u])
  BY <1>1, <1>2
<1>6. ASSUME NEW u \in Tickers PROVE CutTold(u)'
  <2>1. CASE u = t
    BY <1>2, <2>1 DEF CutTold
  <2>2. CASE u # t
    <3>1. tick'[u] = tick[u] /\ CutTold(u) /\ tick[u] \in TickType
      BY <1>1, <1>2, <2>2
    <3>2. \A i \in DOMAIN tick[u].queue : tick[u].queue[i].id \in OutMessages
      <4>1. tick[u].queue \in Seq(QueueRows)
        BY <3>1 DEF TickType
      <4> QED
        BY <4>1, EntryMessage
    <3> QED
      BY <3>1, <3>2 DEF CutTold
  <2> QED
    BY <2>1, <2>2
<1> QED
  BY <1>2, <1>4, <1>5, <1>6 DEF Dispatch, OutTypes, Budgeted

\* The rest of a tick's queue.
LEMMA QueueLeft ==
  ASSUME NEW q \in Seq(QueueRows), q # <<>>
  PROVE  /\ Tail(q) \in Seq(QueueRows) /\ Head(q) \in QueueRows
         /\ Head(q) = q[1] /\ 1 \in DOMAIN q
         /\ \A i \in DOMAIN Tail(q) : i + 1 \in DOMAIN q /\ Tail(q)[i] = q[i + 1]
  OBVIOUS

LEMMA DispatchTick ==
  ASSUME Dispatch, NEW t \in Tickers, TickStep(t)
  PROVE  Dispatch'
<1>0. /\ tick \in [Tickers -> TickType] /\ tick[t] \in TickType /\ Budgeted(tick[t]) /\ CutTold(t)
      /\ msg \in [OutMessages -> MsgType] /\ OutTypes
  BY DEF Dispatch, OutTypes, OutTypeOK, MsgType
<1>1. CASE Capacity(t)
  <2> DEFINE eff == [b \in Boxes |-> Effective(b)]
             room == [b \in Boxes |-> Less(Effective(b), SentToday[b])]
             domRoom == [d \in Domains |-> Less(DomainCap[d], SentFrom(d))]
             x == [Off EXCEPT !.at = "capacity", !.eff = eff, !.room = room, !.domRoom = domRoom]
  <2>1. eff \in [Boxes -> Nat] /\ room \in [Boxes -> Nat] /\ domRoom \in [Domains -> Nat]
    <3>1. eff \in [Boxes -> Nat]
      BY <1>0, EffectiveNat
    <3>2. room \in [Boxes -> Nat]
      BY <1>0, EffectiveNat, LessNat, SchedulerAssumption
    <3>3. domRoom \in [Domains -> Nat]
      BY SentNat, LessNat, SchedulerAssumption
    <3> QED
      BY <3>1, <3>2, <3>3
  <2>2. \A b \in Boxes : room[b] = Less(eff[b], SentToday[b])
    OBVIOUS
  <2>3. \A d \in Domains : domRoom[d] = Less(DomainCap[d], SentFrom(d))
    OBVIOUS
  <2>4. tick' = [tick EXCEPT ![t] = x] /\ msg' = msg
        /\ UNCHANGED <<health, over, switches, own, modes, operator, stopped>>
    BY <1>1 DEF Capacity
  <2> HIDE DEF eff, room, domRoom
  <2>5. /\ x \in TickType /\ x.queue = <<>> /\ x.given = {}
        /\ x.eff = eff /\ x.room = room /\ x.domRoom = domRoom
    <3>1. Off \in TickType /\ Off.queue = <<>> /\ Off.given = {}
      BY OffTyped DEF Off
    <3> HIDE DEF Off
    <3>2. x.queue = Off.queue /\ x.given = Off.given
      BY <3>1 DEF TickType
    <3>3. x.eff = eff /\ x.room = room /\ x.domRoom = domRoom
      BY <3>1 DEF TickType
    <3>4. x \in TickType
      BY <2>1, <3>1 DEF TickType
    <3> QED
      BY <3>1, <3>2, <3>3, <3>4
  <2>6. \A b, d : GivenTo({}, b) = 0 /\ GivenIn({}, d) = 0
    BY FS_EmptySet DEF GivenTo, GivenIn
  <2> HIDE DEF x
  <2>7. Budgeted(x)
    <3>1. \A b \in Boxes : GivenTo(x.given, b) + x.room[b] <= Less(x.eff[b], SentToday[b])
      BY <2>1, <2>2, <2>5, <2>6
    <3>2. \A d \in Domains : GivenIn(x.given, d) + x.domRoom[d] <= Less(DomainCap[d], SentFrom(d))
      BY <2>1, <2>3, <2>5, <2>6
    <3> QED
      BY <2>5, <3>1, <3>2, FS_EmptySet DEF Budgeted
  <2>8. DOMAIN x.queue = {}
    BY <2>5
  <2> QED
    BY <1>0, <2>4, <2>5, <2>7, <2>8, TickOnly
<1>2. CASE Fetch(t)
  <2> DEFINE found == {m \in OutMessages : Eligible(m)}
  <2>1. PICK new \in QueueOrders(found \ FollowUps), old \in QueueOrders(found \intersect FollowUps) :
          LET queue == Allowed(Cardinality(found), new, old)
          IN  tick' = [tick EXCEPT ![t].at = "fetched",
                                   ![t].queue = [i \in DOMAIN queue |-> Row(queue[i])]]
    BY <1>2 DEF Fetch
  <2> DEFINE queue == Allowed(Cardinality(found), new, old)
             rows == [i \in DOMAIN queue |-> Row(queue[i])]
             x == [tick[t] EXCEPT !.at = "fetched", !.queue = rows]
  <2>2. queue \in Seq(found)
    BY AllowedOf
  <2>3. msg' = msg /\ UNCHANGED <<health, over, switches, own, modes, operator, stopped>>
    BY <1>2 DEF Fetch
  <2>4. tick' = [tick EXCEPT ![t] = x]
    BY <1>0, <2>1
  <2> HIDE DEF queue
  <2>5. \A m \in found : m \in OutMessages /\ Row(m) \in QueueRows /\ Row(m).id = m /\ msg[m].status # "cancelled"
    BY <1>0 DEF Row, QueueRows, MsgType, Eligible
  <2>6. /\ rows \in Seq(QueueRows)
        /\ \A i \in DOMAIN rows : msg[rows[i].id].status # "cancelled"
    <3>1. Len(queue) \in Nat /\ DOMAIN queue = 1..Len(queue) /\ \A i \in DOMAIN queue : queue[i] \in found
      BY <2>2
    <3>2. rows \in [1..Len(queue) -> QueueRows]
      BY <2>5, <3>1
    <3> QED
      BY <2>5, <3>1, <3>2
  <2> HIDE DEF rows, found
  <2>7. /\ x \in TickType /\ x.queue = rows
        /\ x.given = tick[t].given /\ x.eff = tick[t].eff /\ x.room = tick[t].room
        /\ x.domRoom = tick[t].domRoom
    BY <1>0, <2>6 DEF TickType
  <2> HIDE DEF x
  <2>8. Budgeted(x)
    BY <1>0, <2>7, Zenon DEF Budgeted
  <2> QED
    BY <1>0, <2>3, <2>4, <2>6, <2>7, <2>8, TickOnly
<1>3. CASE Switches(t)
  <2> DEFINE w == "shadow" \in modes
             x == [tick[t] EXCEPT !.at = "assign", !.stops = switches,
                                  !.shadow = w, !.rested = stopped]
  <2>1. /\ tick' = [tick EXCEPT ![t] = x] /\ msg' = msg
        /\ UNCHANGED <<health, over, switches, own, modes, operator, stopped>>
    BY <1>0, <1>3 DEF Switches
  <2>2. switches \subseteq Targets /\ stopped \subseteq Targets
    BY <1>0 DEF OutTypes, OutTypeOK
  <2>3. /\ x \in TickType /\ x.queue = tick[t].queue /\ x.cut = tick[t].cut
        /\ x.given = tick[t].given /\ x.eff = tick[t].eff /\ x.room = tick[t].room
        /\ x.domRoom = tick[t].domRoom
    <3>1. w \in BOOLEAN
      OBVIOUS
    <3> HIDE DEF w
    <3>2. x \in TickType
      BY <1>0, <2>2, <3>1 DEF TickType
    <3> QED
      BY <1>0, <3>2 DEF TickType
  <2> HIDE DEF x
  <2>4. Budgeted(x)
    BY <1>0, <2>3, Zenon DEF Budgeted
  <2>5. \A i \in DOMAIN x.queue :
          msg'[x.queue[i].id].status = "cancelled" => x.queue[i].id \in x.cut
    BY <1>0, <2>1, <2>3 DEF CutTold
  <2> QED
    BY <1>0, <2>1, <2>3, <2>4, <2>5, TickOnly
<1>4. ASSUME tick' = Pop(t), tick[t].queue # <<>>, msg' \in [OutMessages -> MsgType],
             \A m \in OutMessages : msg'[m].status = "cancelled" => msg[m].status = "cancelled",
             UNCHANGED <<health, over, switches, own, modes, operator, stopped>>
      PROVE  Dispatch'
  <2> DEFINE x == [tick[t] EXCEPT !.queue = Tail(tick[t].queue)]
  <2>1. tick' = [tick EXCEPT ![t] = x]
    BY <1>0, <1>4 DEF Pop
  <2>2. tick[t].queue \in Seq(QueueRows)
    BY <1>0 DEF TickType
  <2>3. Tail(tick[t].queue) \in Seq(QueueRows)
    BY <1>4, <2>2, QueueLeft
  <2>4. /\ x \in TickType /\ x.queue = Tail(tick[t].queue) /\ x.cut = tick[t].cut
        /\ x.given = tick[t].given /\ x.eff = tick[t].eff /\ x.room = tick[t].room
        /\ x.domRoom = tick[t].domRoom
    BY <1>0, <2>3 DEF TickType
  <2> HIDE DEF x
  <2>5. Budgeted(x)
    BY <1>0, <2>4, Zenon DEF Budgeted
  <2>6. ASSUME NEW i \in DOMAIN x.queue, msg'[x.queue[i].id].status = "cancelled"
        PROVE  x.queue[i].id \in x.cut
    <3>1. i + 1 \in DOMAIN tick[t].queue /\ x.queue[i] = tick[t].queue[i + 1]
      BY <1>4, <2>2, <2>4, <2>6, QueueLeft
    <3>2. x.queue[i].id \in OutMessages
      BY <2>2, <3>1, EntryMessage
    <3> QED
      BY <1>0, <1>4, <2>4, <2>6, <3>1, <3>2 DEF CutTold
  <2> QED
    BY <1>4, <2>1, <2>4, <2>5, <2>6, TickOnly
<1>5. CASE Defer(t)
  BY <1>0, <1>4, <1>5 DEF Defer
<1>6. ASSUME tick' = [tick EXCEPT ![t] = Off], msg' = msg,
             UNCHANGED <<health, over, switches, own, modes, operator, stopped>>
      PROVE  Dispatch'
  <2>1. Off \in TickType /\ Budgeted(Off) /\ Off.queue = <<>>
    BY OffTyped, SentNat
  <2>2. DOMAIN Off.queue = {}
    BY <2>1
  <2> HIDE DEF Off
  <2> QED
    BY <1>0, <1>6, <2>1, <2>2, TickOnly
<1>7. CASE Finish(t)
  BY <1>6, <1>7 DEF Finish
<1>8. ASSUME NEW b \in Boxes, Assign(t, b) PROVE Dispatch'
  <2> DEFINE e == Head(tick[t].queue)
  <2>1. /\ tick[t].queue \in Seq(QueueRows) /\ tick[t].queue # <<>> /\ b \in Best(t)
        /\ UNCHANGED <<health, over, switches, own, modes, operator, stopped>>
    BY <1>0, <1>8 DEF Assign, TickType
  <2>2. e \in QueueRows /\ e.id \in OutMessages
    BY <2>1, QueueLeft DEF QueueRows
  <2> HIDE DEF e
  <2>3. CASE /\ msg' = [msg EXCEPT ![e.id] = [status |-> "claimed", box |-> b, shadow |-> TRUE]]
             /\ tick' = Pop(t)
    <3>1. msg' \in [OutMessages -> MsgType]
      BY <1>0, <2>2, <2>3 DEF MsgType
    <3>2. \A m \in OutMessages : msg'[m].status = "cancelled" => msg[m].status = "cancelled"
      BY <1>0, <2>2, <2>3
    <3> QED
      BY <1>4, <2>1, <2>3, <3>1, <3>2
  <2>4. CASE tick' = [tick EXCEPT ![t] = Off] /\ UNCHANGED msg
    BY <1>6, <2>1, <2>4
  <2>5. CASE /\ msg' = [msg EXCEPT ![e.id].status = "scheduled", ![e.id].box = b]
             /\ tick' = [tick EXCEPT ![t] = Charge(tick[t], b)]
    <3> DEFINE n == [msg[e.id] EXCEPT !.status = "scheduled", !.box = b]
               y == Charge(tick[t], b)
    <3>1. n \in MsgType /\ n.status = "scheduled"
      BY <1>0, <2>2 DEF MsgType
    <3>2. msg' = [msg EXCEPT ![e.id] = n]
      BY <1>0, <2>2, <2>5
    <3> HIDE DEF n
    <3>3. msg' \in [OutMessages -> MsgType]
      BY <1>0, <2>2, <3>1, <3>2
    <3>4. \A m \in OutMessages : msg'[m].status = "cancelled" => msg[m].status = "cancelled"
      BY <1>0, <2>2, <3>1, <3>2
    <3>5. tick[t].room[b] > 0 /\ tick[t].domRoom[DomainOf[b]] > 0
      BY <2>1 DEF Best, Candidates
    <3>6. y \in TickType /\ Budgeted(y)
      BY <1>0, <2>1, <3>5, ChargeTyped
    <3>7. y.queue = Tail(tick[t].queue) /\ y.cut = tick[t].cut
      BY <1>0 DEF Charge, TickType
    <3> HIDE DEF y
    <3>8. ASSUME NEW i \in DOMAIN y.queue, msg'[y.queue[i].id].status = "cancelled"
          PROVE  y.queue[i].id \in y.cut
      <4>1. i + 1 \in DOMAIN tick[t].queue /\ y.queue[i] = tick[t].queue[i + 1]
        BY <2>1, <3>7, <3>8, QueueLeft
      <4>2. y.queue[i].id \in OutMessages
        BY <2>1, <4>1, EntryMessage
      <4> QED
        BY <1>0, <3>4, <3>7, <3>8, <4>1, <4>2 DEF CutTold
    <3>9. tick' = [tick EXCEPT ![t] = y]
      BY <2>5 DEF y
    <3> QED
      BY <2>1, <3>3, <3>4, <3>6, <3>8, <3>9, TickOnly
  <2> QED
    BY <1>8, <2>3, <2>4, <2>5 DEF Assign, e
<1> QED
  BY <1>1, <1>2, <1>3, <1>5, <1>7, <1>8 DEF TickStep

LEMMA DispatchStep == Dispatch /\ [OutNext]_outVars => Dispatch'
<1> SUFFICES ASSUME Dispatch, [OutNext]_outVars PROVE Dispatch'
  OBVIOUS
<1>0. /\ tick \in [Tickers -> TickType] /\ msg \in [OutMessages -> MsgType]
      /\ OutTypeOK /\ OperatorType /\ \A t \in Tickers : Budgeted(tick[t]) /\ CutTold(t)
  BY DEF Dispatch, OutTypes, OutTypeOK, MsgType
<1>1. ASSUME NEW t \in Tickers, TickStep(t) PROVE Dispatch'
  BY <1>1, DispatchTick
\* Whoever leaves the ticks alone and cancels nothing.
<1>2. ASSUME UNCHANGED tick, OutTypeOK', OperatorType',
             \A m \in OutMessages : msg'[m].status = "cancelled" => msg[m].status = "cancelled"
      PROVE  Dispatch'
  <2>1. ASSUME NEW t \in Tickers, NEW i \in DOMAIN tick[t].queue
        PROVE  tick[t].queue[i].id \in OutMessages
    <3>1. tick[t].queue \in Seq(QueueRows)
      BY <1>0 DEF TickType
    <3> QED
      BY <2>1, <3>1, EntryMessage
  <2>2. \A t \in Tickers : CutTold(t)'
    BY <1>0, <1>2, <2>1 DEF CutTold
  <2>3. \A t \in Tickers : Budgeted(tick'[t])
    BY <1>0, <1>2
  <2> QED
    BY <1>0, <1>2, <2>2, <2>3 DEF Dispatch, OutTypes
<1>3. ASSUME NEW m \in OutMessages, AddFollowUp(m) PROVE Dispatch'
  <2> DEFINE n == [msg[m] EXCEPT !.status = "queued"]
  <2>1. n \in MsgType /\ n.status = "queued"
    BY <1>0 DEF MsgType
  <2>2. msg' = [msg EXCEPT ![m] = n]
    BY <1>0, <1>3 DEF AddFollowUp
  <2> HIDE DEF n
  <2>3. msg' \in [OutMessages -> MsgType]
    BY <1>0, <2>1, <2>2
  <2>4. OutTypeOK' /\ OperatorType'
    BY <1>0, <1>3, <2>3 DEF AddFollowUp, OutTypeOK, OperatorType, MsgType
  <2>5. \A k \in OutMessages : msg'[k].status = "cancelled" => msg[k].status = "cancelled"
    BY <1>0, <2>1, <2>2
  <2> QED
    BY <1>2, <1>3, <2>4, <2>5 DEF AddFollowUp
<1>4. ASSUME NEW l \in OutLeads, LeadOver(l) PROVE Dispatch'
  BY <1>0, <1>2, <1>4 DEF LeadOver, OutTypeOK, OperatorType
<1>5. ASSUME NEW l \in OutLeads, CancelFollowUps(l) PROVE Dispatch'
  <2> DEFINE hit == {m \in FollowUps : OutLeadOf[m] = l /\ msg[m].status \in {"queued", "scheduled"}}
  <2>1. /\ msg' = [m \in OutMessages |-> IF m \in hit THEN [msg[m] EXCEPT !.status = "cancelled"] ELSE msg[m]]
        /\ tick' = [t \in Tickers |-> IF tick[t].queue = <<>> THEN tick[t]
                                      ELSE [tick[t] EXCEPT !.cut = tick[t].cut \union hit]]
        /\ UNCHANGED <<health, over, switches, own, modes, operator, stopped>>
    BY <1>5 DEF CancelFollowUps
  <2>2. hit \subseteq OutMessages
    BY SchedulerAssumption
  <2> HIDE DEF hit
  <2>3. msg' \in [OutMessages -> MsgType]
    <3>1. \A m \in OutMessages : [msg[m] EXCEPT !.status = "cancelled"] \in MsgType
      BY <1>0 DEF MsgType
    <3> QED
      BY <1>0, <2>1, <3>1
  <2>4. \A m \in OutMessages : m \notin hit => msg'[m] = msg[m]
    BY <2>1
  <2>5. ASSUME NEW t \in Tickers
        PROVE  tick'[t] \in TickType /\ Budgeted(tick'[t]) /\ CutTold(t)'
    <3>1. CASE tick[t].queue = <<>>
      <4>1. tick'[t] = tick[t] /\ DOMAIN tick[t].queue = {}
        BY <2>1, <3>1
      <4> QED
        BY <1>0, <4>1 DEF CutTold
    <3>2. CASE tick[t].queue # <<>>
      <4> DEFINE x == [tick[t] EXCEPT !.cut = tick[t].cut \union hit]
      <4>1. tick'[t] = x
        BY <2>1, <3>2
      <4>2. /\ x \in TickType /\ x.queue = tick[t].queue /\ x.cut = tick[t].cut \union hit
            /\ x.given = tick[t].given /\ x.eff = tick[t].eff /\ x.room = tick[t].room
            /\ x.domRoom = tick[t].domRoom
        BY <1>0, <2>2 DEF TickType
      <4> HIDE DEF x
      <4>3. Budgeted(x)
        BY <1>0, <4>2, Zenon DEF Budgeted
      <4>4. \A i \in DOMAIN tick[t].queue : tick[t].queue[i].id \in OutMessages
        <5>1. tick[t].queue \in Seq(QueueRows)
          BY <1>0 DEF TickType
        <5> QED
          BY <5>1, EntryMessage
      <4>5. \A i \in DOMAIN x.queue :
              msg'[x.queue[i].id].status = "cancelled" => x.queue[i].id \in x.cut
        BY <1>0, <2>4, <4>2, <4>4 DEF CutTold
      <4>6. CutTold(t)'
        BY <4>1, <4>5 DEF CutTold
      <4> QED
        BY <4>1, <4>2, <4>3, <4>6
    <3> QED
      BY <3>1, <3>2
  <2>6. tick' \in [Tickers -> TickType]
    <3>1. DOMAIN tick' = Tickers /\ tick' = [t \in Tickers |-> tick'[t]]
      BY <2>1
    <3> QED
      BY <2>5, <3>1
  <2>7. \A t \in Tickers : tick'[t].at \in {"off", "capacity", "fetched", "assign"}
    BY <2>5 DEF TickType
  <2>8. OutTypeOK' /\ OperatorType'
    BY <1>0, <2>1, <2>3, <2>7 DEF OutTypeOK, OperatorType, MsgType
  <2> QED
    BY <2>5, <2>6, <2>8 DEF Dispatch, OutTypes
<1>6. ASSUME NEW b \in Boxes, NEW h \in HealthSeen, HealthChange(b, h) PROVE Dispatch'
  <2>1. h \in Health
    BY SchedulerAssumption
  <2> QED
    BY <1>0, <1>2, <1>6, <2>1 DEF HealthChange, OutTypeOK, OperatorType
<1>7. ASSUME NEW o \in Operators, PauseWrite(o) PROVE Dispatch'
  <2>1. OperatorType' /\ switches' \subseteq Targets /\ stopped' \subseteq Targets
    BY <1>0, <1>7, WriteTyped DEF OutTypeOK
  <2>2. UNCHANGED <<msg, health, over, own, modes, tick>>
    BY <1>7 DEF PauseWrite
  <2>3. OutTypeOK'
    BY <1>0, <2>1, <2>2 DEF OutTypeOK, OperatorType, OperatorRecord
  <2> QED
    BY <1>2, <2>1, <2>2, <2>3
<1>8. ASSUME NEW o \in Operators, NEW x \in Pausable, NEW on \in BOOLEAN, PauseRead(o, x, on)
      PROVE  Dispatch'
  <2>1. OperatorType' /\ UNCHANGED <<msg, health, over, switches, own, modes, stopped, tick>>
    BY <1>0, <1>8, ReadTyped DEF PauseRead, OutTypeOK
  <2>2. OutTypeOK'
    BY <1>0, <2>1 DEF OutTypeOK, OperatorType, OperatorRecord
  <2> QED
    BY <1>2, <2>1, <2>2
<1>9. ASSUME NEW x \in Pausable, NEW on \in BOOLEAN, PauseOwn(x, on) PROVE Dispatch'
  <2>1. x \in Targets
    BY SchedulerAssumption
  <2>2. OutTypeOK' /\ OperatorType'
    BY <1>0, <1>9, <2>1 DEF PauseOwn, Put, OutTypeOK, OperatorType
  <2> QED
    BY <1>2, <1>9, <2>2 DEF PauseOwn
<1>10. ASSUME NEW x \in ModesUsed, SetMode(x) PROVE Dispatch'
  <2>1. x \in {"shadow", "hybrid"}
    BY SchedulerAssumption
  <2>2. OutTypeOK' /\ OperatorType'
    BY <1>0, <1>10, <2>1 DEF SetMode, OutTypeOK, OperatorType
  <2> QED
    BY <1>2, <1>10, <2>2 DEF SetMode
<1>11. CASE UNCHANGED outVars
  <2>1. OutTypeOK' /\ OperatorType'
    BY <1>0, <1>11 DEF outVars, OutTypeOK, OperatorType
  <2> QED
    BY <1>2, <1>11, <2>1 DEF outVars
<1> QED
  BY <1>1, <1>3, <1>4, <1>5, <1>6, <1>7, <1>8, <1>9, <1>10, <1>11 DEF OutNext

LEMMA DispatchHolds == OutSpec => []Dispatch
  BY DispatchInit, DispatchStep, PTL DEF OutSpec

\* Messages, switches, operators and ticks of the outbound scheduler stay in
\* their domains, for any mailboxes, messages, ticks and operators.
THEOREM OutTypeCorrect == OutSpec => []OutTypeOK
<1>1. Dispatch => OutTypeOK
  BY DEF Dispatch, OutTypes
<1> QED
  BY <1>1, DispatchHolds, PTL

\* No tick schedules more to a mailbox than its limit of the day leaves, nor more
\* to the mailboxes of a domain than the domain's cap leaves, however ticks,
\* operators and changes of health interleave.
THEOREM CapacityHeld == OutSpec => []WithinCapacity
<1>1. Dispatch => WithinCapacity
  <2> SUFFICES ASSUME Dispatch, NEW t \in Tickers
               PROVE  /\ \A b \in Boxes : GivenTo(tick[t].given, b) <= Less(tick[t].eff[b], SentToday[b])
                      /\ \A d \in Domains : GivenIn(tick[t].given, d) <= Less(DomainCap[d], SentFrom(d))
    BY DEF WithinCapacity
  <2>1. tick[t] \in TickType /\ Budgeted(tick[t]) /\ IsFiniteSet(tick[t].given)
    BY DEF Dispatch, OutTypes, Budgeted
  <2>2. /\ \A b \in Boxes : tick[t].room[b] \in Nat /\ tick[t].eff[b] \in Nat
        /\ \A d \in Domains : tick[t].domRoom[d] \in Nat
    BY <2>1 DEF TickType
  <2>3. \A b, d : GivenTo(tick[t].given, b) \in Nat /\ GivenIn(tick[t].given, d) \in Nat
    BY <2>1, GivenGrows
  <2>4. /\ \A b \in Boxes : Less(tick[t].eff[b], SentToday[b]) \in Nat
        /\ \A d \in Domains : Less(DomainCap[d], SentFrom(d)) \in Nat
    BY <2>2, LessNat, SentNat, SchedulerAssumption
  <2> QED
    BY <2>1, <2>2, <2>3, <2>4 DEF Budgeted
<1> QED
  BY <1>1, DispatchHolds, PTL

\* A cancelled follow-up comes back only through a tick that had fetched it before
\* it was cancelled, for any ticks, leads and sequences.
THEOREM CancelledForGood == OutSpec => CancelledStays
<1> DEFINE Stays ==
      \A m \in OutMessages :
        (msg[m].status = "cancelled" /\ msg'[m].status # "cancelled")
          => \E t \in Tickers : /\ tick[t].queue # <<>> /\ Head(tick[t].queue).id = m
                                /\ m \in tick[t].cut
<1>1. Dispatch /\ [OutNext]_outVars => [Stays]_outVars
  <2> SUFFICES ASSUME Dispatch, OutNext, NEW m \in OutMessages,
                      msg[m].status = "cancelled", msg'[m].status # "cancelled"
               PROVE  \E t \in Tickers : /\ tick[t].queue # <<>> /\ Head(tick[t].queue).id = m
                                         /\ m \in tick[t].cut
    OBVIOUS
  <2>1. msg \in [OutMessages -> MsgType] /\ msg' # msg
    BY DEF Dispatch, OutTypes, OutTypeOK, MsgType
  <2>2. ASSUME NEW k \in OutMessages, AddFollowUp(k) PROVE FALSE
    BY <2>1, <2>2 DEF AddFollowUp, MsgType
  <2>3. ASSUME NEW l \in OutLeads, CancelFollowUps(l) PROVE FALSE
    BY <2>1, <2>3 DEF CancelFollowUps, MsgType
  <2>4. PICK t \in Tickers, b \in Boxes : Assign(t, b)
    BY <2>1, <2>2, <2>3 DEF OutNext, TickStep, Capacity, Fetch, Switches, Defer, Finish, LeadOver,
       HealthChange, PauseRead, PauseWrite, PauseOwn, SetMode
  <2>5. tick[t].queue # <<>> /\ tick[t].queue \in Seq(QueueRows) /\ CutTold(t)
    BY <2>4 DEF Assign, Dispatch, OutTypes, TickType
  <2>6. /\ Head(tick[t].queue) = tick[t].queue[1] /\ 1 \in DOMAIN tick[t].queue
        /\ tick[t].queue[1].id \in OutMessages
    BY <2>5, QueueLeft, EntryMessage
  <2>7. Head(tick[t].queue).id = m
    BY <2>1, <2>4, <2>6 DEF Assign
  <2> QED
    BY <2>5, <2>6, <2>7 DEF CutTold
<1> QED
  BY <1>1, DispatchHolds, PTL DEF OutSpec, CancelledStays

=============================================================================
