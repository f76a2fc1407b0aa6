# GTM (Orbit) in TLA+

Specifications of the parts of this repository in which several processes share
rows of one Postgres database, or in which a result depends on data that changes
while it is computed: the outbound email path, the quality gates a draft has to pass
before it, the durable job queue; the leads and the dialer, the outbound scheduler,
intent events, the lead pipeline, the provider waterfalls, research and scoring, and
the start of the application. Paths below are relative to
`src/backend/app/` unless they start with `src/`.

    tlc -workers 2 -config email_safety.cfg MCEmailSend     # one run
    tlc -workers 2 -config parts.cfg MCParts
    tlapm EmailSendProofs.tla                               # one proof module

## 1. The system

Two API processes (uvicorn with two workers) serve the dashboard and n8n over
HTTP. Each also runs the job workers. All durable state is in Postgres; n8n polls
the API and owns SMTP. The processes never talk to each other, so that everything
that can go wrong between them goes wrong in a row of a table: a handler reads a
row in one transaction and writes it in another, or is retried, or dies in
between.

| Component | State | Operations | Hard about it | What makes it correct | Model |
|---|---|---|---|---|---|
| Email path (`services/email_service.py`, `routers/outreach.py`) | `messages`: status, send_attempts, approved_by, idempotency_key, provider_message_id | approve, reject, due, claim, report, kill switch, classify reply | check-then-write in approve, reject and record_failure; claim and report are separate calls | sent at most once, only when approved, within the attempts; served unless blocked; silent after a reply | `EmailSend`, `SendOnce` |
| n8n transport (`src/n8n/workflows/email-transport.json`) | the items of an execution | poll, claim, Send Email, report | retries, lost answers, overlapping executions, an error of SMTP, death between two nodes | as above; no message is stranded | `EmailSend` |
| GTM lifecycle (`services/gtm_lifecycle.py`) | `messages.gtm_stage` | transition_message | compare-and-set between concurrent callers | no authorised stage without copy and compliance QA that passed | `CopyQA` |
| Copy and compliance QA (`services/qa_service.py`, `routers/gtm.py`) | `qa_runs`, the text of the draft | run_copy_qa, run_compliance_qa, resubmit_copy | a verdict is about a text that may have been replaced | the text sent is the text judged and approved; the attempts ceiling; HELD is final | `CopyQA` |
| Job queue (`services/job_queue.py`) | `jobs`, the loops and tasks of a process | enqueue, claim, complete, fail, start, stop | claims of two processes, failing statements, cancelled loops, caps | one runner, attempts, capacities; what is completed stays so once its worker knows; every due job is served by a loop that lives | `JobQueue` |
| Outbound gate, suppression (`services/outbound_gate.py`, `services/suppression.py`) | suppression list, mailbox counters | can_send, add | reads many rows that change while it reads | nothing to a suppressed lead | partly, in `EmailSend`, `CopyQA` and `LeadLine` |
| Lead state machine (`services/state_machine.py`, `routers/leads.py`) | `leads.status` | create, score, transition | an optimistic UPDATE beside one by id (kill switch) | only edges of the table are taken, but for a reply that is overtaken | `LeadLine` |
| Dialer (`services/twilio_service.py`, `routers/dialer.py`) | `calls`, suppression list | place_call, callbacks, dispositions | the list is asked before Twilio is; callbacks late, early, repeated, without a duration; two leads of one company | nobody who declined before the check is dialled; no estimate replaces a reported duration | `LeadLine` |
| Outbound scheduler (`services/scheduler.py`), sequences, mailbox health, control plane | `outbound_messages`, `mailboxes`, flags | tick, pause, resume, follow-ups and their cancellation | ticks work with what they read at their start; flags are read and written back whole | limits; a pause holds unless another operator's write loses it; a cancelled follow-up comes back only through a tick that had fetched it | `OutboundScheduler`, `Scoring` |
| Intent engine, recurring schedule (`services/intent_engine.py`, `agents/scheduler.py`) | `intent_events`, `hiring_signals`, `agent_schedules`, `jobs` | ingest, tick, claim, evaluate | claimed before evaluated; evaluations that raise, loops that end; overlapping ticks; the queue fails | a due time makes one job; an event counts, unless the run that claimed it ended | `IntentEvents`, `Scoring` |
| Pipeline and event outbox (`services/pipeline.py`, `services/events.py`, n8n `lead-intelligence`) | `leads`, `event_outbox`, messages | request, context, apply, emit, review | stages of one lead in different requests, retried, of overlapping runs; nodes that throw; NOTIFY is not kept | a draft's offer answers its pain unless another run came between; an answer that is turned down is seen | `Pipeline` |
| Enrichment and providers (`services/enrichment.py`, `providers/`) | contacts, companies, `provider_usage`, the breakers in memory | verify, enrich, breaker, retries | slow answers about an address that has changed; fixtures that answer instead; counts read and written back | only a judged address is verified, unless it came in meanwhile; each lost count costs one use of the reserve; the breaker half-opens | `Enrichment` |
| Research, hiring signals, scores (`services/research.py`, `services/hiring_signals.py`, `services/opportunity.py`, `services/scoring.py`) | reports, signals, scores | assemble, draft, gate, repair, store; upsert, rescore, expire; score | evidence changes while a model thinks; scores put together from several reads; thresholds and rounding | nobody is called who was not hiring; bad news never raises a score | `Research`, `Scoring` |
| Start-up, rate limits (`main.py`) | `schema_migrations`, the limiter in memory | migrate, serve, limit | two processes start at once, die, time out while the server works on | no file applied twice but behind a killed psql; no window over its limit | `AppProcess` |

`PROJECT.json` lists the rest (scraping, dashboard, settings, telegram, ...), which
keep no state two actors compete for, or are mostly data.

Components meet in the `messages` row. The pipeline creates it
(`pending_approval`, `QA_PENDING`), QA moves its stage, a reviewer its status, n8n
claims and reports it, the gate reads both columns plus `qa_runs`, and replies
reject it. `EmailSend` has all of these writers with QA reduced to "the stage may
advance when QA would let it"; `CopyQA` has one message with QA in full and the
claim and report steps of the sender that read its result. The QA sweep is itself
a job of the queue (`gtm_qa_audit`).

Upstream of the message, a posting found by a job search becomes a hiring signal
(`hiring_signals`), signals and events move the priority of a lead
(`intent_engine`), research and the pipeline turn what is known of a company into a
pain, an offer and a draft, and scores decide which lead is worked first. All of these
are jobs of the queue or requests of n8n; they meet in rows of `leads` and
`companies`, and each has its own module, since none of them reads another's row
while that one is being written except where its module says so (`Research` has the
signals, `Pipeline` the drafts, `LeadLine` the kill switch of the email path).

## 2. Modules

| Module | Content |
|---|---|
| `SendOnce` | abstract specification: a message is approved, delivered at most once, or buried |
| `EmailSend` | the email path with reviewers and n8n executions; faulty variants of single actions next to the actions they vary |
| `MCEmailSend` | constants and the symmetry set for TLC |
| `EmailSendProofs` | invariants of every environment, those of the nominal one, and the refinement of `SendOnce` |
| `CopyQA`, `MCCopyQA`, `CopyQAProofs` | one draft through QA, resubmission, approval and the gate |
| `WorkOnce` | abstract specification: a job is taken by one worker at a time, a bounded number of times, and stays completed once the worker has heard of it |
| `JobQueue`, `MCJobQueue` | table, pool loops, tasks, shutdown |
| `JobQueueProofs` | invariants of the queue, and the refinement of `WorkOnce` |
| `LeadLine` | every writer of a lead's status, the suppression list, calls and callbacks |
| `OutboundScheduler` | ticks of the outbound scheduler, pauses and modes, sequences |
| `DueOnce` | abstract specification: a due time of a schedule gets its job, and one only |
| `IntentEvents` | ingestion, the recurring schedule, the processor of events |
| `SchedulerProofs` | theorems about the two schedulers, and the refinement of `DueOnce` |
| `Pipeline` | the stages of a lead, the outbox, n8n's executions |
| `Enrichment` | waterfalls, quotas, breakers and fixtures |
| `LeadProofs` | theorems about what becomes of a lead: `LeadLine`, `Enrichment`, `Pipeline` |
| `Rounding`, `Scoring` | Python's round() and the scoring functions, over exact fractions |
| `Research` | signals, reports and opportunity scores of one company |
| `ScoringProofs` | theorems about `Scoring` and `Research`, with the arithmetic they rest on |
| `AppProcess`, `AppProcessProofs` | migrations of several processes, the rate limiter |
| `MCParts`, `MCEnrichment` | the instances of these, one part per behaviour |
| `PartsProofs` | the composition is a behaviour of each component, and keeps all types |

One database transaction is one step. A handler of several transactions, or one
that reads and then writes without repeating the check in the UPDATE, is several
steps with a program counter. Between two awaits a coroutine is one step, except
where a statement of the database lies between.

### EmailSend

`status`, `stage`, `attempts`, `approvedBy`, `keyBound`, `providerId` are the
columns of `messages`; `suppressed` is what the gate reads about the lead;
`deliveries` is what the recipient's mailbox got (saturating at 2, since no
property distinguishes more). `epc`/`emsg` are the n8n executions, `rpc`/`rmsg`/
`rstage` the approve and reject requests. `stopped` is history: what the latest
reply found for each message.

* approve: `ApproveRead` (SELECT and its checks), `ApproveWrite` (UPDATE by id and
  the stage's move to SCHEDULED, one transaction). reject: `RejectRead`, `RejectWrite`.
* kill_switch and apply_classification: `Reply`, `Suppress`.
* due_sends and Split: `Poll`. n8n takes the due page as a batch, and works on the
  items node by node; here each item is an execution of its own, a superset of the
  orders the batch allows. An item that is refused is taken again by a later poll,
  as in the workflow.
* claim_for_send: `ReplayCheck`, `Claim` / `ClaimRefused`, `BindKey`, `GatePass` /
  `GateBlock`, `Release`, one step per transaction.
* Send Email: `SmtpOk`, `SmtpError`. The file connects a second output of the node to
  Report failure, but sets no onError on it (the claim node has continueRegularOutput):
  an error ends the execution, and what it had claimed stays 'sending' (`AfterError`).
  An item whose claim was refused or replayed reaches the node without a recipient and
  fails it for the whole batch: each of the others is then an execution that dies
  (`Abort`), before its e-mail or after. The retries of the node send again what went well
  (`SmtpAnswerLost`). apply_send_result: `ReportOk`, `MarkSent` (its second
  transaction), `ReportFail` (record_failure).
* Failure: `ClaimAnswerLost`, `SmtpAnswerLost` and the second disjunct of `Reported`
  (LostAnswers), `Abort` (Aborts).

Environments, as CONSTANTS:

* `SerialReview`: no two approve/reject requests hold the same message at once. A
  team with one reviewer per queue has that; the API does not enforce it.
* `LostAnswers`: the calls whose answers may be lost, so that n8n makes them again: the
  claim, SMTP, the report of success ("sent") and the report of failure ("failed"). All
  four nodes retry.
* `Aborts`: an n8n execution, or the API process that serves it, may die anywhere.
* `OtherGates`: the gate's checks of mailbox, domain, limits and campaign fail at
  will. They are functions of rows nothing here writes.
* `ErrorOutput`: TRUE for a workflow whose Send Email is set to continue on its error
  output, as its connections suggest; an error may then lead to the report of a failure
  or end the execution, so that every behaviour of the file is among those of TRUE.
  FALSE is the file as it is.

QA's rules are a free verdict: `QaAdvance` may move the stage whenever the previous
stage has been reached. A message that QA fails is one that never advances. The
row status `drafted` of the schema is written by no code and does not exist here.

### CopyQA

The text is a number (a new one for each resubmission), `good` whether it passes
the deterministic rules at this time: it may expire, as the signals the copy
refers to do. `runs` are the `qa_runs` of the copy with the text they were about,
which the table does not record and the properties need; `compliance` is the verdict of
the latest compliance run, and whether one has passed. `chk`, `aut`, `apr`,
`snd` are one QA run, one resubmission, one approval and one claim in progress,
with what each has read. `Transitions` is the table of `gtm_lifecycle.py` over the
stages some code can move a draft to. `SerialResubmit` restricts resubmissions to
the stage QA_FAILED, which is what a careful caller of the route looks at first;
the route itself does not (`copyqa_unseen`).

### JobQueue

`status`, `attempts`, `due` (run_at has come) and `ahead` (which of two due jobs has
the earlier run_at) are the columns; `loop`, `held` the coroutine of each pool in each
process, `task` the task of each job. `Claim` is the UPDATE with SKIP LOCKED: of the
runnable jobs the most urgent, of these the one that has been due longest
(`Foremost`); `ClaimEmpty` and `ClaimError` are its other outcomes. `Spawn`, `Wake` are
the rest of the loop, with the ValueError of `asyncio.wait` on an empty set.
`TaskStart`, `Acquire`, `Handler`, `Complete`, `CompleteError`, `Fail`, `FailError` are
`_run_job`. `CompleteError` is a complete() that raises, whether its UPDATE was lost or
was committed and only the answer was: fail() then updates by id and takes a COMPLETED
row back to the queue or to the dead letters. `Stop` cancels the loops of a process
while its tasks and claim threads go on (`ClaimForNobody`); `Exit` is the end of the
process, `Start` its restart. `Exits` and `DbErrors` switch shutdowns and failing
statements on; `Recurring` jobs are enqueued again, under a new key, when they have
ended, so that work keeps coming. Time is abstract: a backoff ends at some later moment
(`BackoffOver`). For `WorkOnce`, the `workers` of a job are the processes that hold it or
have its task (`Hands`), and `returned` are the jobs whose handler has returned
(`Returned`); rows and counts are the same.

### LeadLine

`leadStatus` is `leads.status` ("absent" before the row exists), `suppressed` the
list's values of scopes company and phone, `desk` what an API worker has read and
not yet written, `call` a call with Twilio's side of it, its row and the duration
stored. `declined` is history: the companies for which do_not_call was decided.

* `transition()` (one UPDATE that repeats the status it read): `Guarded`, used by
  `Scored` (scores and pipeline stages) and `TransitionLead` (the route, with the
  suppressions of do_not_call in the same transaction).
* create_lead: `LookUp`, `Create`. kill_switch: `ReplyRead`, `ReplyWrite`, a SELECT
  and an UPDATE by id, between which the other writers go on.
* place_call: `Check` (the list, in a transaction of its own), then `Dial`, or
  `DialRefused` (no credentials, Twilio says no), then `RecordCall` (the INSERT). A
  company that declines between `Check` and `Dial` is dialled all the same; `overtaken`,
  which is history, are the calls this happens to.
* Callbacks come in any order, late, again, and before the row: `Silent` are those
  without a duration, the recording's among them, which store 0; `Completed` carries the
  billed one. `last` is the last that found the row. `Disposition`: the list, then the
  status if the table has the edge; a duration of 0 is replaced by an estimate
  (`Elapsed`).

A number may be written in several ways (`Spellings`), of which `Canonical` is what
`phones.py` makes of them.

### OutboundScheduler

`msg` is the part of `outbound_messages` a tick reads and writes, `health` the
mailboxes', `switches` what the flag kill_switches stops, `own` the flags
pause_all_sending and pause_follow_ups under their own names, `modes` shadow mode and
approval. A tick is `Capacity`, `Fetch` (with the shares of new and follow-up
messages), `Switches`, and for each message `Assign`, `Defer`, then `Finish`: every
read is a step of its own, and everything after it works with what was read.
Operators, any number of them at once, are `PauseRead`, `PauseWrite` (the flag is read,
changed and written back whole) and `PauseOwn`; `missed` is what others have paused
since an operator's read, which its write undoes. `AddFollowUp`, `CancelFollowUps`,
`LeadOver` are the sequences; `HealthChange` is what the score of `Scoring` may come to.
`stopped` (what is paused and was not lost in that way), and of a tick `rested`, `cut`
and `given`, are history. sent_today never changes, as in the code.

### IntentEvents

`event` and `signal` are rows with their status, `job` the jobs of the queue by their
idempotency key (an event, or the time of a slot), `counted` the evidence a lead's
priority was computed from. `Ingest` stores the event and then asks for a job;
`TickRead`, `TickEnqueue`, `TickCommit` (or `TickFails`, `TickDies`) are the recurring
schedule; `TakeJob`, `ClaimEvents`, `EvalRead`, `EvalWrite`, `EndJob` the processor.
`EvalRaises` is a claim or an evaluation that raises: the handler returns the error as
its result, the job is completed, and what it had claimed and not evaluated is
"dropped", processed and never looked at. `Dies` is the end of the process or a claim of
a job that raises, which drops the same and leaves the job running; `LoopEnds` the
ValueError of an idle loop (`JobQueue`), `Starts` the restart of the process. `Discover`
and `Expire` change the signals. A slot that nobody uses any more stands for a time never
used before (`Fresh`). Of `JobQueue` it takes only what the callers rely on: a key makes
one job, and a job has one runner. `PromptTicks`: a tick has ended when the next time
comes. The schedule's promise is `DueOnce`: `waiting` there is "the time has come and
has no job", `jobs` is `made`.

### Pipeline

`prospect` is what the stages store in a lead; `outbox` the notifications on their way
to n8n; `exec` the executions of lead-intelligence: the stages still to go and where
in a stage they are; `drafts` the messages created, with the pain and the offer the
model was told. `RequestQualification`, which nothing keeps from starting a second run
of a lead; `Notified`, `Unheard`, `SplitsNothing` (the row cannot be fetched, or Split
Events has no items to pass on); `Context` and `ContextRefused` (stage_context),
`ModelFails` (the backend or the model does not answer, or a Parse node finds no JSON
and throws: no node has an onError, so the execution stops); `Load`, `LoadRefused`,
`Store` (apply_stage: the lead is loaded and the answer checked, the result is stored).
`LoadRaises` is any other exception of the handler before it writes (int(None) at
`services/pipeline.py:286`, the database): a 500, and nobody is told. A `Store` is
"answered", "unheard" (the answer is lost, and n8n repeats the request, which the code
applies again) or "broken" (it raises after the lead was written and before the draft
or the event was). `open`, `lost` and `crossed` are history: a run whose end nobody has
been shown, one that stopped where nothing shows it, and executions whose lead's pain or
offer another execution has stored since they last checked an offer.

### Enrichment

`contact`, `filled`, `used` are the rows, `breaker` the adapters' circuit breakers,
`worker` the waterfalls under way. `QuotaRead` and `QuotaWrite` count a use;
`NotAsked` (no API key), `Admitted`, `Rejected`, `ProviderFails`, `VerifierAnswers`,
`ResearcherAnswers` are an adapter's call with its retries: success and failure are
reported once, after the last try, and after a failure the fixture answers (`StandIn`).
A contact's row tells the two apart by its confidence: 90 is a provider's "valid", 95 the
fixture's ("assumed"). `Judge` and `Weigh` store what came out; `Judge` by contact, so
that an address which `AskToEnter` and `EnterAddress` have put in meanwhile (`slipped`)
is marked by the answer about the old one. `QuotaWrite` writes what it has read plus
one: `uncounted` are the uses that this leaves out. `TimePasses` lets an open breaker
age; `down` is how long it has rejected, whatever opened_at says; `calls` counts the uses
that `QuotaWrite` let through.

### Rounding, Scoring and Research

`Rounding` has Python's round(), half to even. `Scoring` has the scoring functions as
operators over integers (tenths or hundredths where the code keeps decimals) and one
variable, `sample`: a posting that ages day by day, a lead whose signs are seen one
after the other, a mailbox with its bad events, a message to be sent. A slot is drawn as
the code draws it: a minute of the window and up to 59 seconds, so that the end may be
passed by less than a minute (`WholeWindow`), or what is left of today, drawn back to the
end (`RestOfWindow`). `Minute` is how many of the model's moments a minute has. The clock
is UTC: the mailbox's timezone is looked up and not used. `ScoringAssumption` leaves out
a window that begins less than the gap of five minutes after midnight, in which a slot
drawn before it would be of the day before; `TablesAssumption` says that what the
instance sees is in the tables. `Research` composes the scores for one company:
`Upsert`, `Rescore`, `GrowsOld` (signals), `Learn` (what is known of the company),
`MeetingHeld`, `Assemble`, `ModelAnswers`, `FallsBack`, `Raises`, `Repair`, `StoreReport`
(research), `ScoreSignals`, `ScoreProblem`, `ScoreWrite` (the reads of
compute_opportunity_score and its write, with the default weights). Of a report it keeps
the severity of its problem, which is what a score reads; whether the gate passes it, for
the model's claims as for the fallback's, is a free choice, since it hangs on words, and
it is stored either way.

### AppProcess

`recorded` is schema_migrations, `running` the files the database is applying and for
whom, `backend` the processes: `Boot`, `Claim` (INSERT ... ON CONFLICT DO NOTHING),
`Psql`, `Applied`, `Fails`, `TimesOut`, `Undo`, `Serve`, `Crash`. psql is killed after 60
seconds, the record is deleted, and the server goes on with the statement it is at
(`adrift`), whose end (`AdriftEnds`) may be the end of the file (`late`, history).
`hits` are the times of one address in each process; `Request`, `Cleanup`,
`SecondPasses`. `whole` and `passed` are history.

## 3. Runs

All bounds are CONSTANTS. Deadlock checking is off: each system may rest (all
messages settled, bounds used up, every loop dead).

| Run | Instance | Checks | Distinct states |
|---|---|---|---|
| `email_safety` | 2 messages of one lead, 2 executions, 2 reviewers; SerialReview, lost answers to claims and to reports of success, Aborts, OtherGates; symmetry of executions and of reviewers | `TypeOK`, `ReplayIsTruthful`, `AttemptBudget`, `KilledStaysDown`, refinement `SendsOnce` | 2.6 million |
| `email_live` | 2 messages of one lead, 1 execution, 1 reviewer, a page of 1; fair, answers to claims, SMTP and reports of success lost; ErrorOutput | `ApprovedServed`, `ApprovedBeforeSend`, `SentWasDelivered` | 780 000 |
| `email_stranded` | 1 message, fair, nothing lost, the workflow as in the file | violates `SendingResolves` | |
| `email_reply` | 1 message | violates `NoClaimAfterReply` | |
| `email_double` | 1 message, 2 reviewers at once | violates `AtMostOnce` | |
| `copyqa` | 1 checker, 1 author, ceiling 3, 4 texts, 5 runs; SerialResubmit | `TypeOK`, `AuthorizedWasReviewed`, `ReviewedTextSent`, `RequeueBudget`, `HeldIsFinal` | 2.3 million |
| `copyqa_unseen` | the same with 3 texts, resubmission at any stage | violates `ReviewedTextSent` | |
| `jobqueue` | 2 processes, 1 pool of 2 tasks, 3 jobs (one without handler, two behind a provider limit of 1), exits and failing statements | `TypeOK`, `SingleRunner`, `AttemptBudget`, `PoolCapacity`, refinement `WorksOnce` | 390 000 |
| `jobqueue_live` | 1 process, 3 jobs of two priorities that are enqueued again and again, fair, exits and failing statements | `TaskEnds`, `ServedWhileAlive` | 21 000 |
| `jobqueue_idle` | 2 processes, 2 jobs, fair, nothing fails | violates `QueuedServed` | |
| `parts` | twelve parts, below | `PartsTypeOK` and the properties below | 186 000 |
| `half_open` | 1 worker, 1 address, breaker of 2 failures and 2 ticks | violates `HalfOpens` | |

`parts` runs eight components in one model: a behaviour chooses a part, runs that
component and leaves the variables of the others alone, so that its states are the
sum, not the product, of the parts'. A component that is too large with everything
switched on has two parts, each with a side of it held still:

| Part | Instance | Properties | States |
|---|---|---|---|
| `leads` | 2 leads of one company, 3 spellings of 2 numbers, 1 call, 2 workers | `LeadEdges`, `DeclinedNotDialed`, `DurationAsReported` | 7 400 |
| `outbound` | 3 messages (1 follow-up), 2 mailboxes of one domain (one has sent), 1 ticker; sequences and health, flags that no tick reads | `WithinCapacity`, `CancelledStays` | 18 200 |
| `switches` | the same with 2 operators, one at a mailbox, the other at a campaign; no sequences, health held still | `PausesHold` | 5 700 |
| `schedule` | 3 slots, 2 tickers that may die, a queue that may fail, signals, a processor, no events; PromptTicks | refinement `ServesEveryTime` | 23 300 |
| `intent` | 2 events of one lead, 1 ticker, batches of 1, a queue that may fail, a processor that raises, dies, ends and starts; fair | `EventsCount` | 11 600 |
| `pipeline` | 1 lead, 1 run, 2 tries, everything may be lost or raise; fair | `RunEnds`, `DraftFits` | 21 900 |
| `reruns` | 1 lead, 2 runs that may overlap, nothing lost; fair | `DraftFits`, `RunEnds` | 26 500 |
| `verification` | 2 addresses, one coming in, 2 verifiers (one with a quota of 3, reserve 1; one without a key), 2 workers | `VerifiedAddress`, `QuotaReserve` | 29 000 |
| `enrichment` | the same with 1 worker for both waterfalls, 2 columns, retries and breakers | `VerifiedAddress`, `QuotaReserve` | 5 900 |
| `scoring` | postings of 0 to 62 days, leads of up to 6 signs, mailboxes of up to 6 events of each kind, every moment of a week | `BadNewsNeverPays`, `SlotsInWindow` | 9 000 |
| `scores` | 1 posting of which nothing or everything is known, ages 0 and 61, models, meetings, up to the first score | `CalledWasHiring` | 19 300 |
| `app` | 2 processes, 1 file; limits 1 and 2, a window of 2 ticks | `MigratedOnce`, `RateLimited` | 8 500 |

Bounds and why they are enough. Two messages are needed for one to keep the other
waiting or to share the lead a reply stops; two executions and two reviewers for
every race of the email path, which are all between pairs. Attempts are bounded by 2
where the code has 3: the boundary is the same comparison, and the proofs cover
every value. `email_reply` and `email_double` use the code's 3. `DueLimit` is 1 in
`email_live`, for the code's 25: with two messages the page binds, and one message that
the gate turns back for ever keeps the other from being served. That is why
`ApprovedServed` excuses a message when as many older ones as the page holds are blocked
(`Crowded`), and only then. In `copyqa` four texts and five runs allow the whole ceiling
of three rounds and two re-runs. In `jobqueue` three jobs fill two places and leave one
waiting; the two jobs behind one provider make tasks wait while they hold a place. In
`jobqueue_live` all three jobs come again for ever, two of them equally urgent, so that a
job can be overtaken by newcomers of either kind.

In `parts`: two leads of one company are what it takes to decline through one and be
dialled through the other; two mailboxes of one domain whose cap is below their sum
make either limit the tighter one; one message of each kind meets the shares; one
ticker in `outbound`, because two ticks share nothing but rows (the theorems about them are
for any number); two operators, one between the other's read and write, are what it takes to
lose a pause; three slots let one be in use by a late tick
while the schedule moves on; two events and batches of one leave an event to a later
job; two runs of a lead are what it takes to part a draft's pain and offer; a quota of 3 and a
reserve of 1 admit one call and refuse the next, and `MaxUncounted` 1 lets one more through;
a posting that is kept and one that has expired are all that the reads of a score can mix
up, and `MaxMeetings` 2 is a full history; 62 days pass
every threshold of the scoring functions (3, 7, 14, 21, 30, 60). One file is enough for
`MigratedOnce`, which speaks of each file by itself; what the order of the files
does to a process that passes over one is described below.

One environment is assumed in `parts`: `PromptTicks`, without which a time of the schedule
may never get its job (below). Where the code lets a neighbour spoil a result, the
property says exactly by whom: a reply that was overtaken (`LeadEdges`), a call past its
check (`DeclinedNotDialed`), a pause that another operator's write has lost (`PausesHold`),
another run of the lead (`DraftFits`), an address that came in meanwhile
(`VerifiedAddress`), a use that was not counted (`QuotaReserve`), a psql that was killed
(`MigratedOnce`). Each of these happens in the run, and the property fails without its
clause.

Fairness. `email_live`: an execution that has begun goes on (n8n runs node after node, weak
fairness of `Work`); the workflow fires every 15 minutes and takes every message of the due
page, so that a message that is on the page again and again is taken (strong fairness of
`Poll`). Nothing is assumed of reviewers, QA or replies, nor that an execution gets to a
report after an error. `jobqueue_*`: the event loop runs every coroutine that is ready (weak
fairness of loops and tasks); asyncio's semaphore is first come first served (strong
fairness of `Acquire`); time passes, and a process that is down is started again by its
supervisor. No fairness of shutdowns and failures. `intent`: the schedule comes due and is
polled for ever (weak fairness); the queue does not fail every time, and a tick does not die
every time (strong fairness of `TickEnqueue` and `TickCommit`), nor does the claim of events
(strong fairness of `ClaimEvents`); a processor that is alive goes on. Nobody has to start
one that has ended: `EventsCount` says what is left when none is. `pipeline`, `reruns`: n8n
takes up what it was notified of and goes from node to node (weak fairness), and tries are
bounded.

### Where the code departs from what it says

Shown by runs:

* `email_reply`: a reply rejects only what is pending or approved. A message that
  is being sent and fails, or one an approve request has already read, returns to
  the queue and is claimed after the reply (`services/email_service.py:244`, `:88`).
* `email_double`: the unguarded UPDATE of approve reopens a claimed message, which
  is delivered twice (`services/email_service.py:88`).
* `email_stranded`: nothing enables the second output of Send Email that is connected to
  Report failure, so that an error of SMTP ends the execution: record_failure is never
  called, and the message stays 'sending', which no poll looks for
  (`src/n8n/workflows/email-transport.json:118`, `services/email_service.py:252`).
* `copyqa_unseen`: resubmit_copy replaces the text before the stage is checked, and
  a text nobody judged goes out (`services/qa_service.py:448`).
* `jobqueue_idle`: an idle loop ends with ValueError and nothing starts it again
  (`services/job_queue.py:184`).
* `half_open`: the adapters record the rejections of an open breaker as failures,
  which moves its opened_at; under steady traffic it never half-opens
  (`providers/resilience.py:22`, `:53`).

Met while modelling, and in the models as the code has them:

* *Reports of failure.* record_failure updates by id (`services/email_service.py:247`).
  When the answer to a report is lost, Report failure is tried again; if another
  execution has claimed the message in between, the second report counts a second
  attempt for one failure and puts the claimed message back in the queue, and it is
  delivered twice. With one reviewer and LostAnswers = {"failed"} in `email_double.cfg`
  TLC finds `AtMostOnce` violated in this way.
* *Lost answers of SMTP.* Send Email retries, and mails twice what the server had taken
  (LostAnswers = {"smtp"}).
* *The page.* The due page is the 25 oldest approved messages. Those the gate turns back
  return to it, and as many as it holds keep every younger one from being sent
  (`services/email_service.py:252`; `Crowded`).
* *Job queue.* complete() and fail() update by id. When the COMMIT of complete() arrives and
  its answer does not, fail() puts a COMPLETED job back in the queue, and it is run again
  (`services/job_queue.py:204`; `CompleteError`, `WCompleteUnheard`). The claim takes the
  most urgent job whatever waits: urgent work that keeps coming starves the rest
  (`services/job_queue.py:78`; `NoRush`).
* *Leads.* kill_switch writes the status by id, so that a do_not_call decided between its
  two statements is undone (`services/email_service.py:390`; `LeadEdges`). place_call asks
  the suppression list and then Twilio: a company that declines in between is dialled
  (`services/twilio_service.py:97`; `overtaken`). A callback without a duration, a late
  "answered" or the recording's, sets a finished call's duration to 0
  (`services/twilio_service.py:115`, `:150`; `Silent`).
* *Pauses.* POST /control-plane/pause for everything or for follow-ups sets a flag of its
  own name, and the scheduler reads keys of kill_switches only
  (`routers/control_plane.py:586`, `services/scheduler.py:35`): nothing is paused. Two
  pauses at once lose one (`routers/control_plane.py:606`; `missed`). A paused mailbox that
  has the lowest share of its limit is drawn again and again and defers every message.
* *Outbound scheduler.* 'pending_approval' violates the CHECK of outbound_messages and
  ends the tick; a scheduled message is eligible again and takes capacity again;
  nothing writes sent_today; the follow-up's mailbox is not the first message's.
  A slot of a later day may pass the window's end by up to 59 seconds, and the window is by
  UTC: `services/scheduler.py:218` looks the mailbox's timezone up and does not use it, where
  `src/docs/08-outbound/README.md:106` promises business hours aware of it. A tick that had
  fetched a follow-up before it was cancelled schedules it all the same
  (`services/scheduler.py:403`; `cut`).
* *Mailbox health.* Only messages of status 'sent' count as delivered, which nothing
  writes: a mailbox in use scores 85 at most.
* *Intent events.* Events are marked processed before they are evaluated: an evaluation that
  raises, or a process that ends, loses the rest of its batch
  (`services/intent_engine.py:122`; "dropped"), and of two processors the later write may
  rest on older evidence. ingest_event is called by tests only; signals that are found or
  expire do not lead to an evaluation.
* *Recurring schedule.* A tick that hangs for a whole interval between its enqueue and its
  UPDATE passes over the time that has come due since, which never gets a job
  (`agents/scheduler.py:76`; `PromptTicks`).
* *Pipeline.* GET /events/pending is answered by the route of /events/{event_id}, so that
  an event n8n was not listening for is never found again; n8n acknowledges
  nothing. Runs end silently: a Parse node that finds no JSON throws, Split Events splits
  "items" that an event's row does not have, and a handler that raises something other than
  PipelineError answers 500 without a review flag (`lost`). A retried apply creates its
  draft or its next stage twice. Overlapping runs of a lead part the pain and the offer of
  a draft (`crossed`); a second audit leaves the offer of the first in place until the
  offer stage.
* *Enrichment.* During an outage, or without an API key, the fixture answers "valid" with
  0.95, and the contact becomes verified, where `services/email_service.py:6` speaks of
  provider-verified addresses (`StandIn`; a row of `VerifiedAddress` says which it was); the
  fixture of enrichment writes back every column as it was read. The mark of a verified
  contact is set by contact, not by address (`services/enrichment.py:375`; `slipped`). A use
  that is counted while another is being counted is lost (`services/enrichment.py:121`;
  `uncounted`), and nothing in src/ sets a quota.
* *Research.* A report that fails its check after the repair is stored and scored all the
  same, without the verdict, where `services/research.py:1` promises no hallucinated facts.
  The fallback's own claims may fail: with tech signals that are all false, or for a company
  without a vertical (NULL) and with a name of one word, none of whose words are in the
  evidence (`services/research.py:239`, `:282`). Apollo stores them as a list, on which the
  fallback and the signal score raise. The website is never evidence: companies has no
  column website_findings.
* *Scores.* The default signal weights add up to 370 and the largest sum a posting can reach
  scores 54: the categories medium_value and high_value, the expiry alerts and the intent
  points of an opportunity are out of reach, and no company gets A+, A or B with them (63 at
  most). The model has other scores through `ScoresSeen`, since the signal weights are a
  setting, and the default opportunity weights. The tier is taken before the total is
  rounded for its column. handle_signal_scoring and refresh_scores read `hs.*, c.*`, so that
  the id of the signal is replaced by the company's.
* *Start-up.* A process passes over a file another one has claimed and not yet applied, and
  goes on to later files and to requests; a crash leaves a record of a file that was not
  applied. A psql that takes 60 seconds is killed and its record deleted while the server is
  still at the statement: the next start applies the file again (`adrift`). Rate limits are
  kept per process.

## 4. Proofs

All theorems are checked by tlapm for every value of the constants the named
assumptions (`EmailAssumption`, `CopyAssumption`, `JobAssumption`, `LeadAssumption`,
`SchedulerAssumption`, `IntentAssumption`, `PipelineAssumption`, `EnrichmentAssumption`,
`ScoringAssumption`, `TablesAssumption`, `ResearchAssumption`, `AppAssumption`) allow.
Every invariant, action property and refinement that a passing run checks is stated by one
of them. `OneJobPerSlot` is what remains of `ServesEveryTime` without PromptTicks.

| Module | Theorem | States |
|---|---|---|
| `EmailSendProofs` | `TypeCorrect`, `ApprovalIsRequired`, `SentIsTrue` | `TypeOK`, `ApprovedBeforeSend`, `SentWasDelivered`, in every environment |
| | `ReplayTells`, `BudgetKept`, `KilledForGood`, `Implements` | `ReplayIsTruthful`, `AttemptBudget`, `KilledStaysDown`, and the refinement `SendsOnce`, for SerialReview where answers to claims and to reports of success may be lost (Aborts, OtherGates and ErrorOutput free) |
| | `DeliveredOnce` | `AtMostOnce` in the same environments |
| `CopyQAProofs` | `TypeCorrect`, `CannotBypass`, `HeldForGood` | `TypeOK`, `AuthorizedWasReviewed`, `HeldIsFinal`, for any number of checkers and authors and any resubmission |
| | `ReviewedText`, `BudgetOfRequeues` | `ReviewedTextSent`, `RequeueBudget`, for one checker and one author with SerialResubmit, any texts, runs and ceiling |
| `JobQueueProofs` | `TypeCorrect`, `OneRunner`, `BudgetKept`, `EndedStaysEnded`, `CapacityKept`, `Implements` | `TypeOK`, `SingleRunner`, `AttemptBudget`, `TerminalIsFinal` (of jobs that no task has any more), `PoolCapacity`, and the refinement `WorksOnce`, for any processes, pools and jobs, exits and errors free, COMMITs whose answers are lost among them |
| `LeadProofs` | `LeadTypeCorrect`, `NobodyDialsDeclined`, `DurationStays`, `OnlyEdges` | `LeadTypeOK`, `DeclinedNotDialed`, `DurationAsReported`, `LeadEdges`, for any leads, numbers, calls and workers, callbacks and replies in any order |
| | `EnrichTypeCorrect`, `VerifiedWasJudged`, `ReserveKept` | `EnrichTypeOK`, `VerifiedAddress`, `QuotaReserve`, for any workers, providers and quotas, whatever addresses come in |
| | `PipeTypeCorrect`, `DraftAnswersPain` | `PipeTypeOK`; `DraftFits` for any number of overlapping runs, with the order of stages in n8n's file (`AsInFile`) |
| `SchedulerProofs` | `IntentTypeCorrect`, `OneJob` | `IntentTypeOK`, `OneJobPerSlot`, whatever fails or dies, fair or not |
| | `EveryTimeServed` | the refinement `ServesEveryTime`, for PromptTicks |
| | `PausesAreHeeded` | `PausesHold`, with any number of ticks, mailboxes and operators |
| | `OutTypeCorrect`, `CapacityHeld`, `CancelledForGood` | `OutTypeOK`, `WithinCapacity`, `CancelledStays`, for any messages, mailboxes, domains, limits, ticks and operators |
| `ScoringProofs` | `ScoringTypeCorrect`, `SlotsKeepHours`, `BadNewsIsBad` | `ScoringTypeOK`, `SlotsInWindow`, `BadNewsNeverPays`, for any ages, windows and numbers of messages |
| | `ResearchTypeCorrect`, `CalledIsHiring` | `ResearchTypeOK`, `CalledWasHiring`, for any postings, analysts, scores and meetings |
| `AppProcessProofs` | `AppTypeCorrect`, `AppliedOnce`, `LimitsKept` | `AppTypeOK`; `MigratedOnce`, with any files and processes; `RateLimited`, for any limits and window |
| `PartsProofs` | `PartsAreWhole`, `PartsTypeCorrect` | a behaviour of `MCParts` is one of every component; `PartsTypeOK` |

The arguments:

* *Email, every environment.* `ApprovedBeforeSend` is not inductive alone: a claim
  is trusted through several steps. `Always` adds what an execution in hand means
  (`InHand`), that a claim was of an approved message (`ClaimedIsApproved`) and that a report
  of success comes from a delivery (`ReportedIsDelivered`).
* *Email, nominal environment.* At most one execution has a message in flight
  (`OneFlight`), a flight is of a message that was not delivered unless it is
  reporting just that (`FlightIsFresh`; a report that is repeated finds the row
  'sent' and is refused, and a claim that is repeated finds it 'sending'), an
  approval in progress is of a message
  nobody else has in hand (`ApprovalIsFresh`), rows waiting to be sent are undelivered
  (`UnsentRows`), and a killed message is in nobody's hands (`KilledIsFree`). With
  these, each step maps to a step of `SendOnce` or to a stutter. `DeliveredOnce` is proved
  of `SendOnce` and carried over by the refinement.
* *Copy QA.* A stage can be authorised only through runs that are stored before the
  move; the invariant carries, per step of a checker, that the run it moves on is
  stored (`VerdictStored`) and, per stage, the runs behind it: behind the compliance check
  a compliance run that passed, too (`StageReviewed`).
* *Copy QA, one at a time.* `CannotBypass` does not say that the run was about the text that
  goes out. For that, an author keeps the draft at QA_FAILED until the new text is in it
  (`AuthorsWait`), a checker whose verdict will move the draft has read the text that is
  there (`CheckersCurrent`), and behind copy QA the text no longer changes
  (`TextSettled`). The budget counts runs: their numbers grow in the order they started
  (`Numbered`), and every return to the queue has a failed run with its own number
  behind it (`Spent`).
* *Job queue.* A row that is RUNNING has one holder, which got it from an exclusive
  claim, and so has one that was completed and whose worker has not heard of it
  (`HeldBySpawner`, `SingleRunner`); therefore the unguarded complete() and fail()
  write only rows of their own. Capacity follows from the loop's position: it
  claims only with room left, and tasks only end in between (`Room`).
* *Job queue, refinement.* A step of `WorkOnce` is one job's, or what one worker loses at
  once. `Complete` and `Fail` are steps of it because the process that has the task is the
  only one that has the job (`HandIsOne`) and the row is RUNNING (`SingleRunner`), the dead
  letter because the tries then are the limit (`AttemptBudget`), and a claim because a
  waiting row is in nobody's hands (`WaitingIsFree`). A complete() whose answer is lost is a
  step of its own (`WCompleteUnheard`): the worker still has the job, and its failure may
  put it back; with the answer the worker lets go, and the job stays completed. `Stop` and
  `Exit` are a worker's loss of what its loops held and of its tasks; a handler that raises,
  or a loop that goes round, is a stutter. `TerminalIsFinal` follows from the refinement,
  and is proved directly as well.
* *Leads.* Whatever writes `declined` puts the company on the list in the same step, and
  nothing takes it off (`DeclinedListed`): `Passes` refuses it, and would if the number
  were written differently. A call between its check and Twilio is therefore of a company
  that had not declined, or has been overtaken (`CheckedClear`). What a reply has read has
  an edge to 'responded' (`ReadAllows`), so that its write takes an edge unless the lead
  has left that status; the others repeat the status in their UPDATE, or hold the row.
  `DurationAsReported` is inductive as it stands.
* *Recurring schedule.* A slot that made a job has a row under its key (`MadeHasJob`),
  so that a second enqueue finds it; the row stays until the slot is reused, and a
  slot is reused only when no tick holds it (`TicksHoldSlots`). For `DueOnce` the converse is
  needed too: a slot has a job only when one was made for it (`Tallied`), which rests on a
  busy processor having its running job alone (`JobsRunning`), since the job of a slot
  that is used again must not be completed by a processor of its last use. Nothing is
  done before its time (`NotBeforeTime`), and a tick under way holds the time that has come
  or one that was served (`TicksAgree`), so that a commit never leaves a due time behind.
* *Pauses.* The flag holds every answered pause, and what an operator about to write has
  read holds those that were answered before it read, but for what it resumes; what was
  answered since is in its `missed` (`PausesKept`). A tick that has asked holds the switches
  as they were (`Heeds`), and only `Assign` gives a mailbox more.
* *Capacity and cancellations.* What a tick has given a mailbox, or a domain, and the room it
  counts down add up to no more than the limit it found (`Budgeted`); the given are sets of
  pairs, so that one more raises a cardinality by at most one (`GivenGrows`). A tick that
  still holds a cancelled message was told of it (`CutTold`).
* *Pipeline.* Every execution has before it a tail of the order of the file (`InChain`), so
  that whoever is at the draft has checked an offer. From that check on, unless another
  execution of the lead has stored a pain or an offer (`crossed`), what the lead holds and
  what the model is told answer each other (`OfferFits`): `Store` marks every execution it
  crosses, and only the check of an offer takes the mark off.
* *Waterfalls.* What a worker knows of an address was judged, and the address it works on
  is the contact's unless one has slipped in (`Honest`). A worker about to write a use has
  read a count, and the uses let through are the count and those it has lost, whatever the
  order of reads and writes (`QuotaCounted`).
* *Bad news.* Each score is a sum of points by tables, the number of good signs less that of
  bad ones, and rounded quotients. The lemmas are about those: a quotient and a rounding
  keep the order (`DivisionOrder`, `RoundDivOrder`), the points of a posting fall with its
  age (`AgeOrder`), one sign more raises one sum by its weight (`SumLess`).
* *Slots.* Every slot is a day and a time of that day, in one way (`DivisionUnique`, `AtDay`,
  `DayHolds`); the next business day is at most three days on (`LaterSlot`), and a slot today
  is after now and not after the end (`SlotToday`, `SlotsGood`).
* *Research.* A company without an active signal has at most 18 points of 48 when its
  signals have been read, and 48 of 78 with its problem and its contacts (`Modest`): with
  history and recency it stays below 65, the least tier that has it called; and without
  recency nobody comes to 90 (`ScoresOK`).
* *Rate limits.* The requests really let through in the window are the newest of the times
  the process kept (`InStep`), and they are within the limits (`WithinLimits`): dropping
  what is old, or all of it when the address has been quiet, forgets none of them.
* *Migrations.* A file that a process holds is recorded, is not done (`Done`: whole, and not
  late) and is held by nobody else (`HeldOnce`); what a psql applies is recorded, not done and
  applied by that psql only, for the process that holds the file, if one does
  (`RunningOnce`); one whose psql was killed is nobody's, and only what the server makes of
  it can be whole without a record.
* *Parts.* A part's step is a step of its component, restricted, and leaves the variables of
  the others alone (`PartsStep`). So what run `parts` sees of a component are behaviours
  of it, and theorems that need no fairness hold there; the fairness of `IntentEvents` and
  `Pipeline` is in their parts only, and to carry it over would take ENABLED.

Model-checked only: the liveness properties (`ApprovedServed`, `TaskEnds`,
`ServedWhileAlive`, `EventsCount`, `RunEnds`), since temporal reasoning under fairness and
ENABLED is beyond tlapm, and what the six runs that expect a violation show. Nothing here
is defined by recursion: sums are cardinalities, and the table sums of the scores are
finite unions.

The models and the proofs write an update of several fields of one record as
`[f EXCEPT ![x] = [f[x] EXCEPT !.a = ..., !.b = ...]]` where a proof has to compute
with the old values: version 1.4.5 of the prover does not treat updates of several
paths that compute with `@` reliably.

## 5. Not modelled, and the plan

Not modelled: contents of texts, the individual QA and gate rules, e-mail quality checks
(they are rules about text, and their verdict is a free choice in `CopyQA`), the e-mail and
domain scopes of the suppression list, HTTP and authentication. SMTP, Twilio, n8n and the
models are external: they do what the code has to expect. The LLM gateway with its ledger of
cost, human escalation, the learning loop, telegram, observability, scraping, identity and
settings either append rows that nothing modelled reads, or are single guarded statements.
Of modelled components are left out: sessions of the dialer and what its recordings hold,
the time zones of its calls, job sources and find_decision_maker_email, compute_emv and the
pitch, the audit of DNS records, CSV import, and the connection pool: whether ten handlers
that hold two connections each can meet depends on the server's threads, which src/ does not
configure.

Next, in this order:

1. `IntentEvents` over `WorkOnce`, instead of what it takes from the queue.
2. The dialer's sessions, whose check-then-insert may open two for one lead; liveness of
   the outbound scheduler under pauses.
3. Human escalation and the learning loop.
