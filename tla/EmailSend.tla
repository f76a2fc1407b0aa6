------------------------------ MODULE EmailSend ------------------------------
(***************************************************************************)
(* The life of the outbound emails of a workspace between the draft and    *)
(* the recipient: services/email_service.py (approve, reject, due_sends,   *)
(* claim_for_send, apply_send_result, record_failure, kill_switch,         *)
(* classify_reply) driven by reviewers in the dashboard and by executions  *)
(* of the n8n workflow email-transport.json, which owns SMTP.              *)
(*                                                                         *)
(* A database transaction is one step.  A handler that runs several of     *)
(* them, or that reads a row and then writes it without a guard, is        *)
(* several steps, and any other process may run in between.                *)
(***************************************************************************)
EXTENDS Naturals, FiniteSets

CONSTANTS
  Messages,      \* initial (sequence_step 0) messages, numbered by created_at
  Leads,         \* the leads they go to
  LeadOf,        \* messages.lead_id
  Executions,    \* n8n executions, each working through one due message
  Reviewers,     \* concurrent approve/reject requests
  NoMessage,     \* "no message in hand"
  MaxAttempts,   \* transport failures before dead-letter (3 in the code)
  DueLimit,      \* page size of due_sends (25 in the code)
  SerialReview,  \* TRUE: no two reviewers handle one message at once
  LostAnswers,   \* the calls of the transport whose answers may get lost
  Aborts,        \* TRUE: an n8n execution or the API call it waits for may die
  OtherGates,    \* TRUE: gate checks other than those modelled may fail
  ErrorOutput    \* TRUE: Send Email may continue on its second output

ASSUME EmailAssumption ==
  /\ Messages \subseteq Nat
  /\ LeadOf \in [Messages -> Leads]
  /\ NoMessage \notin Messages
  /\ MaxAttempts \in Nat \ {0}
  /\ DueLimit \in Nat \ {0}
  /\ LostAnswers \subseteq {"claim", "smtp", "sent", "failed"}
  /\ {SerialReview, Aborts, OtherGates, ErrorOutput} \subseteq BOOLEAN

VARIABLES
  \* the rows of table messages
  status,        \* messages.status; "absent" before the row exists
  stage,         \* messages.gtm_stage, from the copy's QA on
  attempts,      \* messages.send_attempts, counted up to MaxAttempts
  approvedBy,    \* messages.approved_by is set
  keyBound,      \* messages.idempotency_key is set
  providerId,    \* messages.provider_message_id is set
  \* the recipients
  suppressed,    \* leads not to be written to (suppression list, opt-out);
                 \* no code takes an entry out
  deliveries,    \* emails the recipient got for each message, up to Many
  \* the processes
  epc, emsg,     \* step and message of every n8n execution
  rpc, rmsg,     \* step and message of every review request
  rstage,        \* the gtm_stage an approve request has read
  \* what a reply did to each message (history, read by properties only)
  stopped

rowVars  == <<status, stage, attempts, approvedBy, keyBound, providerId>>
mailVars == <<suppressed, deliveries>>
execVars == <<epc, emsg>>
revVars  == <<rpc, rmsg, rstage>>
vars == <<status, stage, attempts, approvedBy, keyBound, providerId,
          suppressed, deliveries, epc, emsg, rpc, rmsg, rstage, stopped>>

Many == 2   \* "more than one" for deliveries

Status == {"absent", "pending_approval", "approved", "sending", "sent",
           "failed", "rejected"}
Stage == {"none", "QA_PENDING", "QA_PASSED", "SEND_READY", "SCHEDULED", "SENT"}
AuthorizedSendStages == {"SEND_READY", "SCHEDULED"}
ExecStep == {"idle", "due", "claim", "claimed", "gating", "releasing",
             "transport", "report_ok", "report_fail", "mark_sent"}
ReviewStep == {"idle", "approving", "rejecting"}

Init ==
  /\ status = [m \in Messages |-> "absent"]
  /\ stage = [m \in Messages |-> "none"]
  /\ attempts = [m \in Messages |-> 0]
  /\ approvedBy = [m \in Messages |-> FALSE]
  /\ keyBound = [m \in Messages |-> FALSE]
  /\ providerId = [m \in Messages |-> FALSE]
  /\ suppressed = {}
  /\ deliveries = [m \in Messages |-> 0]
  /\ epc = [e \in Executions |-> "idle"]
  /\ emsg = [e \in Executions |-> NoMessage]
  /\ rpc = [r \in Reviewers |-> "idle"]
  /\ rmsg = [r \in Reviewers |-> NoMessage]
  /\ rstage = [r \in Reviewers |-> "none"]
  /\ stopped = [m \in Messages |-> "no"]

-----------------------------------------------------------------------------
(* Drafts, QA and review.                                                  *)

\* Faulty: the status the schema names but no code writes.
DraftedDraft(m) ==
  /\ status[m] = "absent"
  /\ status' = [status EXCEPT ![m] = "drafted"]
  /\ stage' = [stage EXCEPT ![m] = "QA_PENDING"]
  /\ UNCHANGED <<attempts, approvedBy, keyBound, providerId, mailVars,
                 execVars, revVars, stopped>>

\* pipeline.create_draft_message: row and first stage in one transaction.
CreateDraft(m) ==
  /\ status[m] = "absent"
  /\ \A k \in Messages : k < m => status[k] # "absent"
  /\ status' = [status EXCEPT ![m] = "pending_approval"]
  /\ stage' = [stage EXCEPT ![m] = "QA_PENDING"]
  /\ UNCHANGED <<attempts, approvedBy, keyBound, providerId, mailVars,
                 execVars, revVars, stopped>>

\* Faulty: the compliance QA that clears a message queues it for sending, too.
QaAdvanceApproving(m) ==
  /\ \/ /\ stage[m] = "QA_PENDING"
        /\ stage' = [stage EXCEPT ![m] = "QA_PASSED"]
        /\ UNCHANGED status
     \/ /\ stage[m] = "QA_PASSED"
        /\ stage' = [stage EXCEPT ![m] = "SEND_READY"]
        /\ status' = [status EXCEPT ![m] = IF @ = "pending_approval" THEN "approved" ELSE @]
  /\ UNCHANGED <<attempts, approvedBy, keyBound, providerId, mailVars,
                 execVars, revVars, stopped>>

\* The copy's QA and the compliance QA, whenever they run; what they do is
\* module CopyQA's.  A message they fail stays where it is, for the sender.
QaAdvance(m) ==
  /\ \/ /\ stage[m] = "QA_PENDING"
        /\ stage' = [stage EXCEPT ![m] = "QA_PASSED"]
     \/ /\ stage[m] = "QA_PASSED"
        /\ stage' = [stage EXCEPT ![m] = "SEND_READY"]
  /\ UNCHANGED <<status, attempts, approvedBy, keyBound, providerId, mailVars,
                 execVars, revVars, stopped>>

\* A reviewer takes up a message.  With SerialReview nobody else holds it.
Take(r, m, step) ==
  /\ rpc[r] = "idle"
  /\ SerialReview => \A q \in Reviewers : rmsg[q] # m
  /\ rpc' = [rpc EXCEPT ![r] = step]
  /\ rmsg' = [rmsg EXCEPT ![r] = m]
  /\ rstage' = [rstage EXCEPT ![r] = stage[m]]
  /\ UNCHANGED <<rowVars, mailVars, execVars, stopped>>

PutDown(r) ==
  /\ rpc' = [rpc EXCEPT ![r] = "idle"]
  /\ rmsg' = [rmsg EXCEPT ![r] = NoMessage]
  /\ rstage' = [rstage EXCEPT ![r] = "none"]

\* Faulty: approve takes rejected messages, too.
ApproveReadRejected(r, m) ==
  /\ status[m] \in {"pending_approval", "rejected"}
  /\ stage[m] \in {"QA_PASSED", "SEND_READY"}
  /\ Take(r, m, "approving")

\* approve: the SELECT that checks status and stage ...
ApproveRead(r, m) ==
  /\ status[m] = "pending_approval"
  /\ stage[m] \in {"QA_PASSED", "SEND_READY"}
  /\ Take(r, m, "approving")

\* ... and the UPDATE by id, which does not check the status again.  A message
\* read at SEND_READY moves on to SCHEDULED in the same transaction; when its
\* stage has changed in between the transaction rolls back.
ApproveWrite(r) ==
  /\ rpc[r] = "approving"
  /\ LET m == rmsg[r] IN
       \/ /\ rstage[r] # "SEND_READY"
          /\ status' = [status EXCEPT ![m] = "approved"]
          /\ approvedBy' = [approvedBy EXCEPT ![m] = TRUE]
          /\ UNCHANGED stage
       \/ /\ rstage[r] = "SEND_READY" /\ stage[m] = "SEND_READY"
          /\ status' = [status EXCEPT ![m] = "approved"]
          /\ approvedBy' = [approvedBy EXCEPT ![m] = TRUE]
          /\ stage' = [stage EXCEPT ![m] = "SCHEDULED"]
       \/ /\ rstage[r] = "SEND_READY" /\ stage[m] # "SEND_READY"
          /\ UNCHANGED <<status, approvedBy, stage>>
  /\ PutDown(r)
  /\ UNCHANGED <<attempts, keyBound, providerId, mailVars, execVars, stopped>>

\* reject: any row that is not sent, again read first and written unguarded.
RejectRead(r, m) ==
  /\ status[m] \notin {"absent", "sent"}
  /\ Take(r, m, "rejecting")

RejectWrite(r) ==
  /\ rpc[r] = "rejecting"
  /\ status' = [status EXCEPT ![rmsg[r]] = "rejected"]
  /\ PutDown(r)
  /\ UNCHANGED <<stage, attempts, approvedBy, keyBound, providerId, mailVars,
                 execVars, stopped>>

-----------------------------------------------------------------------------
(* Replies.                                                                *)

\* classify_reply -> kill_switch: one transaction rejects the lead's pending
\* and approved messages; a message being sent is left to its execution.  The
\* lead row, the session purge, the task and the event are not read here.
Reply(l) ==
  LET mine == {m \in Messages : LeadOf[m] = l /\ status[m] # "absent"}
      hit  == {m \in mine : status[m] \in {"approved", "pending_approval"}}
      free == {m \in hit : \A r \in Reviewers : rmsg[r] # m}
  IN
  /\ status' = [m \in Messages |-> IF m \in hit THEN "rejected" ELSE status[m]]
  /\ stopped' = [m \in Messages |->
       IF stopped[m] # "no" \/ m \notin mine THEN stopped[m]
       ELSE IF m \in free THEN "killed" ELSE "in_hand"]
  /\ UNCHANGED <<stage, attempts, approvedBy, keyBound, providerId, mailVars,
                 execVars, revVars>>

\* apply_classification (UNSUBSCRIBE, NOT_INTERESTED) and every other writer
\* of the suppression list.
Suppress(l) ==
  /\ suppressed' = suppressed \union {l}
  /\ UNCHANGED <<rowVars, deliveries, execVars, revVars, stopped>>

-----------------------------------------------------------------------------
(* One execution of the transport workflow over one due message.           *)

Goto(e, step) ==
  /\ epc' = [epc EXCEPT ![e] = step]
  /\ emsg' = IF step = "idle" THEN [emsg EXCEPT ![e] = NoMessage] ELSE emsg

\* Faulty: the page holds the newest messages.
DueNewest ==
  {m \in Messages :
     /\ status[m] = "approved"
     /\ Cardinality({k \in Messages : status[k] = "approved" /\ k > m}) < DueLimit}

\* due_sends: approved rows, oldest first, DueLimit of them.
Due ==
  {m \in Messages :
     /\ status[m] = "approved"
     /\ Cardinality({k \in Messages : status[k] = "approved" /\ k < m}) < DueLimit}

Poll(e, m) ==
  /\ epc[e] = "idle"
  /\ m \in Due
  /\ epc' = [epc EXCEPT ![e] = "due"]
  /\ emsg' = [emsg EXCEPT ![e] = m]
  /\ UNCHANGED <<rowVars, mailVars, revVars, stopped>>

\* claim_for_send, first transaction: a row with the key and a provider id is
\* answered from the row and goes no further.
ReplayCheck(e) ==
  /\ epc[e] = "due"
  /\ IF keyBound[emsg[e]] /\ providerId[emsg[e]] THEN Goto(e, "idle")
                                                 ELSE Goto(e, "claim")
  /\ UNCHANGED <<rowVars, mailVars, revVars, stopped>>

\* The claim, on rows whose status is in from.
ClaimFrom(e, from) ==
  /\ epc[e] = "claim"
  /\ status[emsg[e]] \in from
  /\ status' = [status EXCEPT ![emsg[e]] = "sending"]
  /\ Goto(e, "claimed")
  /\ UNCHANGED <<stage, attempts, approvedBy, keyBound, providerId, mailVars,
                 revVars, stopped>>

\* Faulty: a row being sent may be claimed again.
ClaimTwice(e) == ClaimFrom(e, {"approved", "sending"})

\* UPDATE ... SET status='sending' WHERE status='approved', atomic.
Claim(e) == ClaimFrom(e, {"approved"})

\* n8n tries a refused claim again; that is a later Poll of the same message.
ClaimRefused(e) ==
  /\ epc[e] = "claim"
  /\ status[emsg[e]] # "approved"
  /\ Goto(e, "idle")
  /\ UNCHANGED <<rowVars, mailVars, revVars, stopped>>

\* The key goes into the row in a transaction of its own.
BindKey(e) ==
  /\ epc[e] = "claimed"
  /\ keyBound' = [keyBound EXCEPT ![emsg[e]] = TRUE]
  /\ Goto(e, "gating")
  /\ UNCHANGED <<status, stage, attempts, approvedBy, providerId, mailVars,
                 revVars, stopped>>

\* can_send and the checks after it, on what the tables say now.
Sendable(m) ==
  /\ LeadOf[m] \notin suppressed
  /\ stage[m] \in AuthorizedSendStages

GatePass(e) ==
  /\ epc[e] = "gating"
  /\ Sendable(emsg[e])
  /\ Goto(e, "transport")
  /\ UNCHANGED <<rowVars, mailVars, revVars, stopped>>

GateBlock(e) ==
  /\ epc[e] = "gating"
  /\ ~Sendable(emsg[e]) \/ OtherGates
  /\ Goto(e, "releasing")
  /\ UNCHANGED <<rowVars, mailVars, revVars, stopped>>

\* _release_claim: back to approved unless somebody moved the row.
Release(e) ==
  /\ epc[e] = "releasing"
  /\ status' = IF status[emsg[e]] = "sending"
               THEN [status EXCEPT ![emsg[e]] = "approved"] ELSE status
  /\ Goto(e, "idle")
  /\ UNCHANGED <<stage, attempts, approvedBy, keyBound, providerId, mailVars,
                 revVars, stopped>>

Deliver(m) ==
  deliveries' = [deliveries EXCEPT ![m] = IF @ < Many THEN @ + 1 ELSE @]

\* The Send Email node; its own retries are steps that change nothing.
SmtpOk(e) ==
  /\ epc[e] = "transport"
  /\ Deliver(emsg[e])
  /\ Goto(e, "report_ok")
  /\ UNCHANGED <<rowVars, suppressed, revVars, stopped>>

\* Faulty: the workflow continues after an error as if the mail had gone out.
SmtpErrorContinues(e) ==
  /\ epc[e] = "transport"
  /\ Goto(e, "report_ok")
  /\ UNCHANGED <<rowVars, mailVars, revVars, stopped>>

\* An error of the node ends the execution, which leaves the row as it is;
\* with its second output enabled it goes on to the report of a failure.
AfterError(e) == Goto(e, "idle") \/ (ErrorOutput /\ Goto(e, "report_fail"))

\* The last try fails, and the mail did not go out.
SmtpError(e) ==
  /\ epc[e] = "transport"
  /\ AfterError(e)
  /\ UNCHANGED <<rowVars, mailVars, revVars, stopped>>

\* The mail went out, but the node sees an error and sends it again (a retry of
\* the node also repeats its items that went well), or gives up.
SmtpAnswerLost(e) ==
  /\ "smtp" \in LostAnswers
  /\ epc[e] = "transport"
  /\ Deliver(emsg[e])
  /\ Goto(e, "transport") \/ AfterError(e)
  /\ UNCHANGED <<rowVars, suppressed, revVars, stopped>>

\* A report's answer may get lost, and n8n reports again.
Reported(e, what, step) ==
  Goto(e, "idle") \/ (what \in LostAnswers /\ Goto(e, step))

\* apply_send_result(ok), first transaction: guarded by status='sending'.
ReportOk(e) ==
  /\ epc[e] = "report_ok"
  /\ LET m == emsg[e] IN
       \/ /\ status[m] = "sending"
          /\ status' = [status EXCEPT ![m] = "sent"]
          /\ providerId' = [providerId EXCEPT ![m] = TRUE]
          /\ IF stage[m] = "SCHEDULED" THEN Goto(e, "mark_sent")
                                       ELSE Reported(e, "sent", "report_ok")
       \/ /\ status[m] # "sending"
          /\ UNCHANGED <<status, providerId>>
          /\ Goto(e, "idle")
  /\ UNCHANGED <<stage, attempts, approvedBy, keyBound, mailVars, revVars,
                 stopped>>

\* Second transaction: the stage follows if the message was SCHEDULED.
MarkSent(e) ==
  /\ epc[e] = "mark_sent"
  /\ stage' = IF stage[emsg[e]] = "SCHEDULED"
              THEN [stage EXCEPT ![emsg[e]] = "SENT"] ELSE stage
  /\ Reported(e, "sent", "report_ok")
  /\ UNCHANGED <<status, attempts, approvedBy, keyBound, providerId, mailVars,
                 revVars, stopped>>

FailWith(e, limit) ==
  /\ epc[e] = "report_fail"
  /\ LET m == emsg[e] IN
       /\ attempts' = [attempts EXCEPT ![m] = IF @ < MaxAttempts THEN @ + 1 ELSE @]
       /\ status' = [status EXCEPT ![m] =
                       IF attempts[m] + 1 >= limit THEN "failed" ELSE "approved"]
  /\ Reported(e, "failed", "report_fail")
  /\ UNCHANGED <<stage, approvedBy, keyBound, providerId, mailVars, revVars,
                 stopped>>

\* Faulty: one attempt too many.
ReportFailLate(e) == FailWith(e, MaxAttempts + 1)

\* apply_send_result(failure) -> record_failure: by id, whatever the status.
ReportFail(e) == FailWith(e, MaxAttempts)

\* The answer to a successful claim is lost and n8n claims again.
ClaimAnswerLost(e) ==
  /\ "claim" \in LostAnswers
  /\ epc[e] = "transport"
  /\ Goto(e, "due")
  /\ UNCHANGED <<rowVars, mailVars, revVars, stopped>>

\* The workflow stops (a node without error output failed) or the API process
\* dies inside the call: nothing ever resumes this message's execution.
Abort(e) ==
  /\ Aborts
  /\ epc[e] # "idle"
  /\ Goto(e, "idle")
  /\ UNCHANGED <<rowVars, mailVars, revVars, stopped>>

-----------------------------------------------------------------------------
\* What an execution does on its own, without the environment failing.
Work(e) ==
  \/ ReplayCheck(e) \/ Claim(e) \/ ClaimRefused(e) \/ BindKey(e)
  \/ GatePass(e) \/ GateBlock(e) \/ Release(e)
  \/ SmtpOk(e) \/ SmtpError(e)
  \/ ReportOk(e) \/ MarkSent(e) \/ ReportFail(e)

Loss(e) == ClaimAnswerLost(e) \/ SmtpAnswerLost(e) \/ Abort(e)

Review(r) ==
  \/ \E m \in Messages : ApproveRead(r, m) \/ RejectRead(r, m)
  \/ ApproveWrite(r) \/ RejectWrite(r)

Next ==
  \/ \E m \in Messages : CreateDraft(m) \/ QaAdvance(m)
  \/ \E l \in Leads : Reply(l) \/ Suppress(l)
  \/ \E r \in Reviewers : Review(r)
  \/ \E e \in Executions : (\E m \in Messages : Poll(e, m)) \/ Work(e) \/ Loss(e)

Spec == Init /\ [][Next]_vars

\* n8n keeps going: an execution that has started finishes its steps, and the
\* workflow, fired every 15 minutes, comes to every message of the due page.
FairSpec ==
  /\ Spec
  /\ \A e \in Executions : WF_vars(Work(e))
  /\ \A e \in Executions, m \in Messages : SF_vars(Poll(e, m))

-----------------------------------------------------------------------------
(* Properties.                                                             *)

TypeOK ==
  /\ status \in [Messages -> Status]
  /\ stage \in [Messages -> Stage]
  /\ attempts \in [Messages -> 0 .. MaxAttempts]
  /\ approvedBy \in [Messages -> BOOLEAN]
  /\ keyBound \in [Messages -> BOOLEAN]
  /\ providerId \in [Messages -> BOOLEAN]
  /\ suppressed \subseteq Leads
  /\ deliveries \in [Messages -> 0 .. Many]
  /\ epc \in [Executions -> ExecStep]
  /\ emsg \in [Executions -> Messages \union {NoMessage}]
  /\ rpc \in [Reviewers -> ReviewStep]
  /\ rmsg \in [Reviewers -> Messages \union {NoMessage}]
  /\ rstage \in [Reviewers -> Stage]
  /\ stopped \in [Messages -> {"no", "in_hand", "killed"}]

\* Nothing reaches a recipient, and nothing is on its way to one, unless a
\* human approval is recorded (INV-002): holds however the reviewers, the
\* executions and the network interleave.
ApprovedBeforeSend ==
  \A m \in Messages :
    deliveries[m] > 0 \/ status[m] \in {"approved", "sending", "sent", "failed"}
      => approvedBy[m]

\* A message recorded as sent, in its status or in its stage, was delivered:
\* apply_send_result believes only an execution that got through SMTP.
SentWasDelivered ==
  \A m \in Messages :
    status[m] = "sent" \/ stage[m] = "SENT" \/ providerId[m] => deliveries[m] > 0

\* A message is delivered at most once (idempotency key, atomic claim, guarded
\* report).
AtMostOnce == \A m \in Messages : deliveries[m] <= 1

\* The idempotent replay answers for exactly the messages that were delivered
\* once and are settled: never one that is still to be sent.
ReplayIsTruthful ==
  \A m \in Messages :
    providerId[m] => /\ keyBound[m] /\ deliveries[m] = 1
                     /\ status[m] \in {"sent", "rejected"}

\* record_failure's budget: a message waiting to be sent, or being sent, has
\* attempts left, and a dead letter has none.
AttemptBudget ==
  \A m \in Messages :
    /\ status[m] \in {"pending_approval", "approved", "sending"}
         => attempts[m] < MaxAttempts
    /\ status[m] = "failed" => attempts[m] = MaxAttempts

\* A message the kill switch rejected while nobody had it in hand stays
\* rejected: no approval and no failure report that was on its way revives it.
KilledStaysDown == \A m \in Messages : stopped[m] = "killed" => status[m] = "rejected"

\* A lead's reply stops its automation: after it, no message that existed when
\* it came is claimed for sending.
NoClaimAfterReply ==
  [][\A m \in Messages :
       status[m] = "approved" /\ status'[m] = "sending" => stopped[m] = "no"]_vars

\* The promise of the path as a whole, stated in SendOnce.
Promise == INSTANCE SendOnce WITH
  approved <- {m \in Messages : approvedBy[m]},
  copies   <- deliveries,
  dead     <- {m \in Messages : attempts[m] = MaxAttempts}

\* Every step of the email path delivers an approved message for the first
\* time, approves, buries a message that was never delivered, or changes
\* nothing the promise speaks of.
SendsOnce == Promise!SSpec

\* A claim does not last: what is being sent is reported on or released, and
\* after a failure the message waits for another try or is dead-lettered.
SendingResolves ==
  \A m \in Messages : status[m] = "sending" ~> status[m] # "sending"

\* A claimed message nobody works on: no poll sees it again.
Stranded(m) == status[m] = "sending" /\ \A e \in Executions : emsg[e] # m

\* The page is full of older messages that the gate turns back each time.
Crowded(m) ==
  LET older == {k \in Messages : /\ k < m /\ ~Sendable(k)
                                 /\ status[k] \in {"approved", "sending"}}
  IN Cardinality(older) >= DueLimit

\* An approved message that passes its gates is sent, dead-lettered or
\* rejected in the end.  Exactly three things may keep it: its lead is
\* suppressed meanwhile, the execution that claimed it is gone, or from some
\* time on as many older messages as a page holds are blocked for ever; younger
\* messages, and fewer blocked ones, do not.
ApprovedServed ==
  \A m \in Messages :
    (status[m] = "approved" /\ stage[m] \in AuthorizedSendStages) ~>
      \/ status[m] \in {"sent", "failed", "rejected"}
      \/ LeadOf[m] \in suppressed \/ Stranded(m)
      \/ []Crowded(m)

=============================================================================
