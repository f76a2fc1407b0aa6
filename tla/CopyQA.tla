------------------------------- MODULE CopyQA -------------------------------
(***************************************************************************)
(* One managed draft on its way through QA, human approval and the sender  *)
(* gate: services/gtm_lifecycle.py (the stage machine), services/          *)
(* qa_service.py (run_copy_qa, run_compliance_qa, resubmit_copy) and the   *)
(* parts of email_service and outbound_gate that read what they leave.     *)
(*                                                                         *)
(* The draft's text may be replaced; the question is which text a verdict, *)
(* an approval or a delivery was about.  Every transaction is one step.    *)
(***************************************************************************)
EXTENDS Naturals, FiniteSets

CONSTANTS
  Checkers,      \* concurrent QA runs (sweep of GTM_QA, dashboard, n8n)
  Authors,       \* concurrent resubmissions
  NoText,        \* "no text in hand"
  Ceiling,       \* gtm_copy_max_attempts
  MaxText,       \* bound: texts written for the draft
  MaxRuns,       \* bound: copy QA runs started
  SerialResubmit \* TRUE: a resubmission starts only at stage QA_FAILED

ASSUME CopyAssumption ==
  /\ Ceiling \in Nat \ {0}
  /\ MaxText \in Nat \ {0}
  /\ MaxRuns \in Nat
  /\ NoText \notin Nat
  /\ SerialResubmit \in BOOLEAN

VARIABLES
  stage,      \* messages.gtm_stage
  status,     \* messages.status
  text,       \* number of the current body_text
  good,       \* the current text passes the deterministic copy checks
  runs,       \* copy rows of qa_runs: started (order of created_at), attempt,
              \* passed, and the text they judged (which the table lacks)
  compliance, \* compliance rows of qa_runs: the latest verdict, and if one passed
  started,    \* copy QA store transactions begun so far
  chk,        \* every checker's step and what it has read
  aut,        \* every author's step and what it has read
  apr,        \* the approve request: step, stage read, text shown
  snd,        \* the claim in progress: step and text loaded
  approvedText, \* texts a human approved (history)
  sentText,     \* texts delivered (history)
  requeues      \* resubmissions that put the draft back in the queue (history)

rowVars == <<stage, status, text, good>>
qaVars  == <<runs, compliance, started>>
history == <<approvedText, sentText, requeues>>
vars == <<stage, status, text, good, runs, compliance, started,
          chk, aut, apr, snd, approvedText, sentText, requeues>>

Stages == {"COPY_GENERATED", "QA_PENDING", "QA_PASSED", "QA_FAILED",
           "COMPLIANCE_PENDING", "COMPLIANCE_FAILED", "SEND_READY",
           "SCHEDULED", "SENT", "HELD"}

AuthorizedSendStages == {"SEND_READY", "SCHEDULED"}

\* TRANSITIONS, without the stages no code moves a draft to.
Transitions == [s \in Stages |->
  CASE s = "COPY_GENERATED"     -> {"QA_PENDING"}
    [] s = "QA_PENDING"         -> {"QA_PASSED", "QA_FAILED", "HELD"}
    [] s = "QA_FAILED"          -> {"COPY_GENERATED", "HELD"}
    [] s = "QA_PASSED"          -> {"COMPLIANCE_PENDING"}
    [] s = "COMPLIANCE_PENDING" -> {"SEND_READY", "COMPLIANCE_FAILED", "HELD"}
    [] s = "COMPLIANCE_FAILED"  -> {"COPY_GENERATED", "HELD"}
    [] s = "SEND_READY"         -> {"SCHEDULED", "HELD"}
    [] s = "SCHEDULED"          -> {"SENT", "HELD"}
    [] s = "HELD"               -> {"QA_PENDING"}
    [] OTHER                    -> {}]

\* transition_message: the move, or InvalidTransition, which changes nothing.
\* Its read and its compare-and-set are one step: a stage that changed in
\* between ends in InvalidTransition as well.
Move(to) == stage' = IF to \in Transitions[stage] THEN to ELSE stage

Checking == [pc : {"idle", "count", "insert", "move",
                   "comp_store", "comp_begin", "comp_end"},
             stage : Stages, passed : BOOLEAN, text : 1 .. MaxText,
             started : 0 .. MaxRuns, attempt : 1 .. MaxRuns + 1]
IdleChecker == [pc |-> "idle", stage |-> "QA_PENDING", passed |-> FALSE,
                text |-> 1, started |-> 0, attempt |-> 1]

Compliance == [latest : {"none", "passed", "failed"}, passed : BOOLEAN]

Run == [started : 1 .. MaxRuns, attempt : 1 .. MaxRuns, passed : BOOLEAN,
        text : 1 .. MaxText]

\* latest_run: ORDER BY created_at DESC, which is when the insert began.
Latest == {r \in runs : \A q \in runs : q.started <= r.started}
LatestPassed == \E r \in Latest : r.passed
LatestFailed == \E r \in Latest : ~r.passed

Init ==
  /\ stage = "QA_PENDING" /\ status = "pending_approval"
  /\ text = 1 /\ good \in BOOLEAN
  /\ runs = {} /\ started = 0
  /\ compliance = [latest |-> "none", passed |-> FALSE]
  /\ chk = [c \in Checkers |-> IdleChecker]
  /\ aut = [a \in Authors |-> "idle"]
  /\ apr = [pc |-> "idle", stage |-> "QA_PENDING", text |-> 1]
  /\ snd = [pc |-> "idle", text |-> NoText]
  /\ approvedText = {} /\ sentText = {} /\ requeues = 0

-----------------------------------------------------------------------------
(* run_copy_qa                                                             *)

\* _load_copy_message and the checks: what the verdict will be is fixed here.
CopyLoad(c) ==
  /\ chk[c].pc = "idle"
  /\ chk' = [chk EXCEPT ![c] = [IdleChecker EXCEPT !.pc = "count",
               !.stage = stage, !.passed = good, !.text = text]]
  /\ UNCHANGED <<rowVars, qaVars, aut, apr, snd, history>>

\* n is COALESCE(MAX(attempt), 0) of the copy runs.
IsMaxAttempt(n) ==
  /\ \A r \in runs : r.attempt <= n
  /\ n = 0 \/ \E r \in runs : r.attempt = n

CountFrom(c, first) ==
  /\ chk[c].pc = "count"
  /\ started < MaxRuns
  /\ started' = started + 1
  /\ \E n \in 0 .. MaxRuns :
       /\ IsMaxAttempt(n)
       /\ chk' = [chk EXCEPT ![c] = [@ EXCEPT !.pc = "insert",
                    !.started = started + 1, !.attempt = n + first]]
  /\ UNCHANGED <<rowVars, runs, compliance, aut, apr, snd, history>>

\* Faulty: the first attempt is number 0.
CopyCountFromZero(c) == CountFrom(c, 0)

\* _store_qa_run begins (created_at is now) and reads MAX(attempt) ...
CopyCount(c) == CountFrom(c, 1)

\* ... and inserts.
CopyInsert(c) ==
  /\ chk[c].pc = "insert"
  /\ runs' = runs \union {[started |-> chk[c].started, attempt |-> chk[c].attempt,
                           passed |-> chk[c].passed, text |-> chk[c].text]}
  /\ chk' = [chk EXCEPT ![c] = [@ EXCEPT !.pc = "move"]]
  /\ UNCHANGED <<rowVars, compliance, started, aut, apr, snd, history>>

\* A draft read at QA_PENDING moves on; one read elsewhere is a QAError after
\* its run was stored.
CopyMove(c) ==
  /\ chk[c].pc = "move"
  /\ IF chk[c].stage = "QA_PENDING"
     THEN Move(IF chk[c].passed THEN "QA_PASSED" ELSE "QA_FAILED")
     ELSE UNCHANGED stage
  /\ chk' = [chk EXCEPT ![c] = IdleChecker]
  /\ UNCHANGED <<status, text, good, qaVars, aut, apr, snd, history>>

\* An evidence signal of the text expires: it would fail from now on.
Expire ==
  /\ good /\ good' = FALSE
  /\ UNCHANGED <<stage, status, text, qaVars, chk, aut, apr, snd, history>>

-----------------------------------------------------------------------------
(* run_compliance_qa; its verdict depends on tables not modelled here.     *)

CompLoad(c) ==
  /\ chk[c].pc = "idle"
  /\ \E ok \in BOOLEAN :
       chk' = [chk EXCEPT ![c] = [IdleChecker EXCEPT !.pc = "comp_store",
                 !.stage = stage, !.passed = ok]]
  /\ UNCHANGED <<rowVars, qaVars, aut, apr, snd, history>>

\* The run is stored whatever the stage; only two stages go on.
CompStore(c) ==
  /\ chk[c].pc = "comp_store"
  /\ compliance' = [latest |-> IF chk[c].passed THEN "passed" ELSE "failed",
                     passed |-> compliance.passed \/ chk[c].passed]
  /\ chk' = [chk EXCEPT ![c] =
       IF chk[c].stage = "QA_PASSED" THEN [@ EXCEPT !.pc = "comp_begin"]
       ELSE IF chk[c].stage = "COMPLIANCE_PENDING" THEN [@ EXCEPT !.pc = "comp_end"]
       ELSE IdleChecker]
  /\ UNCHANGED <<rowVars, runs, started, aut, apr, snd, history>>

CompBegin(c) ==
  /\ chk[c].pc = "comp_begin"
  /\ Move("COMPLIANCE_PENDING")
  /\ chk' = [chk EXCEPT ![c] = IF stage = "QA_PASSED"
                               THEN [@ EXCEPT !.pc = "comp_end"] ELSE IdleChecker]
  /\ UNCHANGED <<status, text, good, qaVars, aut, apr, snd, history>>

\* Faulty: the stage moves on whatever the verdict.
CompEndOnFailure(c) ==
  /\ chk[c].pc = "comp_end"
  /\ Move("SEND_READY")
  /\ chk' = [chk EXCEPT ![c] = IdleChecker]
  /\ UNCHANGED <<status, text, good, qaVars, aut, apr, snd, history>>

CompEnd(c) ==
  /\ chk[c].pc = "comp_end"
  /\ Move(IF chk[c].passed THEN "SEND_READY" ELSE "COMPLIANCE_FAILED")
  /\ chk' = [chk EXCEPT ![c] = IdleChecker]
  /\ UNCHANGED <<status, text, good, qaVars, aut, apr, snd, history>>

-----------------------------------------------------------------------------
(* resubmit_copy                                                           *)

ReadUpTo(a, ceiling) ==
  /\ aut[a] = "idle"
  /\ SerialResubmit => stage = "QA_FAILED"
  /\ \E r \in Latest :
       /\ ~r.passed
       /\ aut' = [aut EXCEPT ![a] = IF r.attempt + 1 > ceiling THEN "hold" ELSE "write"]
  /\ UNCHANGED <<rowVars, qaVars, chk, apr, snd, history>>

\* Faulty: one attempt too many.
ResubReadLate(a) == ReadUpTo(a, Ceiling + 1)

\* The latest run decides: nothing to do, attempts left, or attempts used up.
\* The draft's stage is not looked at; callers may (SerialResubmit).
ResubRead(a) == ReadUpTo(a, Ceiling)

\* Faulty: a draft that was held goes on to be queued again.
ResubHoldFallsThrough(a) ==
  /\ aut[a] = "hold"
  /\ Move("HELD")
  /\ aut' = [aut EXCEPT ![a] = "requeue"]
  /\ UNCHANGED <<status, text, good, qaVars, chk, apr, snd, history>>

ResubHold(a) ==
  /\ aut[a] = "hold"
  /\ Move("HELD")
  /\ aut' = [aut EXCEPT ![a] = "idle"]
  /\ UNCHANGED <<status, text, good, qaVars, chk, apr, snd, history>>

\* The new text goes into the row before any stage is checked.
ResubWrite(a) ==
  /\ aut[a] = "write"
  /\ text < MaxText
  /\ text' = text + 1
  /\ good' \in BOOLEAN
  /\ aut' = [aut EXCEPT ![a] = "generated"]
  /\ UNCHANGED <<stage, status, qaVars, chk, apr, snd, history>>

ResubGenerated(a) ==
  /\ aut[a] = "generated"
  /\ Move("COPY_GENERATED")
  /\ aut' = [aut EXCEPT ![a] = IF "COPY_GENERATED" \in Transitions[stage]
                               THEN "requeue" ELSE "idle"]
  /\ UNCHANGED <<status, text, good, qaVars, chk, apr, snd, history>>

ResubRequeue(a) ==
  /\ aut[a] = "requeue"
  /\ Move("QA_PENDING")
  /\ requeues' = requeues + 1
  /\ aut' = [aut EXCEPT ![a] = "idle"]
  /\ UNCHANGED <<status, text, good, qaVars, chk, apr, snd, approvedText, sentText>>

-----------------------------------------------------------------------------
(* Approval and sending.                                                   *)

\* Faulty: the stage is not asked for.
ApproveReadAnyStage ==
  /\ apr.pc = "idle"
  /\ status = "pending_approval"
  /\ apr' = [pc |-> "write", stage |-> stage, text |-> text]
  /\ UNCHANGED <<rowVars, qaVars, chk, aut, snd, history>>

ApproveRead ==
  /\ apr.pc = "idle"
  /\ status = "pending_approval" /\ stage \in {"QA_PASSED", "SEND_READY"}
  /\ apr' = [pc |-> "write", stage |-> stage, text |-> text]
  /\ UNCHANGED <<rowVars, qaVars, chk, aut, snd, history>>

\* One transaction: approved and, when read at SEND_READY, SCHEDULED; or, if
\* the stage has left SEND_READY, neither.
ApproveWrite ==
  /\ apr.pc = "write"
  /\ IF apr.stage = "SEND_READY" /\ stage # "SEND_READY"
     THEN UNCHANGED <<stage, status, approvedText>>
     ELSE /\ status' = "approved"
          /\ approvedText' = approvedText \union {apr.text}
          /\ IF apr.stage = "SEND_READY" THEN Move("SCHEDULED") ELSE UNCHANGED stage
  /\ apr' = [apr EXCEPT !.pc = "idle"]
  /\ UNCHANGED <<text, good, qaVars, chk, aut, snd, sentText, requeues>>

SendClaim ==
  /\ snd.pc = "idle" /\ status = "approved"
  /\ status' = "sending"
  /\ snd' = [snd EXCEPT !.pc = "load"]
  /\ UNCHANGED <<stage, text, good, qaVars, chk, aut, apr, history>>

\* claim_for_send loads the text before the gate looks at runs and stage.
SendLoad ==
  /\ snd.pc = "load"
  /\ snd' = [pc |-> "gate", text |-> text]
  /\ UNCHANGED <<rowVars, qaVars, chk, aut, apr, history>>

\* can_send's checks copy_qa_passed, compliance_passed, stage_authorized.
GateOpen ==
  /\ LatestPassed
  /\ compliance.latest = "passed"
  /\ stage \in AuthorizedSendStages

SendGate ==
  /\ snd.pc = "gate"
  /\ IF GateOpen THEN /\ snd' = [snd EXCEPT !.pc = "transport"]
                      /\ UNCHANGED status
                 ELSE /\ snd' = [pc |-> "idle", text |-> NoText]
                      /\ status' = "approved"
  /\ UNCHANGED <<stage, text, good, qaVars, chk, aut, apr, history>>

\* Transport fails: back to approved (the attempts are EmailSend's).
SendFail ==
  /\ snd.pc = "transport"
  /\ status' = "approved"
  /\ snd' = [pc |-> "idle", text |-> NoText]
  /\ UNCHANGED <<stage, text, good, qaVars, chk, aut, apr, history>>

SendOk ==
  /\ snd.pc = "transport"
  /\ sentText' = sentText \union {snd.text}
  /\ snd' = [pc |-> "report", text |-> NoText]
  /\ UNCHANGED <<rowVars, qaVars, chk, aut, apr, approvedText, requeues>>

\* apply_send_result: the row is sent; a row read as SCHEDULED gets its stage
\* in a second transaction.
SendReport ==
  /\ snd.pc = "report"
  /\ status' = "sent"
  /\ snd' = [snd EXCEPT !.pc = IF stage = "SCHEDULED" THEN "mark" ELSE "idle"]
  /\ UNCHANGED <<stage, text, good, qaVars, chk, aut, apr, history>>

SendMark ==
  /\ snd.pc = "mark"
  /\ Move("SENT")
  /\ snd' = [snd EXCEPT !.pc = "idle"]
  /\ UNCHANGED <<status, text, good, qaVars, chk, aut, apr, history>>

-----------------------------------------------------------------------------
\* The API process dies in the middle of a QA run or a resubmission.
Crash ==
  /\ \/ /\ \E c \in Checkers : chk[c].pc # "idle" /\ chk' = [chk EXCEPT ![c] = IdleChecker]
        /\ UNCHANGED aut
     \/ /\ \E a \in Authors : aut[a] # "idle" /\ aut' = [aut EXCEPT ![a] = "idle"]
        /\ UNCHANGED chk
  /\ UNCHANGED <<rowVars, qaVars, apr, snd, history>>

Check(c) ==
  \/ CopyLoad(c) \/ CopyCount(c) \/ CopyInsert(c) \/ CopyMove(c)
  \/ CompLoad(c) \/ CompStore(c) \/ CompBegin(c) \/ CompEnd(c)

Resubmit(a) ==
  \/ ResubRead(a) \/ ResubHold(a) \/ ResubWrite(a)
  \/ ResubGenerated(a) \/ ResubRequeue(a)

Approval == ApproveRead \/ ApproveWrite

Sending ==
  \/ SendClaim \/ SendLoad \/ SendGate \/ SendFail
  \/ SendOk \/ SendReport \/ SendMark

Next ==
  \/ \E c \in Checkers : Check(c)
  \/ \E a \in Authors : Resubmit(a)
  \/ Approval \/ Sending \/ Expire \/ Crash

Spec == Init /\ [][Next]_vars

-----------------------------------------------------------------------------
(* Properties.                                                             *)

TypeOK ==
  /\ stage \in Stages
  /\ status \in {"pending_approval", "approved", "sending", "sent"}
  /\ text \in 1 .. MaxText /\ good \in BOOLEAN
  /\ runs \subseteq Run
  /\ compliance \in Compliance
  /\ started \in 0 .. MaxRuns
  /\ chk \in [Checkers -> Checking]
  /\ aut \in [Authors -> {"idle", "hold", "write", "generated", "requeue"}]
  /\ apr \in [pc : {"idle", "write"}, stage : Stages, text : 1 .. MaxText]
  /\ snd \in [pc : {"idle", "load", "gate", "transport", "report", "mark"},
              text : (1 .. MaxText) \union {NoText}]
  /\ approvedText \subseteq 1 .. MaxText
  /\ sentText \subseteq 1 .. MaxText
  /\ requeues \in Nat

\* A draft authorised for sending has a copy run that passed and a compliance run
\* that passed: no order of QA runs, of runs of the other kind in between, of
\* resubmissions and of crashes gets it there without ("It cannot be bypassed").
AuthorizedWasReviewed ==
  stage \in AuthorizedSendStages \union {"SENT"} =>
    (\E r \in runs : r.passed) /\ compliance.passed

\* The very text that was delivered passed copy QA and was approved by a human.
ReviewedTextSent ==
  \A t \in sentText : (\E r \in runs : r.passed /\ r.text = t) /\ t \in approvedText

\* The attempts ceiling bounds how often a draft is put back in the queue.
RequeueBudget == requeues < Ceiling

\* Nothing but an operator takes a draft out of HELD.
HeldIsFinal == [][stage = "HELD" => stage' = "HELD"]_vars

=============================================================================
