--------------------------- MODULE EmailSendProofs ---------------------------
(***************************************************************************)
(* Theorems about EmailSend, for every value of its constants.             *)
(*                                                                         *)
(* First, what holds whatever reviewers, network and processes do: the     *)
(* types, ApprovedBeforeSend and SentWasDelivered, from one inductive      *)
(* invariant, Always.                                                      *)
(***************************************************************************)
EXTENDS EmailSend, TLAPS

\* Who is busy has a message in hand.
InHand ==
  /\ \A e \in Executions : epc[e] # "idle" => emsg[e] \in Messages
  /\ \A r \in Reviewers : rpc[r] # "idle" => rmsg[r] \in Messages

Claimed == {"claimed", "gating", "releasing", "transport",
            "report_ok", "report_fail", "mark_sent"}

\* An execution got its claim from an approved row, and approved_by is never
\* cleared.
ClaimedIsApproved ==
  \A e \in Executions : epc[e] \in Claimed => approvedBy[emsg[e]]

\* Only an execution that got through SMTP reports success.
ReportedIsDelivered ==
  \A e \in Executions :
    epc[e] \in {"report_ok", "mark_sent"} => deliveries[emsg[e]] > 0

Always ==
  /\ TypeOK
  /\ InHand
  /\ ClaimedIsApproved
  /\ ApprovedBeforeSend
  /\ ReportedIsDelivered
  /\ SentWasDelivered

-----------------------------------------------------------------------------
\* The initial state satisfies the invariant.
LEMMA AlwaysInit == Init => Always
  BY EmailAssumption DEF Init, Always, TypeOK, InHand, ClaimedIsApproved, Claimed,
     ApprovedBeforeSend, ReportedIsDelivered, SentWasDelivered, Status, Stage,
     ExecStep, ReviewStep, Many

\* Every step keeps the types and the messages in hand.
LEMMA TypeStep == TypeOK /\ InHand /\ [Next]_vars => (TypeOK /\ InHand)'
<1> SUFFICES ASSUME TypeOK, InHand, [Next]_vars PROVE (TypeOK /\ InHand)'
  OBVIOUS
<1> USE EmailAssumption DEF TypeOK, InHand, Status, Stage, ExecStep, ReviewStep, Many
<1> USE DEF rowVars, mailVars, execVars, revVars
<1>1. ASSUME NEW m \in Messages, CreateDraft(m) PROVE (TypeOK /\ InHand)'
  BY <1>1 DEF CreateDraft
<1>2. ASSUME NEW m \in Messages, QaAdvance(m) PROVE (TypeOK /\ InHand)'
  BY <1>2 DEF QaAdvance
<1>3. ASSUME NEW l \in Leads, Reply(l) PROVE (TypeOK /\ InHand)'
  BY <1>3 DEF Reply
<1>4. ASSUME NEW l \in Leads, Suppress(l) PROVE (TypeOK /\ InHand)'
  BY <1>4 DEF Suppress
<1>5. ASSUME NEW r \in Reviewers, NEW m \in Messages, ApproveRead(r, m) \/ RejectRead(r, m)
      PROVE (TypeOK /\ InHand)'
  BY <1>5 DEF ApproveRead, RejectRead, Take
<1>6. ASSUME NEW r \in Reviewers, ApproveWrite(r) PROVE (TypeOK /\ InHand)'
  <2> DEFINE m == rmsg[r]
  <2>1. m \in Messages /\ rpc[r] = "approving"
    BY <1>6 DEF ApproveWrite
  <2>2. /\ status' \in [Messages -> Status]
        /\ stage' \in [Messages -> Stage]
        /\ approvedBy' \in [Messages -> BOOLEAN]
    <3> HIDE DEF m
    <3>1. CASE rstage[r] # "SEND_READY"
      BY <1>6, <2>1, <3>1 DEF ApproveWrite, m
    <3>2. CASE rstage[r] = "SEND_READY" /\ stage[m] = "SEND_READY"
      BY <1>6, <2>1, <3>2 DEF ApproveWrite, m
    <3>3. CASE rstage[r] = "SEND_READY" /\ stage[m] # "SEND_READY"
      BY <1>6, <2>1, <3>3 DEF ApproveWrite, m
    <3> QED
      BY <3>1, <3>2, <3>3
  <2>3. UNCHANGED <<attempts, keyBound, providerId, mailVars, execVars, stopped>>
    BY <1>6 DEF ApproveWrite
  <2>4. PutDown(r)
    BY <1>6 DEF ApproveWrite
  <2> QED
    BY <2>2, <2>3, <2>4 DEF PutDown
<1>7. ASSUME NEW r \in Reviewers, RejectWrite(r) PROVE (TypeOK /\ InHand)'
  BY <1>7 DEF RejectWrite, PutDown
<1>8. ASSUME NEW e \in Executions, NEW m \in Messages, Poll(e, m) PROVE (TypeOK /\ InHand)'
  BY <1>8 DEF Poll
<1>9. ASSUME NEW e \in Executions, ReplayCheck(e) \/ ClaimRefused(e) \/ GatePass(e)
               \/ GateBlock(e) \/ SmtpError(e) \/ ClaimAnswerLost(e) \/ Abort(e)
      PROVE (TypeOK /\ InHand)'
  BY <1>9 DEF ReplayCheck, ClaimRefused, GatePass, GateBlock, SmtpError,
       ClaimAnswerLost, Abort, AfterError, Goto
<1>10. ASSUME NEW e \in Executions, Claim(e) PROVE (TypeOK /\ InHand)'
  BY <1>10 DEF Claim, ClaimFrom, Goto
<1>11. ASSUME NEW e \in Executions, BindKey(e) PROVE (TypeOK /\ InHand)'
  BY <1>11 DEF BindKey, Goto
<1>12. ASSUME NEW e \in Executions, Release(e) PROVE (TypeOK /\ InHand)'
  BY <1>12 DEF Release, Goto
<1>13. ASSUME NEW e \in Executions, SmtpOk(e) \/ SmtpAnswerLost(e) PROVE (TypeOK /\ InHand)'
  BY <1>13 DEF SmtpOk, SmtpAnswerLost, AfterError, Deliver, Goto
<1>14. ASSUME NEW e \in Executions, ReportOk(e) PROVE (TypeOK /\ InHand)'
  <2> DEFINE m == emsg[e]
  <2>1. m \in Messages
    BY <1>14 DEF ReportOk
  <2>2. status' \in [Messages -> Status] /\ providerId' \in [Messages -> BOOLEAN]
    BY <1>14, <2>1 DEF ReportOk
  <2>3. \E step \in {"idle", "report_ok", "mark_sent"} : Goto(e, step)
    BY <1>14 DEF ReportOk, Reported
  <2>4. UNCHANGED <<stage, attempts, approvedBy, keyBound, mailVars, revVars, stopped>>
    BY <1>14 DEF ReportOk
  <2> QED
    BY <1>14, <2>1, <2>2, <2>3, <2>4 DEF Goto
<1>15. ASSUME NEW e \in Executions, MarkSent(e) PROVE (TypeOK /\ InHand)'
  BY <1>15 DEF MarkSent, Reported, Goto
<1>16. ASSUME NEW e \in Executions, ReportFail(e) PROVE (TypeOK /\ InHand)'
  <2> DEFINE m == emsg[e]
  <2>1. m \in Messages
    BY <1>16 DEF ReportFail, FailWith
  <2>2. status' \in [Messages -> Status]
    BY <1>16, <2>1 DEF ReportFail, FailWith
  <2>3. attempts' \in [Messages -> 0 .. MaxAttempts]
    <3> DEFINE n == IF attempts[m] < MaxAttempts THEN attempts[m] + 1 ELSE attempts[m]
    <3>1. attempts' = [attempts EXCEPT ![m] = n]
      BY <1>16, <2>1 DEF ReportFail, FailWith
    <3>2. attempts \in [Messages -> 0 .. MaxAttempts] /\ attempts[m] \in 0 .. MaxAttempts
      BY <2>1
    <3>3. n \in 0 .. MaxAttempts
      BY <3>2
    <3> HIDE DEF n
    <3> QED
      BY <3>1, <3>2, <3>3
  <2>4. \E step \in {"idle", "report_fail"} : Goto(e, step)
    BY <1>16 DEF ReportFail, FailWith, Reported
  <2>5. UNCHANGED <<stage, approvedBy, keyBound, providerId, mailVars, revVars, stopped>>
    BY <1>16 DEF ReportFail, FailWith
  <2> QED
    BY <1>16, <2>1, <2>2, <2>3, <2>4, <2>5 DEF Goto
<1>17. CASE UNCHANGED vars
  BY <1>17 DEF vars
<1> QED
  BY <1>1, <1>2, <1>3, <1>4, <1>5, <1>6, <1>7, <1>8, <1>9, <1>10, <1>11, <1>12,
     <1>13, <1>14, <1>15, <1>16, <1>17 DEF Next, Review, Work, Loss


\* Every step keeps the rest of the invariant.
LEMMA AlwaysStep == Always /\ [Next]_vars => Always'
<1> SUFFICES ASSUME Always, [Next]_vars PROVE Always'
  OBVIOUS
<1> DEFINE Rest == ClaimedIsApproved /\ ApprovedBeforeSend /\ ReportedIsDelivered
                   /\ SentWasDelivered
<1>0. TypeOK' /\ InHand'
  BY TypeStep DEF Always
<1> USE DEF Always, TypeOK, InHand, ClaimedIsApproved, Claimed, ApprovedBeforeSend,
        ReportedIsDelivered, SentWasDelivered, Stage, Many
<1> USE DEF rowVars, mailVars, execVars, revVars
<1>1. ASSUME NEW m \in Messages, CreateDraft(m) PROVE Rest'
  BY <1>1 DEF CreateDraft
<1>2. ASSUME NEW m \in Messages, QaAdvance(m) PROVE Rest'
  BY <1>2 DEF QaAdvance
<1>3. ASSUME NEW l \in Leads, Reply(l) PROVE Rest'
  BY <1>3 DEF Reply
<1>4. ASSUME NEW l \in Leads, Suppress(l) PROVE Rest'
  BY <1>4 DEF Suppress
<1>5. ASSUME NEW r \in Reviewers, NEW m \in Messages, ApproveRead(r, m) \/ RejectRead(r, m)
      PROVE Rest'
  BY <1>5 DEF ApproveRead, RejectRead, Take
<1>6. ASSUME NEW r \in Reviewers, ApproveWrite(r) PROVE Rest'
  BY <1>6 DEF ApproveWrite
<1>7. ASSUME NEW r \in Reviewers, RejectWrite(r) PROVE Rest'
  BY <1>7 DEF RejectWrite
<1>8. ASSUME NEW e \in Executions, NEW m \in Messages, Poll(e, m) PROVE Rest'
  BY <1>8 DEF Poll
<1>9. ASSUME NEW e \in Executions, ReplayCheck(e) \/ ClaimRefused(e) \/ GatePass(e)
               \/ GateBlock(e) \/ SmtpError(e) \/ ClaimAnswerLost(e) \/ Abort(e)
      PROVE Rest'
  BY <1>9 DEF ReplayCheck, ClaimRefused, GatePass, GateBlock, SmtpError,
       ClaimAnswerLost, Abort, AfterError, Goto
<1>10. ASSUME NEW e \in Executions, Claim(e) PROVE Rest'
  BY <1>10 DEF Claim, ClaimFrom, Goto
<1>11. ASSUME NEW e \in Executions, BindKey(e) PROVE Rest'
  BY <1>11 DEF BindKey, Goto
<1>12. ASSUME NEW e \in Executions, Release(e) PROVE Rest'
  BY <1>12 DEF Release, Goto
<1>13. ASSUME NEW e \in Executions, SmtpOk(e) \/ SmtpAnswerLost(e) PROVE Rest'
  BY <1>13 DEF SmtpOk, SmtpAnswerLost, AfterError, Deliver, Goto
<1>14. ASSUME NEW e \in Executions, ReportOk(e) PROVE Rest'
  BY <1>14 DEF ReportOk, Reported, Goto
<1>15. ASSUME NEW e \in Executions, MarkSent(e) PROVE Rest'
  BY <1>15 DEF MarkSent, Reported, Goto
<1>16. ASSUME NEW e \in Executions, ReportFail(e) PROVE Rest'
  BY <1>16 DEF ReportFail, FailWith, Reported, Goto
<1>17. CASE UNCHANGED vars
  BY <1>17 DEF vars
<1>18. Rest'
  BY <1>1, <1>2, <1>3, <1>4, <1>5, <1>6, <1>7, <1>8, <1>9, <1>10, <1>11, <1>12,
     <1>13, <1>14, <1>15, <1>16, <1>17 DEF Next, Review, Work, Loss
<1> QED
  BY <1>0, <1>18

\* The invariant holds in every behaviour, for every number of reviewers,
\* executions and messages, with or without losses and aborts.
THEOREM AlwaysHolds == Spec => []Always
  BY AlwaysInit, AlwaysStep, PTL DEF Spec

\* The state always has its types.
THEOREM TypeCorrect == Spec => []TypeOK
<1>1. Always => TypeOK
  BY DEF Always
<1> QED
  BY AlwaysHolds, <1>1, PTL

\* No send without approval (INV-002), for every value of the constants.
THEOREM ApprovalIsRequired == Spec => []ApprovedBeforeSend
<1>1. Always => ApprovedBeforeSend
  BY DEF Always
<1> QED
  BY AlwaysHolds, <1>1, PTL

\* A message recorded as sent was delivered, for every value of the constants.
THEOREM SentIsTrue == Spec => []SentWasDelivered
<1>1. Always => SentWasDelivered
  BY DEF Always
<1> QED
  BY AlwaysHolds, <1>1, PTL

-----------------------------------------------------------------------------
(***************************************************************************)
(* What EmailSend keeps when no two reviewers handle one message at once   *)
(* and no answer is lost but those to claims and to reports of success,    *)
(* for any number of messages, executions and reviewers, whatever dies:    *)
(* the path delivers a message at most once and implements SendOnce.  The  *)
(* assumptions are needed: email_double shows what two reviewers do, a     *)
(* failure reported twice puts a message back that another execution has   *)
(* claimed since, and a lost answer of SMTP doubles the mail.              *)
(***************************************************************************)
Nominal == SerialReview /\ LostAnswers \subseteq {"claim", "sent"}

\* Steps between a claim and the end of its report.
Flight == {"claimed", "gating", "releasing", "transport", "report_ok", "report_fail",
           "mark_sent"}

\* Those after the mail has gone out.
Landed == {"report_ok", "mark_sent"}

InFlight(e, m) == epc[e] \in Flight /\ emsg[e] = m
Approving(r, m) == rpc[r] = "approving" /\ rmsg[r] = m

\* A message is in flight in one execution, and in the hands of one reviewer.
OneFlight ==
  \A d, e \in Executions, m \in Messages : InFlight(d, m) /\ InFlight(e, m) => d = e
OneReview ==
  \A q, r \in Reviewers :
    rpc[q] # "idle" /\ rpc[r] # "idle" /\ rmsg[q] = rmsg[r] => q = r

\* What is in flight can still be sent, and its execution knows whether it was;
\* only a success may be recorded already, when it is reported again.
FlightIsFresh ==
  \A e \in Executions, m \in Messages : InFlight(e, m) =>
    /\ status[m] \in {"sending", "rejected"} \/ (status[m] = "sent" /\ epc[e] \in Landed)
    /\ attempts[m] < MaxAttempts
    /\ deliveries[m] = IF epc[e] \in Landed THEN 1 ELSE 0
    /\ epc[e] # "claimed" => keyBound[m]

\* What a reviewer is approving was never sent and is not in flight: nobody
\* but the kill switch has touched it since it was read.
ApprovalIsFresh ==
  \A r \in Reviewers, m \in Messages : Approving(r, m) =>
    /\ status[m] \in {"pending_approval", "rejected"}
    /\ deliveries[m] = 0 /\ attempts[m] < MaxAttempts /\ ~providerId[m]
    /\ stopped[m] # "killed"
    /\ \A e \in Executions : ~InFlight(e, m)

\* Rows in these states were never delivered.
UnsentRows ==
  \A m \in Messages :
    /\ status[m] \in {"absent", "pending_approval", "approved", "failed"}
         => deliveries[m] = 0
    /\ status[m] = "absent" => attempts[m] < MaxAttempts

\* A message that the kill switch got is out of everybody's hands.
KilledIsFree ==
  \A m \in Messages : stopped[m] = "killed" =>
    /\ status[m] = "rejected"
    /\ \A e \in Executions : ~InFlight(e, m)

Serial ==
  /\ OneFlight /\ OneReview
  /\ FlightIsFresh /\ ApprovalIsFresh
  /\ UnsentRows /\ KilledIsFree
  /\ ReplayIsTruthful /\ AttemptBudget

\* A step that touches no row, and leaves every flight where it lands, or ends it,
\* keeps all of it.
LEMMA SerialKept ==
  ASSUME Serial, UNCHANGED <<status, attempts, keyBound, providerId, deliveries, stopped,
                             rpc, rmsg>>,
         \A e \in Executions, m \in Messages : InFlight(e, m)' =>
           /\ InFlight(e, m)
           /\ epc'[e] \in Landed <=> epc[e] \in Landed
           /\ epc[e] = "claimed" => epc'[e] = "claimed"
  PROVE  Serial'
<1>1. OneFlight' /\ OneReview'
  BY DEF Serial, OneFlight, OneReview
<1>2. FlightIsFresh'
  BY DEF Serial, FlightIsFresh
<1>3. ApprovalIsFresh'
  BY DEF Serial, ApprovalIsFresh, Approving
<1>4. UnsentRows' /\ KilledIsFree'
  BY DEF Serial, UnsentRows, KilledIsFree
<1>5. ReplayIsTruthful' /\ AttemptBudget'
  BY DEF Serial, ReplayIsTruthful, AttemptBudget
<1> QED
  BY <1>1, <1>2, <1>3, <1>4, <1>5 DEF Serial

-----------------------------------------------------------------------------
\* The initial state satisfies the invariant.
LEMMA SerialInit == Init => Serial
  BY EmailAssumption DEF Init, Serial, OneFlight, OneReview, FlightIsFresh,
     ApprovalIsFresh, UnsentRows, KilledIsFree, ReplayIsTruthful, AttemptBudget,
     InFlight, Approving, Flight, Landed

\* Who is not touched keeps what is in flight, and what is in review.
LEMMA SameFlights ==
  ASSUME OneFlight, epc' = epc, emsg' = emsg
  PROVE  OneFlight'
  BY DEF OneFlight, InFlight

LEMMA SameReviews ==
  ASSUME OneReview,
         \A q \in Reviewers : rpc'[q] # "idle" => rpc[q] # "idle" /\ rmsg'[q] = rmsg[q]
  PROVE  OneReview'
  BY DEF OneReview

\* An approval stays fresh when its message's row, its mail and its executions
\* are left alone.
LEMMA SameApprovals ==
  ASSUME ApprovalIsFresh, epc' = epc, emsg' = emsg,
         \A r \in Reviewers, m \in Messages : Approving(r, m)' =>
           /\ Approving(r, m)
           /\ status'[m] = status[m] /\ deliveries'[m] = deliveries[m]
           /\ attempts'[m] = attempts[m] /\ providerId'[m] = providerId[m]
           /\ stopped'[m] = stopped[m]
  PROVE  ApprovalIsFresh'
<1> SUFFICES ASSUME NEW r \in Reviewers, NEW m \in Messages, Approving(r, m)'
             PROVE  /\ status'[m] \in {"pending_approval", "rejected"}
                    /\ deliveries'[m] = 0 /\ attempts'[m] < MaxAttempts
                    /\ ~providerId'[m] /\ stopped'[m] # "killed"
                    /\ \A e \in Executions : ~InFlight(e, m)'
  BY DEF ApprovalIsFresh
<1>1. Approving(r, m)
  OBVIOUS
<1>2. \A e \in Executions : ~InFlight(e, m)
  BY <1>1 DEF ApprovalIsFresh
<1>3. \A e \in Executions : ~InFlight(e, m)'
  BY <1>2 DEF InFlight
<1> QED
  BY <1>1, <1>3 DEF ApprovalIsFresh

\* Every step keeps it.
LEMMA SerialStep == Nominal /\ Always /\ Serial /\ [Next]_vars => Serial'
<1> SUFFICES ASSUME Nominal, Always, Serial, [Next]_vars PROVE Serial'
  OBVIOUS
<1>0. TypeOK /\ InHand
  BY DEF Always
<1> USE <1>0, EmailAssumption
    DEF Nominal, TypeOK, InHand, Serial, OneFlight, OneReview, FlightIsFresh,
        ApprovalIsFresh, UnsentRows, KilledIsFree, ReplayIsTruthful, AttemptBudget,
        InFlight, Approving, Flight, Landed, Many, rowVars, mailVars, execVars, revVars
<1>1. ASSUME NEW m \in Messages, CreateDraft(m) PROVE Serial'
  <2>1. OneFlight' /\ OneReview'
    <3>1. epc' = epc /\ emsg' = emsg /\ rpc' = rpc /\ rmsg' = rmsg
      BY <1>1 DEF CreateDraft
    <3> QED
      BY <3>1, SameFlights, SameReviews
  <2>2. FlightIsFresh'
    BY <1>1 DEF CreateDraft
  <2>3. ApprovalIsFresh'
    <3>1. epc' = epc /\ emsg' = emsg
      BY <1>1 DEF CreateDraft
    <3>2. ASSUME NEW q \in Reviewers, NEW k \in Messages, Approving(q, k)'
          PROVE  /\ Approving(q, k)
                 /\ status'[k] = status[k] /\ deliveries'[k] = deliveries[k]
                 /\ attempts'[k] = attempts[k] /\ providerId'[k] = providerId[k]
                 /\ stopped'[k] = stopped[k]
      BY <1>1, <3>2 DEF CreateDraft
    <3> QED
      BY <3>1, <3>2, SameApprovals
  <2>4. UnsentRows'
    BY <1>1 DEF CreateDraft
  <2>5. KilledIsFree'
    BY <1>1 DEF CreateDraft
  <2>6. ReplayIsTruthful' /\ AttemptBudget'
    BY <1>1 DEF CreateDraft
  <2> QED
    BY <2>1, <2>2, <2>3, <2>4, <2>5, <2>6
<1>2. ASSUME NEW m \in Messages, QaAdvance(m) PROVE Serial'
  BY <1>2 DEF QaAdvance
<1>3. ASSUME NEW l \in Leads, Reply(l) PROVE Serial'
  BY <1>3 DEF Reply
<1>4. ASSUME NEW l \in Leads, Suppress(l) PROVE Serial'
  <2>1. OneFlight' /\ OneReview'
    <3>1. epc' = epc /\ emsg' = emsg /\ rpc' = rpc /\ rmsg' = rmsg
      BY <1>4 DEF Suppress
    <3> QED
      BY <3>1, SameFlights, SameReviews
  <2>2. FlightIsFresh'
    BY <1>4 DEF Suppress
  <2>3. ApprovalIsFresh'
    <3>1. epc' = epc /\ emsg' = emsg
      BY <1>4 DEF Suppress
    <3>2. ASSUME NEW q \in Reviewers, NEW k \in Messages, Approving(q, k)'
          PROVE  /\ Approving(q, k)
                 /\ status'[k] = status[k] /\ deliveries'[k] = deliveries[k]
                 /\ attempts'[k] = attempts[k] /\ providerId'[k] = providerId[k]
                 /\ stopped'[k] = stopped[k]
      BY <1>4, <3>2 DEF Suppress
    <3> QED
      BY <3>1, <3>2, SameApprovals
  <2>4. UnsentRows'
    BY <1>4 DEF Suppress
  <2>5. KilledIsFree'
    BY <1>4 DEF Suppress
  <2>6. ReplayIsTruthful' /\ AttemptBudget'
    BY <1>4 DEF Suppress
  <2> QED
    BY <2>1, <2>2, <2>3, <2>4, <2>5, <2>6
<1>5. ASSUME NEW r \in Reviewers, NEW m \in Messages, ApproveRead(r, m) PROVE Serial'
  BY <1>5 DEF ApproveRead, Take
<1>6. ASSUME NEW r \in Reviewers, NEW m \in Messages, RejectRead(r, m) PROVE Serial'
  <2>1. OneFlight' /\ OneReview'
    BY <1>6 DEF RejectRead, Take
  <2>2. FlightIsFresh'
    BY <1>6 DEF RejectRead, Take
  <2>3. ApprovalIsFresh'
    <3>1. epc' = epc /\ emsg' = emsg
      BY <1>6 DEF RejectRead, Take
    <3>2. ASSUME NEW q \in Reviewers, NEW k \in Messages, Approving(q, k)'
          PROVE  /\ Approving(q, k)
                 /\ status'[k] = status[k] /\ deliveries'[k] = deliveries[k]
                 /\ attempts'[k] = attempts[k] /\ providerId'[k] = providerId[k]
                 /\ stopped'[k] = stopped[k]
      BY <1>6, <3>2 DEF RejectRead, Take
    <3> QED
      BY <3>1, <3>2, SameApprovals
  <2>4. UnsentRows'
    BY <1>6 DEF RejectRead, Take
  <2>5. KilledIsFree'
    BY <1>6 DEF RejectRead, Take
  <2>6. ReplayIsTruthful' /\ AttemptBudget'
    BY <1>6 DEF RejectRead, Take
  <2> QED
    BY <2>1, <2>2, <2>3, <2>4, <2>5, <2>6
<1>7. ASSUME NEW r \in Reviewers, ApproveWrite(r) PROVE Serial'
  <2>1. OneFlight' /\ OneReview'
    <3>1. OneFlight'
      BY <1>7, SameFlights DEF ApproveWrite
    <3>2. \A q \in Reviewers : rpc'[q] # "idle" => rpc[q] # "idle" /\ rmsg'[q] = rmsg[q]
      BY <1>7 DEF ApproveWrite, PutDown
    <3> QED
      BY <3>1, <3>2, SameReviews
  <2>2. FlightIsFresh'
    BY <1>7 DEF ApproveWrite, PutDown
  <2>3. ApprovalIsFresh'
    <3>1. epc' = epc /\ emsg' = emsg
      BY <1>7 DEF ApproveWrite, PutDown
    <3>2. ASSUME NEW q \in Reviewers, NEW k \in Messages, Approving(q, k)'
          PROVE  /\ Approving(q, k)
                 /\ status'[k] = status[k] /\ deliveries'[k] = deliveries[k]
                 /\ attempts'[k] = attempts[k] /\ providerId'[k] = providerId[k]
                 /\ stopped'[k] = stopped[k]
      BY <1>7, <3>2 DEF ApproveWrite, PutDown
    <3> QED
      BY <3>1, <3>2, SameApprovals
  <2>4. UnsentRows'
    BY <1>7 DEF ApproveWrite, PutDown
  <2>5. KilledIsFree'
    BY <1>7 DEF ApproveWrite, PutDown
  <2>6. ReplayIsTruthful' /\ AttemptBudget'
    BY <1>7 DEF ApproveWrite, PutDown
  <2> QED
    BY <2>1, <2>2, <2>3, <2>4, <2>5, <2>6
<1>8. ASSUME NEW r \in Reviewers, RejectWrite(r) PROVE Serial'
  BY <1>8 DEF RejectWrite, PutDown
<1>9. ASSUME NEW e \in Executions, NEW m \in Messages, Poll(e, m) PROVE Serial'
  BY <1>9 DEF Poll
<1>10. ASSUME NEW e \in Executions, ReplayCheck(e) \/ ClaimRefused(e) \/ Abort(e)
       PROVE Serial'
  <2>1. \A d \in Executions, m \in Messages :
          InFlight(d, m)' => InFlight(d, m) /\ epc'[d] = epc[d]
    BY <1>10 DEF ReplayCheck, ClaimRefused, Abort, Goto
  <2>2. UNCHANGED <<status, attempts, keyBound, providerId, deliveries, stopped, rpc, rmsg>>
    BY <1>10 DEF ReplayCheck, ClaimRefused, Abort
  <2> QED
    BY <2>1, <2>2, SerialKept DEF Serial
<1>11. ASSUME NEW e \in Executions, GatePass(e) \/ GateBlock(e) \/ SmtpError(e)
       PROVE Serial'
  <2>1. ASSUME NEW d \in Executions, NEW m \in Messages, InFlight(d, m)'
        PROVE  /\ InFlight(d, m)
               /\ epc'[d] \in Landed <=> epc[d] \in Landed
               /\ epc[d] = "claimed" => epc'[d] = "claimed"
    BY <1>11, <2>1 DEF GatePass, GateBlock, SmtpError, AfterError, Goto
  <2>2. UNCHANGED <<status, attempts, keyBound, providerId, deliveries, stopped, rpc, rmsg>>
    BY <1>11 DEF GatePass, GateBlock, SmtpError
  <2> QED
    BY <2>1, <2>2, SerialKept DEF Serial
<1>12. ASSUME NEW e \in Executions, Claim(e) PROVE Serial'
  <2>1. OneFlight' /\ OneReview'
    BY <1>12 DEF Claim, ClaimFrom, Goto
  <2>2. FlightIsFresh'
    BY <1>12 DEF Claim, ClaimFrom, Goto
  <2>3. ApprovalIsFresh'
    BY <1>12 DEF Claim, ClaimFrom, Goto
  <2>4. UnsentRows' /\ KilledIsFree'
    BY <1>12 DEF Claim, ClaimFrom, Goto
  <2>5. ReplayIsTruthful' /\ AttemptBudget'
    BY <1>12 DEF Claim, ClaimFrom, Goto
  <2> QED
    BY <2>1, <2>2, <2>3, <2>4, <2>5
<1>13. ASSUME NEW e \in Executions, BindKey(e) PROVE Serial'
  BY <1>13 DEF BindKey, Goto
<1>14. ASSUME NEW e \in Executions, Release(e) PROVE Serial'
  BY <1>14 DEF Release, Goto
<1>15. ASSUME NEW e \in Executions, SmtpOk(e) PROVE Serial'
  BY <1>15 DEF SmtpOk, Deliver, Goto
<1>16. ASSUME NEW e \in Executions, ReportOk(e) PROVE Serial'
  BY <1>16 DEF ReportOk, Reported, Goto
<1>17. ASSUME NEW e \in Executions, MarkSent(e) PROVE Serial'
  BY <1>17 DEF MarkSent, Reported, Goto
<1>18. ASSUME NEW e \in Executions, ReportFail(e) PROVE Serial'
  BY <1>18 DEF ReportFail, FailWith, Reported, Goto
<1>19. ASSUME NEW e \in Executions, ClaimAnswerLost(e) \/ SmtpAnswerLost(e) PROVE Serial'
  <2>1. CASE ClaimAnswerLost(e)
    BY <2>1 DEF ClaimAnswerLost, Goto
  <2>2. CASE SmtpAnswerLost(e)
    BY <2>2 DEF SmtpAnswerLost
  <2> QED
    BY <1>19, <2>1, <2>2
<1>20. CASE UNCHANGED vars
  BY <1>20 DEF vars
<1> QED
  BY <1>1, <1>2, <1>3, <1>4, <1>5, <1>6, <1>7, <1>8, <1>9, <1>10, <1>11, <1>12,
     <1>13, <1>14, <1>15, <1>16, <1>17, <1>18, <1>19, <1>20
     DEF Next, Review, Work, Loss

-----------------------------------------------------------------------------
\* The invariant holds in every behaviour of the nominal environment.
THEOREM SerialHolds == ASSUME Nominal PROVE Spec => []Serial
<1>1. Always /\ Serial /\ [Next]_vars => Serial'
  BY SerialStep
<1> QED
  BY <1>1, SerialInit, AlwaysHolds, PTL DEF Spec

\* The idempotent replay tells the truth, for every value of the constants.
THEOREM ReplayTells == ASSUME Nominal PROVE Spec => []ReplayIsTruthful
<1>1. Serial => ReplayIsTruthful
  BY DEF Serial
<1> QED
  BY <1>1, SerialHolds, PTL

\* Every message keeps its attempt budget, for any budget.
THEOREM BudgetKept == ASSUME Nominal PROVE Spec => []AttemptBudget
<1>1. Serial => AttemptBudget
  BY DEF Serial
<1> QED
  BY <1>1, SerialHolds, PTL

\* A message the kill switch found free stays rejected.
THEOREM KilledForGood == ASSUME Nominal PROVE Spec => []KilledStaysDown
<1>1. Serial => KilledStaysDown
  BY DEF Serial, KilledIsFree, KilledStaysDown
<1> QED
  BY <1>1, SerialHolds, PTL

-----------------------------------------------------------------------------
\* The email path implements SendOnce: its initial state is SendOnce's, ...
LEMMA PromiseInit == Init => Promise!SInit
  BY EmailAssumption DEF Init, Promise!SInit

\* An action of SendOnce is a step of it.
LEMMA PromiseMove ==
  ASSUME NEW m \in Messages,
         Promise!SApprove(m) \/ Promise!SDeliver(m) \/ Promise!SBury(m)
  PROVE  [Promise!SNext]_(Promise!svars)
  BY DEF Promise!SNext

\* ... and every step is one of SendOnce, or changes nothing SendOnce sees.
LEMMA PromiseStep ==
  ASSUME Nominal, Always, Serial, [Next]_vars
  PROVE  [Promise!SNext]_(Promise!svars)
<1> DEFINE Approved == {m \in Messages : approvedBy[m]}
           Dead == {m \in Messages : attempts[m] = MaxAttempts}
<1>0. TypeOK /\ InHand
  BY DEF Always
<1> USE <1>0, EmailAssumption DEF TypeOK, InHand, rowVars, mailVars
<1>1. ASSUME approvedBy' = approvedBy, deliveries' = deliveries, attempts' = attempts
      PROVE  [Promise!SNext]_(Promise!svars)
  BY <1>1 DEF Promise!svars
<1>2. ASSUME NEW r \in Reviewers, ApproveWrite(r) PROVE [Promise!SNext]_(Promise!svars)
  <2>0. PICK m \in Messages : m = rmsg[r]
    BY <1>2 DEF ApproveWrite
  <2>1. deliveries' = deliveries /\ attempts' = attempts
    BY <1>2 DEF ApproveWrite
  <2>2. approvedBy' = approvedBy \/ approvedBy' = [approvedBy EXCEPT ![m] = TRUE]
    BY <1>2, <2>0 DEF ApproveWrite
  <2>3. CASE approvedBy' = [approvedBy EXCEPT ![m] = TRUE]
    <3>1. Approved' = Approved \union {m}
      BY <2>1, <2>3
    <3>2. Promise!SApprove(m)
      BY <2>1, <3>1 DEF Promise!SApprove
    <3> QED
      BY <3>2, PromiseMove
  <2> QED
    BY <1>1, <2>1, <2>2, <2>3
<1>3. ASSUME NEW e \in Executions, SmtpOk(e) PROVE [Promise!SNext]_(Promise!svars)
  <2>0. PICK m \in Messages : m = emsg[e]
    BY <1>3 DEF SmtpOk
  <2>1. approvedBy' = approvedBy /\ attempts' = attempts
    BY <1>3 DEF SmtpOk
  <2>2. deliveries[m] = 0 /\ attempts[m] < MaxAttempts
    BY <1>3, <2>0 DEF SmtpOk, Serial, FlightIsFresh, InFlight, Flight, Landed
  <2>3. approvedBy[m]
    BY <1>3, <2>0 DEF SmtpOk, Always, ClaimedIsApproved, Claimed
  <2>4. deliveries' = [deliveries EXCEPT ![m] = 1]
    BY <1>3, <2>0, <2>2 DEF SmtpOk, Deliver, Many
  <2>5. Promise!SDeliver(m)
    BY <2>1, <2>2, <2>3, <2>4 DEF Promise!SDeliver
  <2> QED
    BY <2>5, PromiseMove
<1>4. ASSUME NEW e \in Executions, ReportFail(e) PROVE [Promise!SNext]_(Promise!svars)
  <2>0. PICK m \in Messages : m = emsg[e]
    BY <1>4 DEF ReportFail, FailWith
  <2>1. approvedBy' = approvedBy /\ deliveries' = deliveries
    BY <1>4 DEF ReportFail, FailWith
  <2>2. deliveries[m] = 0 /\ attempts[m] < MaxAttempts
    BY <1>4, <2>0 DEF ReportFail, FailWith, Serial, FlightIsFresh, InFlight, Flight, Landed
  <2>3. attempts' = [attempts EXCEPT ![m] = attempts[m] + 1]
    BY <1>4, <2>0, <2>2 DEF ReportFail, FailWith
  <2>4. CASE attempts[m] + 1 = MaxAttempts
    <3>1. Dead' = Dead \union {m}
      BY <2>1, <2>3, <2>4
    <3>2. Promise!SBury(m)
      BY <2>1, <2>2, <3>1 DEF Promise!SBury
    <3> QED
      BY <3>2, PromiseMove
  <2>5. CASE attempts[m] + 1 # MaxAttempts
    <3>1. Dead' = Dead
      BY <2>1, <2>2, <2>3, <2>5
    <3> QED
      BY <2>1, <3>1 DEF Promise!svars
  <2> QED
    BY <2>4, <2>5
<1>5. ASSUME NEW m \in Messages, CreateDraft(m) \/ QaAdvance(m)
      PROVE  [Promise!SNext]_(Promise!svars)
  BY <1>1, <1>5 DEF CreateDraft, QaAdvance
<1>6. ASSUME NEW l \in Leads, Reply(l) \/ Suppress(l) PROVE [Promise!SNext]_(Promise!svars)
  BY <1>1, <1>6 DEF Reply, Suppress
<1>7. ASSUME NEW r \in Reviewers, NEW m \in Messages, ApproveRead(r, m) \/ RejectRead(r, m)
      PROVE  [Promise!SNext]_(Promise!svars)
  BY <1>1, <1>7 DEF ApproveRead, RejectRead, Take
<1>8. ASSUME NEW r \in Reviewers, RejectWrite(r) PROVE [Promise!SNext]_(Promise!svars)
  BY <1>1, <1>8 DEF RejectWrite
<1>9. ASSUME NEW e \in Executions, NEW m \in Messages, Poll(e, m)
      PROVE  [Promise!SNext]_(Promise!svars)
  BY <1>1, <1>9 DEF Poll
<1>10. ASSUME NEW e \in Executions,
              \/ ReplayCheck(e) \/ Claim(e) \/ ClaimRefused(e) \/ BindKey(e)
              \/ GatePass(e) \/ GateBlock(e) \/ Release(e) \/ SmtpError(e)
       PROVE  [Promise!SNext]_(Promise!svars)
  BY <1>1, <1>10 DEF ReplayCheck, Claim, ClaimFrom, ClaimRefused, BindKey, GatePass,
     GateBlock, Release, SmtpError
<1>11. ASSUME NEW e \in Executions, ReportOk(e) \/ MarkSent(e) \/ Abort(e)
       PROVE  [Promise!SNext]_(Promise!svars)
  BY <1>1, <1>11 DEF ReportOk, MarkSent, Abort
<1>12. ASSUME NEW e \in Executions, ClaimAnswerLost(e) \/ SmtpAnswerLost(e)
       PROVE  [Promise!SNext]_(Promise!svars)
  BY <1>1, <1>12 DEF ClaimAnswerLost, SmtpAnswerLost, Nominal
<1>13. CASE UNCHANGED vars
  BY <1>1, <1>13 DEF vars
<1> QED
  BY <1>2, <1>3, <1>4, <1>5, <1>6, <1>7, <1>8, <1>9, <1>10, <1>11, <1>12, <1>13
     DEF Next, Review, Work, Loss

\* At most once, after an approval, never after the last attempt: the email
\* path implements SendOnce, for any number of messages, executions and
\* reviewers.
THEOREM Implements == ASSUME Nominal PROVE Spec => SendsOnce
<1>1. Always /\ Serial /\ [Next]_vars => [Promise!SNext]_(Promise!svars)
  BY PromiseStep
<1> QED
  BY <1>1, PromiseInit, AlwaysHolds, SerialHolds, PTL DEF Spec, SendsOnce, Promise!SSpec

\* What SendOnce is for: whoever implements it delivers no message twice.
LEMMA PromiseIsOnce == Promise!SSpec => []AtMostOnce
<1> DEFINE Counted == deliveries \in [Messages -> 0 .. 1]
<1>1. Promise!SInit => Counted
  BY DEF Promise!SInit
<1>2. Counted /\ [Promise!SNext]_(Promise!svars) => Counted'
  <2> SUFFICES ASSUME Counted, [Promise!SNext]_(Promise!svars) PROVE Counted'
    OBVIOUS
  <2>1. CASE UNCHANGED deliveries
    BY <2>1
  <2>2. ASSUME NEW m \in Messages, Promise!SDeliver(m) PROVE Counted'
    BY <2>2 DEF Promise!SDeliver
  <2> QED
    BY <2>1, <2>2 DEF Promise!SNext, Promise!svars, Promise!SApprove, Promise!SBury
<1>3. Counted => AtMostOnce
  BY DEF AtMostOnce
<1> QED
  BY <1>1, <1>2, <1>3, PTL DEF Promise!SSpec

\* The recipient gets a message once at most: what two reviewers at once break
\* in email_double holds with one at a time, whatever dies.
THEOREM DeliveredOnce == ASSUME Nominal PROVE Spec => []AtMostOnce
<1>1. Spec => SendsOnce
  BY Implements
<1> QED
  BY <1>1, PromiseIsOnce, PTL DEF SendsOnce

=============================================================================
