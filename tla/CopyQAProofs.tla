---------------------------- MODULE CopyQAProofs ----------------------------
(***************************************************************************)
(* Theorems about CopyQA: that QA is not bypassed, for any number of       *)
(* concurrent QA runs and resubmissions and any ceiling, with or without   *)
(* SerialResubmit; and, for one checker and one author at a time, which    *)
(* text is delivered and how often a draft comes back.                     *)
(***************************************************************************)
EXTENDS CopyQA, TLAPS

\* An attempt is numbered no higher than the order in which its run started.
AttemptsBounded ==
  /\ \A r \in runs : r.attempt <= r.started /\ r.started <= started
  /\ \A c \in Checkers : chk[c].pc = "insert" =>
       /\ chk[c].started \in 1 .. started
       /\ chk[c].attempt <= chk[c].started

\* A claim that got to the gate has a text in hand.
TextLoaded == snd.pc \in {"gate", "transport"} => snd.text \in 1 .. MaxText

\* What a checker is about to act on is in the table.
VerdictStored ==
  \A c \in Checkers :
    /\ chk[c].pc = "move" /\ chk[c].passed => \E r \in runs : r.passed
    /\ chk[c].pc \in {"comp_begin", "comp_end"} /\ chk[c].passed => compliance.passed

\* The stages behind copy QA, and behind compliance QA, are reached with a
\* passed copy run, and with a passed compliance run, in the table.
StageReviewed ==
  /\ stage \in {"QA_PASSED", "COMPLIANCE_PENDING", "SEND_READY", "SCHEDULED", "SENT"}
       => \E r \in runs : r.passed
  /\ stage \in {"SEND_READY", "SCHEDULED", "SENT"} => compliance.passed

\* Only one author is about to queue the draft again, and only after it took
\* the draft to COPY_GENERATED: nobody else leads out of that stage.
RequeueOwned ==
  /\ \A a \in Authors : aut[a] = "requeue" => stage = "COPY_GENERATED"
  /\ \A a, b \in Authors : aut[a] = "requeue" /\ aut[b] = "requeue" => a = b

Reviewed ==
  TypeOK /\ AttemptsBounded /\ TextLoaded /\ VerdictStored /\ StageReviewed /\ RequeueOwned

-----------------------------------------------------------------------------
\* Where the transitions lead, stage by stage.
LEMMA TransitionsAt ==
  /\ Transitions \in [Stages -> SUBSET Stages]
  /\ Transitions["COPY_GENERATED"] = {"QA_PENDING"}
  /\ Transitions["QA_PENDING"] = {"QA_PASSED", "QA_FAILED", "HELD"}
  /\ Transitions["QA_FAILED"] = {"COPY_GENERATED", "HELD"}
  /\ Transitions["QA_PASSED"] = {"COMPLIANCE_PENDING"}
  /\ Transitions["COMPLIANCE_PENDING"] = {"SEND_READY", "COMPLIANCE_FAILED", "HELD"}
  /\ Transitions["COMPLIANCE_FAILED"] = {"COPY_GENERATED", "HELD"}
  /\ Transitions["SEND_READY"] = {"SCHEDULED", "HELD"}
  /\ Transitions["SCHEDULED"] = {"SENT", "HELD"}
  /\ Transitions["HELD"] = {"QA_PENDING"}
  /\ Transitions["SENT"] = {}
  BY DEF Transitions, Stages

\* What a move does to the facts about the stage, target by target.
LEMMA MoveKeeps ==
  ASSUME stage \in Stages, NEW to \in Stages, Move(to)
  PROVE  /\ stage' \in Stages
         /\ stage' \in {stage, to}
         /\ stage = "HELD" /\ stage' # "HELD" => to = "QA_PENDING"
         /\ stage = "COPY_GENERATED" /\ stage' # stage => to = "QA_PENDING"
         /\ to = "COPY_GENERATED" /\ to \in Transitions[stage]
              => stage # "COPY_GENERATED" /\ stage' = "COPY_GENERATED"
         /\ to = "COMPLIANCE_PENDING" /\ stage' # stage => stage = "QA_PASSED"
         /\ to = "SEND_READY" /\ stage' # stage => stage = "COMPLIANCE_PENDING"
         /\ to = "SCHEDULED" /\ stage' # stage => stage = "SEND_READY"
         /\ to = "SENT" /\ stage' # stage => stage = "SCHEDULED"
  BY TransitionsAt DEF Move, Stages

\* A checker's updates of its record, and what they leave of it.
CheckStep == {"idle", "count", "insert", "move", "comp_store", "comp_begin", "comp_end"}

AsLoaded(x, s, ok, t) ==
  [x EXCEPT !.pc = "count", !.stage = s, !.passed = ok, !.text = t]
AsCompLoaded(x, s, ok) == [x EXCEPT !.pc = "comp_store", !.stage = s, !.passed = ok]
AsCounted(x, s, n) == [x EXCEPT !.pc = "insert", !.started = s, !.attempt = n]
AsStepped(x, p) == [x EXCEPT !.pc = p]

LEMMA CopyLoaded ==
  ASSUME NEW x \in Checking, NEW s \in Stages, NEW ok \in BOOLEAN, NEW t \in 1 .. MaxText
  PROVE  /\ AsLoaded(x, s, ok, t) \in Checking /\ AsLoaded(x, s, ok, t).pc = "count"
         /\ AsLoaded(x, s, ok, t).stage = s /\ AsLoaded(x, s, ok, t).text = t
  BY DEF Checking, AsLoaded

LEMMA CompLoaded ==
  ASSUME NEW x \in Checking, NEW s \in Stages, NEW ok \in BOOLEAN
  PROVE  AsCompLoaded(x, s, ok) \in Checking /\ AsCompLoaded(x, s, ok).pc = "comp_store"
  BY DEF Checking, AsCompLoaded

LEMMA Counted ==
  ASSUME NEW x \in Checking, NEW s \in 0 .. MaxRuns, NEW n \in 1 .. MaxRuns + 1
  PROVE  /\ AsCounted(x, s, n) \in Checking /\ AsCounted(x, s, n).pc = "insert"
         /\ AsCounted(x, s, n).started = s /\ AsCounted(x, s, n).attempt = n
         /\ AsCounted(x, s, n).stage = x.stage /\ AsCounted(x, s, n).text = x.text
  BY DEF Checking, AsCounted

LEMMA Stepped ==
  ASSUME NEW x \in Checking, NEW p \in CheckStep
  PROVE  /\ AsStepped(x, p) \in Checking /\ AsStepped(x, p).pc = p
         /\ AsStepped(x, p).passed = x.passed
         /\ AsStepped(x, p).stage = x.stage /\ AsStepped(x, p).text = x.text
  BY DEF Checking, CheckStep, AsStepped

\* The initial state satisfies the invariant.
LEMMA ReviewedInit == Init => Reviewed
<1>1. [latest |-> "none", passed |-> FALSE] \in Compliance
  BY DEF Compliance
<1> QED
  BY <1>1, CopyAssumption DEF Init, Reviewed, TypeOK, AttemptsBounded, TextLoaded,
     VerdictStored, StageReviewed, RequeueOwned, Checking, IdleChecker, Stages, Run

-----------------------------------------------------------------------------
\* Every step keeps the types and the bound on the attempts.
Typed == TypeOK /\ AttemptsBounded /\ TextLoaded

LEMMA TypeStep == Typed /\ [Next]_vars => Typed'
<1> SUFFICES ASSUME Typed, [Next]_vars PROVE Typed'
  OBVIOUS
<1> USE CopyAssumption DEF Typed, TypeOK, AttemptsBounded, TextLoaded
<1> USE DEF rowVars, qaVars, history
<1>0. IdleChecker \in Checking
  BY DEF IdleChecker, Checking, Stages
<1>1. ASSUME NEW c \in Checkers, CopyLoad(c) \/ CompLoad(c) PROVE Typed'
  <2>1. PICK x \in Checking : chk' = [chk EXCEPT ![c] = x] /\ x.pc # "insert"
    <3>1. CASE CopyLoad(c)
      <4>1. chk' = [chk EXCEPT ![c] = AsLoaded(IdleChecker, stage, good, text)]
        BY <3>1 DEF CopyLoad, AsLoaded
      <4>2. stage \in Stages /\ good \in BOOLEAN /\ text \in 1 .. MaxText
        OBVIOUS
      <4> DEFINE x == AsLoaded(IdleChecker, stage, good, text)
      <4>3. x \in Checking /\ x.pc = "count"
        BY <1>0, <4>2, CopyLoaded
      <4> HIDE DEF x
      <4> QED
        BY <4>1, <4>3 DEF x
    <3>2. CASE CompLoad(c)
      <4>1. PICK ok \in BOOLEAN :
              chk' = [chk EXCEPT ![c] = AsCompLoaded(IdleChecker, stage, ok)]
        BY <3>2 DEF CompLoad, AsCompLoaded
      <4> QED
        BY <1>0, <4>1, CompLoaded
    <3> QED
      BY <1>1, <3>1, <3>2
  <2>2. /\ chk' \in [Checkers -> Checking]
        /\ \A d \in Checkers : chk'[d].pc = "insert" => chk'[d] = chk[d]
    BY <2>1
  <2> QED
    BY <1>1, <2>2 DEF CopyLoad, CompLoad
<1>2. ASSUME NEW c \in Checkers, CopyCount(c) PROVE Typed'
  <2>1. PICK n \in 0 .. MaxRuns :
          /\ IsMaxAttempt(n)
          /\ chk' = [chk EXCEPT ![c] = [chk[c] EXCEPT !.pc = "insert",
                       !.started = started + 1, !.attempt = n + 1]]
    BY <1>2 DEF CopyCount, CountFrom
  <2>2. started \in 0 .. MaxRuns /\ started < MaxRuns /\ started' = started + 1
    BY <1>2 DEF CopyCount, CountFrom
  <2>3. n <= started
    BY <2>1, <2>2 DEF IsMaxAttempt, Run
  <2> DEFINE x == AsCounted(chk[c], started + 1, n + 1)
  <2>4. /\ x \in Checking /\ x.started = started + 1 /\ x.attempt = n + 1
        /\ chk' = [chk EXCEPT ![c] = x]
    <3>1. n + 1 \in 1 .. MaxRuns + 1 /\ started + 1 \in 0 .. MaxRuns
      BY <2>2
    <3>2. chk[c] \in Checking
      OBVIOUS
    <3>3. x \in Checking /\ x.started = started + 1 /\ x.attempt = n + 1
      BY <3>1, <3>2, Counted
    <3>4. chk' = [chk EXCEPT ![c] = x]
      BY <2>1 DEF AsCounted
    <3> QED
      BY <3>3, <3>4
  <2> HIDE DEF x
  <2>5. /\ chk' \in [Checkers -> Checking]
        /\ \A d \in Checkers : chk'[d] = IF d = c THEN x ELSE chk[d]
    BY <2>4
  <2>6. \A d \in Checkers : chk'[d].pc = "insert" =>
          /\ chk'[d].started \in 1 .. started'
          /\ chk'[d].attempt <= chk'[d].started
    BY <2>2, <2>3, <2>4, <2>5
  <2>7. \A r \in runs : r.attempt <= r.started /\ r.started <= started'
    BY <2>2 DEF Run
  <2> QED
    BY <1>2, <2>2, <2>5, <2>6, <2>7 DEF CopyCount, CountFrom
<1>3. ASSUME NEW c \in Checkers, CopyInsert(c) PROVE Typed'
  <2> DEFINE x == [chk[c] EXCEPT !.pc = "move"]
             r == [started |-> chk[c].started, attempt |-> chk[c].attempt,
                   passed |-> chk[c].passed, text |-> chk[c].text]
  <2>1. chk[c] \in Checking /\ chk[c].pc = "insert"
    BY <1>3 DEF CopyInsert
  <2>2. x \in Checking /\ x.pc = "move"
    BY <2>1 DEF Checking
  <2>3. r \in Run /\ r.attempt <= r.started /\ r.started <= started
    BY <2>1 DEF Checking, Run
  <2>4. chk' = [chk EXCEPT ![c] = x] /\ runs' = runs \union {r}
    BY <1>3 DEF CopyInsert
  <2> HIDE DEF x, r
  <2>5. /\ chk' \in [Checkers -> Checking]
        /\ \A d \in Checkers : chk'[d].pc = "insert" => chk'[d] = chk[d]
    BY <2>2, <2>4
  <2> QED
    BY <1>3, <2>3, <2>4, <2>5 DEF CopyInsert
<1>4. ASSUME NEW c \in Checkers, CopyMove(c) \/ CompEnd(c) PROVE Typed'
  <2>1. chk' = [chk EXCEPT ![c] = IdleChecker]
    BY <1>4 DEF CopyMove, CompEnd
  <2>2. /\ chk' \in [Checkers -> Checking]
        /\ \A d \in Checkers : chk'[d].pc = "insert" => chk'[d] = chk[d]
    BY <1>0, <2>1 DEF IdleChecker
  <2>3. stage' \in Stages
    BY <1>4, MoveKeeps DEF CopyMove, CompEnd, Stages
  <2> QED
    BY <1>4, <2>2, <2>3 DEF CopyMove, CompEnd
<1>5. ASSUME NEW c \in Checkers, CompStore(c) \/ CompBegin(c) PROVE Typed'
  <2>1. PICK x \in Checking : chk' = [chk EXCEPT ![c] = x] /\ x.pc # "insert"
    <3> DEFINE b == AsStepped(chk[c], "comp_begin")
               e == AsStepped(chk[c], "comp_end")
    <3>1. "comp_begin" \in CheckStep /\ "comp_end" \in CheckStep /\ chk[c] \in Checking
      BY DEF CheckStep
    <3>2. b \in Checking /\ e \in Checking /\ b.pc = "comp_begin" /\ e.pc = "comp_end"
      BY <3>1, Stepped
    <3>3. \E x \in {b, e, IdleChecker} : chk' = [chk EXCEPT ![c] = x]
      BY <1>5 DEF CompStore, CompBegin, AsStepped
    <3>4. IdleChecker.pc = "idle"
      BY DEF IdleChecker
    <3> HIDE DEF b, e
    <3> QED
      BY <1>0, <3>2, <3>3, <3>4
  <2>2. /\ chk' \in [Checkers -> Checking]
        /\ \A d \in Checkers : chk'[d].pc = "insert" => chk'[d] = chk[d]
    BY <2>1
  <2>3. stage' \in Stages
    BY <1>5, MoveKeeps DEF CompStore, CompBegin, Stages
  <2>4. compliance' \in Compliance
    <3>1. chk[c].passed \in BOOLEAN /\ compliance \in Compliance
      BY DEF Checking
    <3>2. ASSUME NEW v \in {"passed", "failed"}, NEW w \in BOOLEAN
          PROVE  [latest |-> v, passed |-> w] \in Compliance
      BY DEF Compliance
    <3>3. \/ compliance' = compliance
          \/ \E v \in {"passed", "failed"}, w \in BOOLEAN :
               compliance' = [latest |-> v, passed |-> w]
      <4>1. CASE CompBegin(c)
        BY <4>1 DEF CompBegin, qaVars
      <4>2. CASE CompStore(c)
        <5>1. (compliance.passed \/ chk[c].passed) \in BOOLEAN
          BY <3>1 DEF Compliance
        <5> QED
          BY <4>2, <5>1 DEF CompStore
      <4> QED
        BY <1>5, <4>1, <4>2
    <3> QED
      BY <3>1, <3>2, <3>3
  <2> QED
    BY <1>5, <2>2, <2>3, <2>4 DEF CompStore, CompBegin
<1>6. ASSUME NEW a \in Authors, ResubRead(a) \/ ResubWrite(a) PROVE Typed'
  <2>1. CASE ResubRead(a)
    BY <2>1 DEF ResubRead, ReadUpTo
  <2>2. CASE ResubWrite(a)
    BY <2>2 DEF ResubWrite
  <2> QED
    BY <1>6, <2>1, <2>2
<1>7. ASSUME NEW a \in Authors, ResubHold(a) \/ ResubGenerated(a) \/ ResubRequeue(a)
      PROVE Typed'
  <2>1. stage' \in Stages
    BY <1>7, MoveKeeps DEF ResubHold, ResubGenerated, ResubRequeue, Stages
  <2>2. aut' \in [Authors -> {"idle", "hold", "write", "generated", "requeue"}]
    BY <1>7 DEF ResubHold, ResubGenerated, ResubRequeue
  <2>3. requeues' \in Nat
    BY <1>7 DEF ResubHold, ResubGenerated, ResubRequeue
  <2>4. UNCHANGED <<status, text, good, qaVars, chk, apr, snd, approvedText, sentText>>
    BY <1>7 DEF ResubHold, ResubGenerated, ResubRequeue
  <2> QED
    BY <2>1, <2>2, <2>3, <2>4
<1>8. ASSUME ApproveRead PROVE Typed'
  BY <1>8 DEF ApproveRead
<1>9. ASSUME ApproveWrite PROVE Typed'
  <2>1. stage' \in Stages
    BY <1>9, MoveKeeps DEF ApproveWrite, Stages
  <2> QED
    BY <1>9, <2>1 DEF ApproveWrite
<1>10. ASSUME SendClaim \/ SendLoad \/ SendGate \/ SendFail \/ SendReport
       PROVE Typed'
  BY <1>10 DEF SendClaim, SendLoad, SendGate, SendFail, SendReport
<1>11. ASSUME SendOk PROVE Typed'
  <2>1. snd.text \in 1 .. MaxText
    BY <1>11 DEF SendOk
  <2>2. sentText' \subseteq 1 .. MaxText /\ snd' = [pc |-> "report", text |-> NoText]
    BY <1>11, <2>1 DEF SendOk
  <2> QED
    BY <1>11, <2>2 DEF SendOk
<1>12. ASSUME SendMark PROVE Typed'
  <2>1. stage' \in Stages
    BY <1>12, MoveKeeps DEF SendMark, Stages
  <2> QED
    BY <1>12, <2>1 DEF SendMark
<1>13. ASSUME Expire PROVE Typed'
  BY <1>13 DEF Expire
<1>14. ASSUME Crash PROVE Typed'
  <2>1. /\ chk' \in [Checkers -> Checking]
        /\ \A d \in Checkers : chk'[d].pc = "insert" => chk'[d] = chk[d]
    <3>1. CASE chk' = chk
      BY <3>1
    <3>2. ASSUME NEW c \in Checkers, chk' = [chk EXCEPT ![c] = IdleChecker]
          PROVE  /\ chk' \in [Checkers -> Checking]
                 /\ \A d \in Checkers : chk'[d].pc = "insert" => chk'[d] = chk[d]
      <4>1. IdleChecker.pc # "insert"
        BY DEF IdleChecker
      <4> QED
        BY <1>0, <3>2, <4>1
    <3> QED
      BY <1>14, <3>1, <3>2 DEF Crash
  <2>2. aut' \in [Authors -> {"idle", "hold", "write", "generated", "requeue"}]
    BY <1>14 DEF Crash
  <2> QED
    BY <1>14, <2>1, <2>2 DEF Crash
<1>15. CASE UNCHANGED vars
  BY <1>15 DEF vars
<1> QED
  BY <1>1, <1>2, <1>3, <1>4, <1>5, <1>6, <1>7, <1>8, <1>9, <1>10, <1>11, <1>12, <1>13,
     <1>14, <1>15 DEF Next, Check, Resubmit, Approval, Sending

\* Every step keeps what was stored, and the stages behind it.
LEMMA ReviewStep ==
  Typed /\ VerdictStored /\ StageReviewed /\ [Next]_vars
    => (VerdictStored /\ StageReviewed)'
<1> SUFFICES ASSUME Typed, VerdictStored, StageReviewed, [Next]_vars
             PROVE  (VerdictStored /\ StageReviewed)'
  OBVIOUS
<1> DEFINE Done == (VerdictStored /\ StageReviewed)'
           Before == {"QA_PASSED", "COMPLIANCE_PENDING", "SEND_READY", "SCHEDULED", "SENT"}
           After == {"SEND_READY", "SCHEDULED", "SENT"}
<1>0. /\ chk \in [Checkers -> Checking] /\ stage \in Stages
      /\ \A c \in Checkers : chk[c].passed \in BOOLEAN
  BY DEF Typed, TypeOK, Checking
<1> USE <1>0
<1>1. ASSUME NEW c \in Checkers, NEW x \in Checking, chk' = [chk EXCEPT ![c] = x],
             x.pc \notin {"move", "comp_begin", "comp_end"},
             UNCHANGED <<stage, runs, compliance>>
      PROVE  Done
  BY <1>1 DEF VerdictStored, StageReviewed
<1>2. ASSUME UNCHANGED <<chk, runs, compliance>>,
             stage' \in Before => stage \in Before,
             stage' \in After => stage \in After
      PROVE  Done
  BY <1>2 DEF VerdictStored, StageReviewed
<1>3. IdleChecker \in Checking /\ IdleChecker.pc = "idle"
  BY CopyAssumption DEF IdleChecker, Checking, Stages
<1>4. ASSUME NEW c \in Checkers, CopyLoad(c) PROVE Done
  <2>1. chk' = [chk EXCEPT ![c] = AsLoaded(IdleChecker, stage, good, text)]
    BY <1>4 DEF CopyLoad, AsLoaded
  <2>2. good \in BOOLEAN /\ text \in 1 .. MaxText
    BY DEF Typed, TypeOK
  <2>3. UNCHANGED <<stage, runs, compliance>>
    BY <1>4 DEF CopyLoad, rowVars, qaVars
  <2> QED
    BY <1>1, <1>3, <2>1, <2>2, <2>3, CopyLoaded
<1>5. ASSUME NEW c \in Checkers, CompLoad(c) PROVE Done
  <2>1. PICK ok \in BOOLEAN : chk' = [chk EXCEPT ![c] = AsCompLoaded(IdleChecker, stage, ok)]
    BY <1>5 DEF CompLoad, AsCompLoaded
  <2>2. UNCHANGED <<stage, runs, compliance>>
    BY <1>5 DEF CompLoad, rowVars, qaVars
  <2> QED
    BY <1>1, <1>3, <2>1, <2>2, CompLoaded
<1>6. ASSUME NEW c \in Checkers, CopyCount(c) PROVE Done
  <2>1. PICK n \in 0 .. MaxRuns :
          chk' = [chk EXCEPT ![c] = AsCounted(chk[c], started + 1, n + 1)]
    BY <1>6 DEF CopyCount, CountFrom, AsCounted
  <2>2. started + 1 \in 0 .. MaxRuns /\ n + 1 \in 1 .. MaxRuns + 1
    BY <1>6, CopyAssumption DEF CopyCount, CountFrom, Typed, TypeOK
  <2>3. UNCHANGED <<stage, runs, compliance>>
    BY <1>6 DEF CopyCount, CountFrom, rowVars
  <2>4. /\ AsCounted(chk[c], started + 1, n + 1) \in Checking
        /\ AsCounted(chk[c], started + 1, n + 1).pc = "insert"
    BY <2>2, Counted
  <2> QED
    BY <1>1, <2>1, <2>3, <2>4
<1>7. ASSUME NEW c \in Checkers, CopyInsert(c) PROVE Done
  <2> DEFINE x == AsStepped(chk[c], "move")
             r == [started |-> chk[c].started, attempt |-> chk[c].attempt,
                   passed |-> chk[c].passed, text |-> chk[c].text]
  <2>1. chk' = [chk EXCEPT ![c] = x] /\ runs' = runs \union {r}
    BY <1>7 DEF CopyInsert, AsStepped
  <2>2. x \in Checking /\ x.pc = "move" /\ x.passed = chk[c].passed
    BY Stepped DEF CheckStep
  <2>3. r.passed = chk[c].passed
    OBVIOUS
  <2>4. UNCHANGED <<stage, compliance>>
    BY <1>7 DEF CopyInsert, rowVars
  <2> HIDE DEF x, r
  <2>5. \A d \in Checkers : chk'[d] = IF d = c THEN x ELSE chk[d]
    BY <2>1, <2>2
  <2>6. VerdictStored'
    <3> SUFFICES ASSUME NEW d \in Checkers
                 PROVE  /\ chk'[d].pc = "move" /\ chk'[d].passed => \E q \in runs' : q.passed
                        /\ chk'[d].pc \in {"comp_begin", "comp_end"} /\ chk'[d].passed => compliance'.passed
      BY DEF VerdictStored
    <3>1. CASE d = c
      BY <2>1, <2>2, <2>3, <2>5, <3>1
    <3>2. CASE d # c
      BY <2>1, <2>4, <2>5, <3>2 DEF VerdictStored
    <3> QED
      BY <3>1, <3>2
  <2>7. StageReviewed'
    BY <2>1, <2>4 DEF StageReviewed
  <2> QED
    BY <2>6, <2>7
<1>8. ASSUME NEW c \in Checkers, CopyMove(c) PROVE Done
  <2>1. chk' = [chk EXCEPT ![c] = IdleChecker] /\ UNCHANGED <<runs, compliance>>
    BY <1>8 DEF CopyMove, qaVars
  <2>2. VerdictStored'
    BY <1>3, <2>1 DEF VerdictStored
  <2>3. \/ stage' \in {stage, "QA_FAILED"}
        \/ stage' = "QA_PASSED" /\ \E r \in runs : r.passed
    BY <1>8, MoveKeeps DEF CopyMove, VerdictStored, Stages
  <2>4. StageReviewed'
    BY <2>1, <2>3 DEF StageReviewed
  <2> QED
    BY <2>2, <2>4
<1>9. ASSUME NEW c \in Checkers, CompStore(c) PROVE Done
  <2>1. /\ chk[c].passed => compliance'.passed
        /\ compliance.passed => compliance'.passed
        /\ UNCHANGED <<stage, runs>>
    BY <1>9 DEF CompStore, rowVars
  <2>2. PICK x \in Checking :
          /\ chk' = [chk EXCEPT ![c] = x] /\ x.pc # "move"
          /\ x.passed => chk[c].passed
    <3> DEFINE b == AsStepped(chk[c], "comp_begin")
               e == AsStepped(chk[c], "comp_end")
    <3>1. /\ b \in Checking /\ e \in Checking /\ b.pc = "comp_begin" /\ e.pc = "comp_end"
          /\ b.passed = chk[c].passed /\ e.passed = chk[c].passed /\ ~IdleChecker.passed
      BY Stepped DEF CheckStep, IdleChecker
    <3>2. \E x \in {b, e, IdleChecker} : chk' = [chk EXCEPT ![c] = x]
      BY <1>9 DEF CompStore, AsStepped
    <3> HIDE DEF b, e
    <3> QED
      BY <1>3, <3>1, <3>2
  <2>3. \A d \in Checkers : chk'[d] = IF d = c THEN x ELSE chk[d]
    BY <2>2
  <2>4. VerdictStored'
    <3> SUFFICES ASSUME NEW d \in Checkers
                 PROVE  /\ chk'[d].pc = "move" /\ chk'[d].passed => \E q \in runs' : q.passed
                        /\ chk'[d].pc \in {"comp_begin", "comp_end"} /\ chk'[d].passed => compliance'.passed
      BY DEF VerdictStored
    <3>1. CASE d = c
      BY <2>1, <2>2, <2>3, <3>1
    <3>2. CASE d # c
      BY <2>1, <2>3, <3>2 DEF VerdictStored
    <3> QED
      BY <3>1, <3>2
  <2>5. StageReviewed'
    BY <2>1 DEF StageReviewed
  <2> QED
    BY <2>4, <2>5
<1>10. ASSUME NEW c \in Checkers, CompBegin(c) PROVE Done
  <2>1. UNCHANGED <<runs, compliance>> /\ chk[c].pc = "comp_begin"
    BY <1>10 DEF CompBegin, qaVars
  <2>2. PICK x \in Checking :
          /\ chk' = [chk EXCEPT ![c] = x] /\ x.pc # "move"
          /\ x.passed => chk[c].passed
    <3> DEFINE e == AsStepped(chk[c], "comp_end")
    <3>1. e \in Checking /\ e.pc = "comp_end" /\ e.passed = chk[c].passed /\ ~IdleChecker.passed
      BY Stepped DEF CheckStep, IdleChecker
    <3>2. \E x \in {e, IdleChecker} : chk' = [chk EXCEPT ![c] = x]
      BY <1>10 DEF CompBegin, AsStepped
    <3> HIDE DEF e
    <3> QED
      BY <1>3, <3>1, <3>2
  <2>3. stage' \in {stage, "COMPLIANCE_PENDING"} /\ (stage' # stage => stage = "QA_PASSED")
    BY <1>10, MoveKeeps DEF CompBegin, Stages
  <2>4. VerdictStored'
    <3>1. \A d \in Checkers : chk'[d] = IF d = c THEN x ELSE chk[d]
      BY <2>2
    <3> SUFFICES ASSUME NEW d \in Checkers
                 PROVE  /\ chk'[d].pc = "move" /\ chk'[d].passed => \E q \in runs' : q.passed
                        /\ chk'[d].pc \in {"comp_begin", "comp_end"} /\ chk'[d].passed => compliance'.passed
      BY DEF VerdictStored
    <3>2. CASE d = c
      BY <2>1, <2>2, <3>1, <3>2 DEF VerdictStored
    <3>3. CASE d # c
      BY <2>1, <3>1, <3>3 DEF VerdictStored
    <3> QED
      BY <3>2, <3>3
  <2>5. StageReviewed'
    BY <2>1, <2>3 DEF StageReviewed
  <2> QED
    BY <2>4, <2>5
<1>11. ASSUME NEW c \in Checkers, CompEnd(c) PROVE Done
  <2>1. /\ UNCHANGED <<runs, compliance>> /\ chk[c].pc = "comp_end"
        /\ chk' = [chk EXCEPT ![c] = IdleChecker]
    BY <1>11 DEF CompEnd, qaVars
  <2>2. VerdictStored'
    BY <1>3, <2>1 DEF VerdictStored
  <2>3. \/ stage' \in {stage, "COMPLIANCE_FAILED"}
        \/ stage' = "SEND_READY" /\ stage = "COMPLIANCE_PENDING" /\ chk[c].passed
    BY <1>11, MoveKeeps DEF CompEnd, Stages
  <2>4. chk[c].passed => compliance.passed
    BY <2>1 DEF VerdictStored
  <2>5. StageReviewed'
    BY <2>1, <2>3, <2>4 DEF StageReviewed
  <2> QED
    BY <2>2, <2>5
<1>12. ASSUME NEW a \in Authors, Resubmit(a) PROVE Done
  <2>1. UNCHANGED <<chk, runs, compliance>>
    BY <1>12 DEF Resubmit, ResubRead, ReadUpTo, ResubHold, ResubWrite, ResubGenerated,
                 ResubRequeue, qaVars
  <2>2. stage' \in {stage, "HELD", "COPY_GENERATED", "QA_PENDING"}
    BY <1>12, MoveKeeps DEF Resubmit, ResubRead, ReadUpTo, ResubHold, ResubWrite,
                 ResubGenerated, ResubRequeue, rowVars, Stages
  <2> QED
    BY <1>2, <2>1, <2>2
<1>13. ASSUME Approval \/ Sending \/ Expire PROVE Done
  <2>1. UNCHANGED <<chk, runs, compliance>>
    BY <1>13 DEF Approval, ApproveRead, ApproveWrite, Sending, SendClaim, SendLoad,
                 SendGate, SendFail, SendOk, SendReport, SendMark, Expire, qaVars
  <2>2. \/ stage' = stage
        \/ stage = "SEND_READY" /\ stage' = "SCHEDULED"
        \/ stage = "SCHEDULED" /\ stage' = "SENT"
    BY <1>13, MoveKeeps DEF Approval, ApproveRead, ApproveWrite, Sending, SendClaim,
                 SendLoad, SendGate, SendFail, SendOk, SendReport, SendMark, Expire,
                 rowVars, Stages
  <2> QED
    BY <1>2, <2>1, <2>2
<1>14. ASSUME Crash PROVE Done
  <2>1. UNCHANGED <<stage, runs, compliance>>
    BY <1>14 DEF Crash, rowVars, qaVars
  <2>2. CASE chk' = chk
    BY <1>2, <2>1, <2>2
  <2>3. ASSUME NEW c \in Checkers, chk' = [chk EXCEPT ![c] = IdleChecker] PROVE Done
    BY <1>1, <1>3, <2>1, <2>3
  <2> QED
    BY <1>14, <2>2, <2>3 DEF Crash
<1>15. CASE UNCHANGED vars
  BY <1>2, <1>15 DEF vars
<1> QED
  BY <1>4, <1>5, <1>6, <1>7, <1>8, <1>9, <1>10, <1>11, <1>12, <1>13, <1>14, <1>15
     DEF Next, Check

\* What a step does to the stage where requeueing is concerned.
LEMMA LeavesStage ==
  ASSUME Typed, RequeueOwned, [Next]_vars
  PROVE  \/ /\ stage' = stage \/ stage \notin {"HELD", "COPY_GENERATED"}
            /\ \A a \in Authors : aut'[a] = "requeue" => aut[a] = "requeue"
         \/ /\ stage # "HELD"
            /\ \E a \in Authors :
                 /\ stage # "COPY_GENERATED" /\ stage' = "COPY_GENERATED"
                 /\ \A b \in Authors : aut'[b] = IF b = a THEN "requeue" ELSE aut[b]
         \/ /\ stage = "COPY_GENERATED"
            /\ \A a \in Authors : aut'[a] # "requeue"
<1> DEFINE Kept == /\ stage' = stage \/ stage \notin {"HELD", "COPY_GENERATED"}
                   /\ \A a \in Authors : aut'[a] = "requeue" => aut[a] = "requeue"
<1>0. /\ stage \in Stages
      /\ aut \in [Authors -> {"idle", "hold", "write", "generated", "requeue"}]
  BY DEF Typed, TypeOK
<1> USE <1>0
<1>1. ASSUME NEW c \in Checkers, Check(c) PROVE Kept
  <2>1. aut' = aut
    BY <1>1 DEF Check, CopyLoad, CopyCount, CountFrom, CopyInsert, CopyMove, CompLoad,
                CompStore, CompBegin, CompEnd
  <2>2. stage' = stage \/ stage \notin {"HELD", "COPY_GENERATED"}
    BY <1>1, MoveKeeps DEF Check, CopyLoad, CopyCount, CountFrom, CopyInsert, CopyMove,
                CompLoad, CompStore, CompBegin, CompEnd, rowVars, Stages
  <2> QED
    BY <2>1, <2>2
<1>2. ASSUME NEW a \in Authors, ResubRead(a) \/ ResubHold(a) \/ ResubWrite(a) PROVE Kept
  <2>1. \A b \in Authors : aut'[b] = "requeue" => aut[b] = "requeue"
    BY <1>2 DEF ResubRead, ReadUpTo, ResubHold, ResubWrite
  <2>2. stage' = stage \/ stage \notin {"HELD", "COPY_GENERATED"}
    BY <1>2, MoveKeeps DEF ResubRead, ReadUpTo, ResubHold, ResubWrite, rowVars, Stages
  <2> QED
    BY <2>1, <2>2
<1>3. ASSUME NEW a \in Authors, ResubGenerated(a)
      PROVE  \/ Kept
             \/ /\ stage \notin {"HELD", "COPY_GENERATED"} /\ stage' = "COPY_GENERATED"
                /\ \A b \in Authors : aut'[b] = IF b = a THEN "requeue" ELSE aut[b]
  <2>1. CASE "COPY_GENERATED" \in Transitions[stage]
    <3>1. stage # "COPY_GENERATED" /\ stage' = "COPY_GENERATED" /\ stage # "HELD"
      BY <1>3, <2>1, TransitionsAt DEF ResubGenerated, Move, Stages
    <3>2. \A b \in Authors : aut'[b] = IF b = a THEN "requeue" ELSE aut[b]
      BY <1>3, <2>1 DEF ResubGenerated
    <3> QED
      BY <3>1, <3>2
  <2>2. CASE "COPY_GENERATED" \notin Transitions[stage]
    <3>1. stage' = stage /\ aut' = [aut EXCEPT ![a] = "idle"]
      BY <1>3, <2>2 DEF ResubGenerated, Move
    <3> QED
      BY <3>1
  <2> QED
    BY <2>1, <2>2
<1>4. ASSUME NEW a \in Authors, ResubRequeue(a)
      PROVE  stage = "COPY_GENERATED" /\ \A b \in Authors : aut'[b] # "requeue"
  <2>1. aut[a] = "requeue" /\ aut' = [aut EXCEPT ![a] = "idle"]
    BY <1>4 DEF ResubRequeue
  <2> QED
    BY <2>1 DEF RequeueOwned
<1>5. ASSUME Approval \/ Sending \/ Expire PROVE Kept
  <2>1. aut' = aut
    BY <1>5 DEF Approval, ApproveRead, ApproveWrite, Sending, SendClaim, SendLoad,
                SendGate, SendFail, SendOk, SendReport, SendMark, Expire
  <2>2. stage' = stage \/ stage \notin {"HELD", "COPY_GENERATED"}
    BY <1>5, MoveKeeps DEF Approval, ApproveRead, ApproveWrite, Sending, SendClaim,
                SendLoad, SendGate, SendFail, SendOk, SendReport, SendMark, Expire,
                rowVars, Stages
  <2> QED
    BY <2>1, <2>2
<1>6. ASSUME Crash PROVE Kept
  <2>1. \A b \in Authors : aut'[b] = "requeue" => aut[b] = "requeue"
    BY <1>6 DEF Crash
  <2>2. stage' = stage
    BY <1>6 DEF Crash, rowVars
  <2> QED
    BY <2>1, <2>2
<1>7. CASE UNCHANGED vars
  BY <1>7 DEF vars
<1> QED
  BY <1>1, <1>2, <1>3, <1>4, <1>5, <1>6, <1>7 DEF Next, Resubmit

\* Every step keeps the ownership of the requeueing.
LEMMA RequeueStep == Typed /\ RequeueOwned /\ [Next]_vars => RequeueOwned'
<1> SUFFICES ASSUME Typed, RequeueOwned, [Next]_vars PROVE RequeueOwned'
  OBVIOUS
<1>1. CASE /\ stage' = stage \/ stage \notin {"HELD", "COPY_GENERATED"}
           /\ \A a \in Authors : aut'[a] = "requeue" => aut[a] = "requeue"
  BY <1>1 DEF RequeueOwned
<1>2. ASSUME NEW a \in Authors, stage # "COPY_GENERATED", stage' = "COPY_GENERATED",
             \A b \in Authors : aut'[b] = IF b = a THEN "requeue" ELSE aut[b]
      PROVE  RequeueOwned'
  BY <1>2 DEF RequeueOwned
<1>3. CASE \A a \in Authors : aut'[a] # "requeue"
  BY <1>3 DEF RequeueOwned
<1> QED
  BY <1>1, <1>2, <1>3, LeavesStage

-----------------------------------------------------------------------------
\* The invariant holds in every behaviour.
THEOREM ReviewedHolds == Spec => []Reviewed
<1>1. Reviewed /\ [Next]_vars => Reviewed'
  BY TypeStep, ReviewStep, RequeueStep DEF Reviewed, Typed
<1> QED
  BY <1>1, ReviewedInit, PTL DEF Spec

\* The state always has its types.
THEOREM TypeCorrect == Spec => []TypeOK
<1>1. Reviewed => TypeOK
  BY DEF Reviewed
<1> QED
  BY <1>1, ReviewedHolds, PTL

\* QA cannot be bypassed on the way to the sender: a copy run and a compliance
\* run that passed are stored, for any number of concurrent runs, resubmissions
\* and crashes.
THEOREM CannotBypass == Spec => []AuthorizedWasReviewed
<1>1. Reviewed => AuthorizedWasReviewed
  BY DEF Reviewed, StageReviewed, AuthorizedWasReviewed, AuthorizedSendStages
<1> QED
  BY <1>1, ReviewedHolds, PTL

\* No step of the program takes a draft out of HELD.
THEOREM HeldForGood == Spec => HeldIsFinal
<1>1. Reviewed /\ [Next]_vars => [stage = "HELD" => stage' = "HELD"]_vars
  BY LeavesStage DEF Reviewed, Typed
<1> QED
  BY <1>1, ReviewedHolds, PTL DEF Spec, HeldIsFinal

-----------------------------------------------------------------------------
(* One checker and one author, who waits for QA to fail.                   *)

\* The environment in which a verdict is about the text that is sent, and
\* attempts count: no two runs of QA, and no two resubmissions, at once.
OneByOne ==
  /\ SerialResubmit
  /\ \A c, d \in Checkers : c = d
  /\ \A a, b \in Authors : a = b

\* The stages copy QA lets a draft through to.
Behind == {"QA_PASSED", "COMPLIANCE_PENDING", "COMPLIANCE_FAILED", "SEND_READY",
           "SCHEDULED", "SENT"}

Judged(t) == \E r \in runs : r.passed /\ r.text = t

\* A draft stays where its QA failed until its author has the new text in it.
AuthorsWait ==
  \A a \in Authors : aut[a] \in {"hold", "write", "generated"} => stage = "QA_FAILED"

\* A checker whose verdict will move the draft is about the text that is there.
Deciding(x) == x.pc \in {"count", "insert", "move"} /\ x.stage = "QA_PENDING"
CheckersCurrent ==
  \A c \in Checkers :
    /\ Deciding(chk[c]) => stage = "QA_PENDING" /\ chk[c].text = text
    /\ chk[c].pc = "move" /\ chk[c].passed => Judged(chk[c].text)

\* Behind copy QA the text no longer changes: it is the one that passed, the one
\* a human is shown, the one that is approved, loaded and delivered.
TextSettled ==
  /\ stage \in Behind => Judged(text)
  /\ apr.pc = "write" => stage \in Behind /\ apr.text = text
  /\ status # "pending_approval" => stage \in Behind /\ text \in approvedText
  /\ snd.pc # "idle" \/ sentText # {} => status # "pending_approval"
  /\ snd.pc \in {"gate", "transport"} => snd.text = text
  /\ sentText \subseteq {text}

Settled == AuthorsWait /\ CheckersCurrent /\ TextSettled

LEMMA SettledInit == Init => Settled
  BY DEF Init, Settled, AuthorsWait, CheckersCurrent, TextSettled, Behind, IdleChecker, Deciding

\* Which targets can move a draft from where it is.
LEMMA MovesFrom ==
  ASSUME stage \in Stages, NEW to \in Stages, Move(to)
  PROVE  /\ stage = "QA_FAILED" /\ stage' # stage => to \in {"COPY_GENERATED", "HELD"}
         /\ stage = "QA_PENDING" /\ stage' # stage => to \in {"QA_PASSED", "QA_FAILED", "HELD"}
         /\ stage \in Behind /\ to \notin {"COPY_GENERATED", "HELD"} => stage' \in Behind
         /\ to \in Behind /\ stage' # stage => stage \in Behind \union {"QA_PENDING"}
         /\ to = "QA_FAILED" /\ stage' # stage => stage = "QA_PENDING"
  BY TransitionsAt DEF Move, Stages, Behind

\* What leaves the draft and the people around it alone keeps two of the three.
LEMMA RestSettled ==
  ASSUME Settled, runs \subseteq runs',
         UNCHANGED <<stage, status, text, aut, apr, snd, approvedText, sentText>>
  PROVE  AuthorsWait' /\ TextSettled'
  BY DEF Settled, AuthorsWait, TextSettled, Judged

\* With one checker, what it becomes is all there is to know.
LEMMA CheckerSettled ==
  ASSUME OneByOne, Typed, NEW c \in Checkers, NEW x \in Checking,
         chk' = [chk EXCEPT ![c] = x],
         Deciding(x) => stage' = "QA_PENDING" /\ x.text = text',
         x.pc = "move" /\ x.passed => \E r \in runs' : r.passed /\ r.text = x.text
  PROVE  CheckersCurrent'
<1>1. \A d \in Checkers : d = c /\ chk'[d] = x
  BY DEF OneByOne, Typed, TypeOK
<1> QED
  BY <1>1 DEF CheckersCurrent, Judged

LEMMA SettledByChecker ==
  ASSUME OneByOne, Typed, VerdictStored, Settled, NEW c \in Checkers, Check(c)
  PROVE  Settled'
<1> USE DEF Settled, rowVars, qaVars, history
<1>0. /\ chk[c] \in Checking /\ stage \in Stages /\ text \in 1 .. MaxText /\ good \in BOOLEAN
      /\ IdleChecker \in Checking /\ IdleChecker.pc = "idle"
  BY CopyAssumption DEF Typed, TypeOK, IdleChecker, Checking, Stages
<1>1. CASE CopyLoad(c)
  <2> DEFINE x == AsLoaded(IdleChecker, stage, good, text)
  <2>1. x \in Checking /\ x.pc = "count" /\ x.stage = stage /\ x.text = text
    BY <1>0, CopyLoaded
  <2>2. chk' = [chk EXCEPT ![c] = x]
    BY <1>1 DEF CopyLoad, AsLoaded
  <2>3. UNCHANGED <<stage, status, text, runs, aut, apr, snd, approvedText, sentText>>
    BY <1>1 DEF CopyLoad
  <2> HIDE DEF x
  <2> QED
    BY <2>1, <2>2, <2>3, RestSettled, CheckerSettled DEF Deciding
<1>2. CASE CompLoad(c)
  <2>1. PICK ok \in BOOLEAN : chk' = [chk EXCEPT ![c] = AsCompLoaded(IdleChecker, stage, ok)]
    BY <1>2 DEF CompLoad, AsCompLoaded
  <2> DEFINE x == AsCompLoaded(IdleChecker, stage, ok)
  <2>2. x \in Checking /\ x.pc = "comp_store"
    BY <1>0, CompLoaded
  <2>3. UNCHANGED <<stage, status, text, runs, aut, apr, snd, approvedText, sentText>>
    BY <1>2 DEF CompLoad
  <2> HIDE DEF x
  <2> QED
    BY <2>1, <2>2, <2>3, RestSettled, CheckerSettled DEF Deciding, x
<1>3. CASE CopyCount(c)
  <2>1. PICK n \in 0 .. MaxRuns :
          chk' = [chk EXCEPT ![c] = AsCounted(chk[c], started + 1, n + 1)]
    BY <1>3 DEF CopyCount, CountFrom, AsCounted
  <2> DEFINE x == AsCounted(chk[c], started + 1, n + 1)
  <2>2. started + 1 \in 0 .. MaxRuns /\ n + 1 \in 1 .. MaxRuns + 1
    BY <1>3, CopyAssumption DEF CopyCount, CountFrom, Typed, TypeOK
  <2>3. x \in Checking /\ x.pc = "insert" /\ x.stage = chk[c].stage /\ x.text = chk[c].text
    BY <1>0, <2>2, Counted
  <2>4. /\ UNCHANGED <<stage, status, text, runs, aut, apr, snd, approvedText, sentText>>
        /\ chk[c].pc = "count"
    BY <1>3 DEF CopyCount, CountFrom
  <2>5. chk' = [chk EXCEPT ![c] = x]
    BY <2>1
  <2> HIDE DEF x
  <2>6. Deciding(x) => stage' = "QA_PENDING" /\ x.text = text'
    BY <2>3, <2>4 DEF CheckersCurrent, Deciding
  <2> QED
    BY <2>3, <2>4, <2>5, <2>6, RestSettled, CheckerSettled
<1>4. CASE CopyInsert(c)
  <2> DEFINE x == AsStepped(chk[c], "move")
             r == [started |-> chk[c].started, attempt |-> chk[c].attempt,
                   passed |-> chk[c].passed, text |-> chk[c].text]
  <2>1. /\ x \in Checking /\ x.pc = "move" /\ x.stage = chk[c].stage
        /\ x.text = chk[c].text /\ x.passed = chk[c].passed
    BY <1>0, Stepped DEF CheckStep
  <2>2. /\ UNCHANGED <<stage, status, text, aut, apr, snd, approvedText, sentText>>
        /\ chk[c].pc = "insert" /\ runs' = runs \union {r}
        /\ chk' = [chk EXCEPT ![c] = x]
    BY <1>4 DEF CopyInsert, AsStepped
  <2>3. r \in runs' /\ r.passed = x.passed /\ r.text = x.text
    BY <2>1, <2>2
  <2> HIDE DEF x, r
  <2>4. Deciding(x) => stage' = "QA_PENDING" /\ x.text = text'
    BY <2>1, <2>2 DEF CheckersCurrent, Deciding
  <2>5. x.passed => \E q \in runs' : q.passed /\ q.text = x.text
    BY <2>3
  <2> QED
    BY <2>1, <2>2, <2>4, <2>5, RestSettled, CheckerSettled
<1>5. CASE CopyMove(c) \/ CompEnd(c)
  <2>1. /\ chk' = [chk EXCEPT ![c] = IdleChecker]
        /\ UNCHANGED <<status, text, runs, aut, apr, snd, approvedText, sentText>>
    BY <1>5 DEF CopyMove, CompEnd
  <2>2. CheckersCurrent'
    BY <1>0, <2>1, CheckerSettled DEF Deciding
  <2>3. PICK to \in {"QA_PASSED", "QA_FAILED", "SEND_READY", "COMPLIANCE_FAILED"} :
          stage' # stage => Move(to) /\ (to = "QA_PASSED" => Judged(text))
    <3>1. CASE CompEnd(c)
      BY <3>1 DEF CompEnd
    <3>2. CASE CopyMove(c) /\ chk[c].stage # "QA_PENDING"
      BY <3>2 DEF CopyMove
    <3>3. CASE CopyMove(c) /\ chk[c].stage = "QA_PENDING"
      <4>1. chk[c].text = text /\ (chk[c].passed => Judged(text))
        BY <3>3 DEF CopyMove, CheckersCurrent, Deciding
      <4> QED
        BY <3>3, <4>1 DEF CopyMove
    <3> QED
      BY <1>5, <3>1, <3>2, <3>3
  <2>4. stage = "QA_FAILED" => stage' = stage
    BY <1>0, <2>3, MovesFrom DEF Stages
  <2>5. /\ stage \in Behind => stage' \in Behind
        /\ stage' \in Behind => Judged(text)
    <3>1. CASE stage' = stage
      BY <3>1 DEF TextSettled
    <3>2. CASE stage' # stage
      <4>1. Move(to) /\ to \in Stages
        BY <2>3, <3>2 DEF Stages
      <4>2. stage \in Behind => stage' \in Behind
        BY <1>0, <2>3, <4>1, MovesFrom
      <4>3. stage' = to
        BY <1>0, <3>2, <4>1, MoveKeeps
      <4>4. to \in Behind => stage \in Behind \/ to = "QA_PASSED"
        BY <1>0, <2>3, <3>2, <4>1, TransitionsAt DEF Move, Behind, Stages
      <4> QED
        BY <2>3, <3>2, <4>2, <4>3, <4>4 DEF TextSettled
    <3> QED
      BY <3>1, <3>2
  <2>6. AuthorsWait'
    BY <2>1, <2>4 DEF AuthorsWait
  <2>7. TextSettled'
    BY <2>1, <2>5 DEF TextSettled, Judged
  <2> QED
    BY <2>2, <2>6, <2>7
<1>6. CASE CompStore(c) \/ CompBegin(c)
  <2>1. UNCHANGED <<status, text, runs, aut, apr, snd, approvedText, sentText>>
    BY <1>6 DEF CompStore, CompBegin
  <2>2. PICK x \in Checking : chk' = [chk EXCEPT ![c] = x] /\ x.pc \notin {"count", "insert", "move"}
    <3> DEFINE b == AsStepped(chk[c], "comp_begin")
               e == AsStepped(chk[c], "comp_end")
    <3>1. b \in Checking /\ e \in Checking /\ b.pc = "comp_begin" /\ e.pc = "comp_end"
      BY <1>0, Stepped DEF CheckStep
    <3>2. \E x \in {b, e, IdleChecker} : chk' = [chk EXCEPT ![c] = x]
      BY <1>6 DEF CompStore, CompBegin, AsStepped
    <3> HIDE DEF b, e
    <3> QED
      BY <1>0, <3>1, <3>2
  <2>3. CheckersCurrent'
    BY <2>2, CheckerSettled DEF Deciding
  <2>4. stage' = stage \/ (stage = "QA_PASSED" /\ stage' = "COMPLIANCE_PENDING")
    BY <1>0, <1>6, MoveKeeps DEF CompStore, CompBegin, Stages
  <2>5. AuthorsWait'
    BY <2>1, <2>4 DEF AuthorsWait
  <2>6. TextSettled'
    BY <2>1, <2>4 DEF TextSettled, Judged, Behind
  <2> QED
    BY <2>3, <2>5, <2>6
<1> QED
  BY <1>1, <1>2, <1>3, <1>4, <1>5, <1>6 DEF Check

LEMMA SettledByAuthor ==
  ASSUME OneByOne, Typed, RequeueOwned, Settled, NEW a \in Authors, Resubmit(a)
  PROVE  Settled'
<1> USE DEF Settled, rowVars, qaVars, history
<1>0. /\ stage \in Stages /\ text \in 1 .. MaxText
      /\ aut \in [Authors -> {"idle", "hold", "write", "generated", "requeue"}]
      /\ \A b \in Authors : b = a
  BY DEF Typed, TypeOK, OneByOne
<1>1. CASE ResubRead(a)
  <2>1. UNCHANGED <<stage, status, text, runs, chk, apr, snd, approvedText, sentText>>
        /\ stage = "QA_FAILED"
    BY <1>1 DEF ResubRead, ReadUpTo, OneByOne
  <2> QED
    BY <2>1 DEF AuthorsWait, CheckersCurrent, TextSettled, Judged
<1>2. CASE ResubWrite(a)
  <2>1. /\ UNCHANGED <<stage, status, runs, chk, apr, snd, approvedText, sentText>>
        /\ stage = "QA_FAILED"
    BY <1>2 DEF ResubWrite, AuthorsWait
  <2>2. sentText = {}
    BY <2>1 DEF TextSettled, Behind
  <2>3. snd.pc = "idle"
    BY <2>1 DEF TextSettled, Behind
  <2>4. TextSettled'
    BY <2>1, <2>2, <2>3 DEF TextSettled, Behind
  <2>5. AuthorsWait' /\ CheckersCurrent'
    BY <2>1 DEF AuthorsWait, CheckersCurrent, Judged
  <2> QED
    BY <2>4, <2>5
<1>3. CASE ResubHold(a) \/ ResubGenerated(a)
  <2>1. /\ UNCHANGED <<status, text, runs, chk, apr, snd, approvedText, sentText>>
        /\ stage = "QA_FAILED"
        /\ stage' \in {"HELD", "COPY_GENERATED"}
        /\ aut' = [aut EXCEPT ![a] = "idle"] \/ aut' = [aut EXCEPT ![a] = "requeue"]
    BY <1>0, <1>3, TransitionsAt
       DEF ResubHold, ResubGenerated, AuthorsWait, Move, Stages
  <2>2. AuthorsWait'
    BY <1>0, <2>1 DEF AuthorsWait
  <2>3. CheckersCurrent'
    BY <2>1 DEF CheckersCurrent, Judged
  <2>4. TextSettled'
    BY <2>1 DEF TextSettled, Behind, Judged
  <2> QED
    BY <2>2, <2>3, <2>4
<1>4. CASE ResubRequeue(a)
  <2>1. /\ UNCHANGED <<status, text, runs, chk, apr, snd, approvedText, sentText>>
        /\ stage = "COPY_GENERATED" /\ stage' = "QA_PENDING"
        /\ aut' = [aut EXCEPT ![a] = "idle"]
    BY <1>0, <1>4, TransitionsAt DEF ResubRequeue, RequeueOwned, Move, Stages
  <2>2. AuthorsWait'
    BY <1>0, <2>1 DEF AuthorsWait
  <2>3. CheckersCurrent'
    BY <2>1 DEF CheckersCurrent, Judged
  <2>4. TextSettled'
    BY <2>1 DEF TextSettled, Behind, Judged
  <2> QED
    BY <2>2, <2>3, <2>4
<1> QED
  BY <1>1, <1>2, <1>3, <1>4 DEF Resubmit

\* An approval and a delivery are about the text that is there.
LEMMA SettledBySending ==
  ASSUME Typed, Settled, Approval \/ Sending
  PROVE  Settled'
<1> USE DEF Settled, rowVars, qaVars, history
<1>0. /\ stage \in Stages /\ text \in 1 .. MaxText
      /\ apr \in [pc : {"idle", "write"}, stage : Stages, text : 1 .. MaxText]
      /\ snd \in [pc : {"idle", "load", "gate", "transport", "report", "mark"},
                  text : (1 .. MaxText) \union {NoText}]
      /\ approvedText \subseteq 1 .. MaxText
  BY DEF Typed, TypeOK
<1>1. /\ UNCHANGED <<text, runs, chk, aut>>
      /\ \/ stage' = stage
         \/ stage = "SEND_READY" /\ stage' = "SCHEDULED"
         \/ stage = "SCHEDULED" /\ stage' = "SENT"
  <2>1. UNCHANGED <<text, runs, chk, aut>>
    BY DEF Approval, ApproveRead, ApproveWrite, Sending, SendClaim, SendLoad,
           SendGate, SendFail, SendOk, SendReport, SendMark
  <2>2. \/ stage' = stage
        \/ stage = "SEND_READY" /\ stage' = "SCHEDULED"
        \/ stage = "SCHEDULED" /\ stage' = "SENT"
    BY <1>0, MoveKeeps DEF Approval, ApproveRead, ApproveWrite, Sending, SendClaim, SendLoad,
           SendGate, SendFail, SendOk, SendReport, SendMark, Stages
  <2> QED
    BY <2>1, <2>2
<1>2. AuthorsWait' /\ CheckersCurrent'
  BY <1>1 DEF AuthorsWait, CheckersCurrent, Deciding, Judged
<1>3. /\ stage \in Behind => stage' \in Behind
      /\ stage' \in Behind => Judged(text)'
  BY <1>1 DEF TextSettled, Behind, Judged
<1>4. CASE ApproveRead
  <2>1. /\ UNCHANGED <<status, snd, approvedText, sentText>>
        /\ stage \in Behind /\ apr'.text = text
    BY <1>4 DEF ApproveRead, Behind
  <2> QED
    BY <1>1, <1>2, <1>3, <2>1 DEF TextSettled
<1>5. CASE ApproveWrite
  <2>1. /\ UNCHANGED <<snd, sentText>> /\ apr'.pc = "idle"
        /\ stage \in Behind /\ apr.text = text
        /\ \/ UNCHANGED <<status, approvedText>>
           \/ status' = "approved" /\ approvedText' = approvedText \union {text}
    BY <1>0, <1>5 DEF ApproveWrite, TextSettled
  <2> QED
    BY <1>1, <1>2, <1>3, <2>1 DEF TextSettled
<1>6. CASE SendClaim \/ SendLoad \/ SendGate \/ SendFail
  <2>1. /\ UNCHANGED <<apr, approvedText, sentText>>
        /\ status # "pending_approval" /\ status' # "pending_approval"
        /\ snd'.pc \in {"gate", "transport"} => snd'.text = text
    <3>1. CASE SendClaim
      BY <1>0, <3>1 DEF SendClaim, TextSettled
    <3>2. CASE SendLoad
      BY <1>0, <3>2 DEF SendLoad, TextSettled
    <3>3. CASE SendGate
      BY <1>0, <3>3 DEF SendGate, TextSettled
    <3>4. CASE SendFail
      BY <1>0, <3>4 DEF SendFail, TextSettled
    <3> QED
      BY <1>6, <3>1, <3>2, <3>3, <3>4
  <2> QED
    BY <1>1, <1>2, <1>3, <2>1 DEF TextSettled
<1>7. CASE SendOk
  <2>1. /\ UNCHANGED <<apr, status, approvedText>> /\ status # "pending_approval"
        /\ snd.text = text /\ sentText' = sentText \union {text} /\ snd'.pc = "report"
    BY <1>0, <1>7 DEF SendOk, TextSettled
  <2> QED
    BY <1>1, <1>2, <1>3, <2>1 DEF TextSettled
<1>8. CASE SendReport \/ SendMark
  <2>1. /\ UNCHANGED <<apr, approvedText, sentText>>
        /\ status # "pending_approval" /\ status' # "pending_approval"
        /\ snd'.pc \notin {"gate", "transport"}
    BY <1>0, <1>8 DEF SendReport, SendMark, TextSettled
  <2> QED
    BY <1>1, <1>2, <1>3, <2>1 DEF TextSettled
<1> QED
  BY <1>2, <1>4, <1>5, <1>6, <1>7, <1>8 DEF Approval, Sending

\* Every step keeps the text settled, one checker and one author at a time.
LEMMA SettledStep ==
  OneByOne /\ Reviewed /\ Settled /\ [Next]_vars => Settled'
<1> SUFFICES ASSUME OneByOne, Reviewed, Settled, [Next]_vars PROVE Settled'
  OBVIOUS
<1>0. Typed /\ VerdictStored /\ RequeueOwned
  BY DEF Reviewed, Typed
<1>1. CASE Expire \/ Crash
  <2>1. /\ UNCHANGED <<stage, status, text, runs, apr, snd, approvedText, sentText>>
        /\ \A a \in Authors : aut'[a] \in {"idle", aut[a]}
        /\ \A c \in Checkers : chk'[c] \in {IdleChecker, chk[c]}
    BY <1>0, <1>1 DEF Expire, Crash, rowVars, qaVars, history, Typed, TypeOK
  <2>2. AuthorsWait'
    BY <2>1 DEF Settled, AuthorsWait
  <2>3. CheckersCurrent'
    BY <2>1 DEF Settled, CheckersCurrent, Deciding, Judged, IdleChecker
  <2>4. TextSettled'
    BY <2>1 DEF Settled, TextSettled, Judged
  <2> QED
    BY <2>2, <2>3, <2>4 DEF Settled
<1>2. CASE UNCHANGED vars
  BY <1>2 DEF vars, Settled, AuthorsWait, CheckersCurrent, Deciding, TextSettled, Judged
<1> QED
  BY <1>0, <1>1, <1>2, SettledByChecker, SettledByAuthor, SettledBySending DEF Next

\* The text that was delivered passed, and was approved.
LEMMA SentWasJudged == Settled => ReviewedTextSent
  BY DEF Settled, TextSettled, ReviewedTextSent, Judged, Behind

-----------------------------------------------------------------------------
(* How often a draft comes back: attempts count the verdicts, one by one.  *)

\* Runs are numbered in the order they started, and the one about to be
\* inserted is the newest of all.
Numbered ==
  /\ \A r, q \in runs : r.started <= q.started => r.attempt <= q.attempt
  /\ \A c \in Checkers : chk[c].pc = "insert" =>
       \A r \in runs : r.started < chk[c].started /\ r.attempt < chk[c].attempt

AtLeast(n) == n = 0 \/ \E r \in runs : r.attempt >= n

\* Every return to the queue has used up an attempt of its own, and the failed
\* verdict that allows the next one has used up one more.
Spent ==
  /\ requeues < Ceiling /\ AtLeast(requeues)
  /\ stage \in {"QA_FAILED", "COPY_GENERATED"} => AtLeast(requeues + 1)
  /\ \A c \in Checkers : Deciding(chk[c]) =>
       /\ chk[c].pc = "insert" => chk[c].attempt > requeues
       /\ chk[c].pc = "move" => AtLeast(requeues + 1)
  /\ \A a \in Authors : aut[a] \in {"write", "generated", "requeue"} => requeues + 1 < Ceiling

LEMMA SpentInit == Init => Numbered /\ Spent
  BY CopyAssumption DEF Init, Numbered, Spent, AtLeast, Deciding, IdleChecker

\* What a step does to the runs and to the checkers that count: nothing, or one
\* of the two halves of _store_qa_run.
Counting(c, n) ==
  /\ IsMaxAttempt(n) /\ n \in 0 .. MaxRuns
  /\ chk[c].pc = "count" /\ chk'[c].pc = "insert" /\ chk'[c].stage = chk[c].stage
  /\ chk'[c].started = started + 1 /\ chk'[c].attempt = n + 1
  /\ runs' = runs

Inserting(c, r) ==
  /\ chk[c].pc = "insert" /\ chk'[c].pc = "move" /\ chk'[c].stage = chk[c].stage
  /\ r.started = chk[c].started /\ r.attempt = chk[c].attempt
  /\ r \in Run /\ runs' = runs \union {r}

Resting ==
  /\ runs' = runs
  /\ \A c \in Checkers : chk'[c].pc \in {"insert", "move"} => chk'[c] = chk[c]

LEMMA RunsStep ==
  ASSUME Typed, [Next]_vars, TypeOK'
  PROVE  \/ Resting
         \/ \E c \in Checkers, n \in 0 .. MaxRuns :
              Counting(c, n) /\ UNCHANGED <<stage, aut, requeues>>
         \/ \E c \in Checkers, r \in Run :
              Inserting(c, r) /\ UNCHANGED <<stage, aut, requeues>>
<1> USE DEF rowVars, qaVars, history
<1>0. /\ chk \in [Checkers -> Checking] /\ runs' \subseteq Run
      /\ IdleChecker.pc = "idle" /\ IdleChecker \in Checking /\ stage \in Stages
  BY CopyAssumption DEF Typed, TypeOK, IdleChecker, Checking, Stages
<1>1. ASSUME NEW c \in Checkers, CopyLoad(c) \/ CompLoad(c) PROVE Resting
  <2>1. CASE CopyLoad(c)
    <3> DEFINE x == AsLoaded(IdleChecker, stage, good, text)
    <3>1. x.pc = "count"
      BY <1>0, CopyLoaded DEF Typed, TypeOK
    <3>2. chk' = [chk EXCEPT ![c] = x] /\ runs' = runs
      BY <2>1 DEF CopyLoad, AsLoaded
    <3> HIDE DEF x
    <3> QED
      BY <1>0, <3>1, <3>2 DEF Resting
  <2>2. CASE CompLoad(c)
    <3>1. PICK ok \in BOOLEAN : chk' = [chk EXCEPT ![c] = AsCompLoaded(IdleChecker, stage, ok)]
      BY <2>2 DEF CompLoad, AsCompLoaded
    <3>2. runs' = runs /\ AsCompLoaded(IdleChecker, stage, ok).pc = "comp_store"
      BY <1>0, <2>2, CompLoaded DEF CompLoad
    <3> QED
      BY <1>0, <3>1, <3>2 DEF Resting
  <2> QED
    BY <1>1, <2>1, <2>2
<1>2. ASSUME NEW c \in Checkers, CopyCount(c)
      PROVE  \E n \in 0 .. MaxRuns : Counting(c, n) /\ UNCHANGED <<stage, aut, requeues>>
  <2>1. PICK n \in 0 .. MaxRuns :
          IsMaxAttempt(n) /\ chk' = [chk EXCEPT ![c] = AsCounted(chk[c], started + 1, n + 1)]
    BY <1>2 DEF CopyCount, CountFrom, AsCounted
  <2>2. /\ started + 1 \in 0 .. MaxRuns /\ n + 1 \in 1 .. MaxRuns + 1
        /\ chk[c] \in Checking
    BY <1>0, <1>2, CopyAssumption DEF CopyCount, CountFrom, Typed, TypeOK
  <2> DEFINE x == AsCounted(chk[c], started + 1, n + 1)
  <2>3. x.pc = "insert" /\ x.stage = chk[c].stage /\ x.started = started + 1 /\ x.attempt = n + 1
    BY <2>2, Counted
  <2>4. chk'[c] = x
    BY <1>0, <2>1
  <2> HIDE DEF x
  <2>5. runs' = runs /\ UNCHANGED <<stage, aut, requeues>> /\ chk[c].pc = "count"
    BY <1>2 DEF CopyCount, CountFrom
  <2> QED
    BY <2>1, <2>3, <2>4, <2>5 DEF Counting
<1>3. ASSUME NEW c \in Checkers, CopyInsert(c)
      PROVE  \E r \in Run : Inserting(c, r) /\ UNCHANGED <<stage, aut, requeues>>
  <2> DEFINE x == AsStepped(chk[c], "move")
             r == [started |-> chk[c].started, attempt |-> chk[c].attempt,
                   passed |-> chk[c].passed, text |-> chk[c].text]
  <2>1. x.pc = "move" /\ x.stage = chk[c].stage
    BY <1>0, Stepped DEF CheckStep
  <2>2. /\ UNCHANGED <<stage, aut, requeues>>
        /\ chk[c].pc = "insert" /\ runs' = runs \union {r} /\ chk'[c] = x
    BY <1>0, <1>3 DEF CopyInsert, AsStepped
  <2>3. r \in Run /\ r.started = chk[c].started /\ r.attempt = chk[c].attempt
    BY <1>0, <2>2
  <2> QED
    BY <2>1, <2>2, <2>3 DEF Inserting
<1>4. ASSUME NEW c \in Checkers, CopyMove(c) \/ CompEnd(c) PROVE Resting
  BY <1>0, <1>4 DEF CopyMove, CompEnd, Resting
<1>5. ASSUME NEW c \in Checkers, CompStore(c) \/ CompBegin(c) PROVE Resting
  <2>1. PICK x \in Checking : chk' = [chk EXCEPT ![c] = x] /\ x.pc \notin {"insert", "move"}
    <3> DEFINE b == AsStepped(chk[c], "comp_begin")
               e == AsStepped(chk[c], "comp_end")
    <3>1. b \in Checking /\ e \in Checking /\ b.pc = "comp_begin" /\ e.pc = "comp_end"
      BY <1>0, Stepped DEF CheckStep
    <3>2. \E x \in {b, e, IdleChecker} : chk' = [chk EXCEPT ![c] = x]
      BY <1>5 DEF CompStore, CompBegin, AsStepped
    <3> HIDE DEF b, e
    <3> QED
      BY <1>0, <3>1, <3>2
  <2>2. runs' = runs
    BY <1>5 DEF CompStore, CompBegin
  <2> QED
    BY <1>0, <2>1, <2>2 DEF Resting
<1>6. ASSUME NEW a \in Authors, Resubmit(a) PROVE Resting
  BY <1>6 DEF Resubmit, ResubRead, ReadUpTo, ResubHold, ResubWrite, ResubGenerated,
              ResubRequeue, Resting
<1>7. CASE Approval \/ Sending
  BY <1>7 DEF Approval, ApproveRead, ApproveWrite, Sending, SendClaim, SendLoad,
              SendGate, SendFail, SendOk, SendReport, SendMark, Resting
<1>8. CASE Expire \/ Crash
  BY <1>0, <1>8 DEF Expire, Crash, Resting
<1>9. CASE UNCHANGED vars
  BY <1>9 DEF vars, Resting
<1> QED
  BY <1>1, <1>2, <1>3, <1>4, <1>5, <1>6, <1>7, <1>8, <1>9 DEF Next, Check

LEMMA NumberedStep ==
  OneByOne /\ Reviewed /\ Numbered /\ [Next]_vars => Numbered'
<1> SUFFICES ASSUME OneByOne, Reviewed, Numbered, [Next]_vars PROVE Numbered'
  OBVIOUS
<1>0. Typed /\ TypeOK' /\ \A c, d \in Checkers : c = d
  BY TypeStep DEF Reviewed, Typed, OneByOne
<1>1. CASE Resting
  BY <1>1 DEF Resting, Numbered
<1>2. ASSUME NEW c \in Checkers, NEW n \in 0 .. MaxRuns, Counting(c, n) PROVE Numbered'
  <2>1. \A r \in runs : r.started < started + 1 /\ r.attempt < n + 1
    BY <1>0, <1>2, CopyAssumption DEF Counting, IsMaxAttempt, Typed, AttemptsBounded, TypeOK, Run
  <2> QED
    BY <1>0, <1>2, <2>1 DEF Counting, Numbered
<1>3. ASSUME NEW c \in Checkers, NEW r \in Run, Inserting(c, r) PROVE Numbered'
  <2>1. \A q \in runs : q.started < r.started /\ q.attempt < r.attempt
    BY <1>3 DEF Inserting, Numbered
  <2>2. \A q \in runs : q.started \in Nat /\ q.attempt \in Nat
    BY <1>0, CopyAssumption DEF Typed, TypeOK, Run
  <2>3. r.started \in Nat /\ r.attempt \in Nat
    BY CopyAssumption DEF Run
  <2>4. \A p, q \in runs' : p.started <= q.started => p.attempt <= q.attempt
    <3> SUFFICES ASSUME NEW p \in runs', NEW q \in runs', p.started <= q.started
                 PROVE  p.attempt <= q.attempt
      OBVIOUS
    <3>1. CASE p \in runs /\ q \in runs
      BY <3>1 DEF Numbered
    <3>2. CASE p = r \/ q = r
      <4>1. p \in runs \union {r} /\ q \in runs \union {r}
        BY <1>3 DEF Inserting
      <4> QED
        BY <2>1, <2>2, <2>3, <3>2, <4>1
    <3> QED
      BY <1>3, <3>1, <3>2 DEF Inserting
  <2>5. \A d \in Checkers : chk'[d].pc # "insert"
    BY <1>0, <1>3 DEF Inserting
  <2> QED
    BY <2>4, <2>5 DEF Numbered
<1> QED
  BY <1>0, <1>1, <1>2, <1>3, RunsStep

\* What a step does to the stage, the authors and the returns counted.
LEMMA BudgetStep ==
  ASSUME Reviewed, Settled, OneByOne, [Next]_vars
  PROVE  \/ \E a \in Authors :
              /\ aut[a] = "requeue" /\ stage = "COPY_GENERATED" /\ stage' = "QA_PENDING"
              /\ requeues' = requeues + 1 /\ aut' = [aut EXCEPT ![a] = "idle"]
         \/ /\ requeues' = requeues /\ stage' = stage /\ stage = "QA_FAILED"
            /\ \E a \in Authors, r \in Latest :
                 r.attempt + 1 <= Ceiling /\ aut' = [aut EXCEPT ![a] = "write"]
         \/ /\ requeues' = requeues
            /\ \A a \in Authors : aut'[a] \in {"write", "generated", "requeue"} =>
                 aut[a] \in {"write", "generated", "requeue"}
            /\ stage' \in {"QA_FAILED", "COPY_GENERATED"} =>
                 \/ stage \in {"QA_FAILED", "COPY_GENERATED"}
                 \/ \E c \in Checkers : chk[c].pc = "move" /\ Deciding(chk[c])
<1> USE DEF rowVars, qaVars, history
<1>0. /\ stage \in Stages
      /\ aut \in [Authors -> {"idle", "hold", "write", "generated", "requeue"}]
      /\ requeues \in Nat /\ runs \subseteq Run
  BY DEF Reviewed, TypeOK
<1>1. ASSUME NEW c \in Checkers, CopyMove(c)
      PROVE  stage' = "COPY_GENERATED" \/ stage' = "QA_FAILED" =>
               stage' = stage \/ (chk[c].pc = "move" /\ Deciding(chk[c]))
  <2>1. chk[c].pc = "move" /\ (chk[c].stage # "QA_PENDING" => stage' = stage)
    BY <1>1 DEF CopyMove
  <2> QED
    BY <2>1 DEF Deciding
<1>2. ASSUME NEW c \in Checkers, CompBegin(c) \/ CompEnd(c)
      PROVE  stage' = "COPY_GENERATED" \/ stage' = "QA_FAILED" => stage' = stage
  BY <1>2, <1>0, TransitionsAt DEF CompBegin, CompEnd, Move, Stages
<1>3. ASSUME NEW c \in Checkers, Check(c)
      PROVE  requeues' = requeues /\ aut' = aut
  BY <1>3 DEF Check, CopyLoad, CopyCount, CountFrom, CopyInsert, CopyMove,
              CompLoad, CompStore, CompBegin, CompEnd
<1>4. ASSUME NEW c \in Checkers, Check(c), stage' # stage
      PROVE  CopyMove(c) \/ CompBegin(c) \/ CompEnd(c)
  BY <1>4 DEF Check, CopyLoad, CopyCount, CountFrom, CopyInsert, CompLoad, CompStore
<1>5. CASE \E c \in Checkers : Check(c)
  BY <1>1, <1>2, <1>3, <1>4, <1>5
<1>6. ASSUME NEW a \in Authors, ResubRequeue(a)
      PROVE  /\ aut[a] = "requeue" /\ stage = "COPY_GENERATED" /\ stage' = "QA_PENDING"
             /\ requeues' = requeues + 1 /\ aut' = [aut EXCEPT ![a] = "idle"]
  BY <1>6, <1>0, TransitionsAt DEF ResubRequeue, Reviewed, RequeueOwned, Move, Stages
<1>7. ASSUME NEW a \in Authors, ResubRead(a)
      PROVE  /\ requeues' = requeues /\ stage' = stage /\ stage = "QA_FAILED"
             /\ \E r \in Latest : \/ aut' = [aut EXCEPT ![a] = "hold"]
                                  \/ /\ r.attempt + 1 <= Ceiling
                                     /\ aut' = [aut EXCEPT ![a] = "write"]
  <2>1. PICK r \in Latest :
          aut' = [aut EXCEPT ![a] = IF r.attempt + 1 > Ceiling THEN "hold" ELSE "write"]
    BY <1>7 DEF ResubRead, ReadUpTo
  <2>2. requeues' = requeues /\ stage' = stage /\ stage = "QA_FAILED"
    BY <1>7 DEF ResubRead, ReadUpTo, OneByOne
  <2>3. r.attempt \in Nat
    BY <1>0, CopyAssumption DEF Latest, Run
  <2>4. CASE r.attempt + 1 > Ceiling
    BY <2>1, <2>2, <2>4
  <2>5. CASE r.attempt + 1 <= Ceiling
    BY <2>1, <2>2, <2>3, <2>5, CopyAssumption
  <2> QED
    BY <2>3, <2>4, <2>5, CopyAssumption
<1>8. ASSUME NEW a \in Authors, ResubHold(a) \/ ResubWrite(a) \/ ResubGenerated(a)
      PROVE  /\ requeues' = requeues /\ stage = "QA_FAILED"
             /\ \A b \in Authors : aut'[b] \in {"write", "generated", "requeue"} =>
                  aut[b] \in {"write", "generated", "requeue"}
  BY <1>8, <1>0 DEF ResubHold, ResubWrite, ResubGenerated, Settled, AuthorsWait
<1>9. CASE \E a \in Authors : Resubmit(a)
  <2>1. PICK a \in Authors : Resubmit(a)
    BY <1>9
  <2>2. CASE ResubRead(a)
    <3>1. PICK r \in Latest : \/ aut' = [aut EXCEPT ![a] = "hold"]
                              \/ /\ r.attempt + 1 <= Ceiling
                                 /\ aut' = [aut EXCEPT ![a] = "write"]
      BY <1>7, <2>2
    <3> QED
      BY <1>0, <1>7, <2>2, <3>1
  <2> QED
    BY <1>6, <1>8, <2>1, <2>2 DEF Resubmit
<1>10. CASE Approval \/ Sending
  <2>1. requeues' = requeues /\ aut' = aut
    BY <1>10 DEF Approval, ApproveRead, ApproveWrite, Sending, SendClaim, SendLoad,
                 SendGate, SendFail, SendOk, SendReport, SendMark
  <2>2. stage' \in {"QA_FAILED", "COPY_GENERATED"} => stage' = stage
    BY <1>0, <1>10, MoveKeeps
       DEF Approval, ApproveRead, ApproveWrite, Sending, SendClaim, SendLoad,
           SendGate, SendFail, SendOk, SendReport, SendMark, Stages
  <2> QED
    BY <2>1, <2>2
<1>11. CASE Expire \/ Crash
  BY <1>0, <1>11 DEF Expire, Crash
<1>12. CASE UNCHANGED vars
  BY <1>12 DEF vars
<1> QED
  BY <1>5, <1>9, <1>10, <1>11, <1>12 DEF Next

LEMMA SpentStep ==
  OneByOne /\ Reviewed /\ Settled /\ Numbered /\ Spent /\ [Next]_vars => Spent'
<1> SUFFICES ASSUME OneByOne, Reviewed, Settled, Numbered, Spent, [Next]_vars PROVE Spent'
  OBVIOUS
<1>0. /\ Typed /\ TypeOK' /\ (\A c, d \in Checkers : c = d) /\ (\A a, b \in Authors : a = b)
      /\ requeues \in Nat /\ Ceiling \in Nat
      /\ aut \in [Authors -> {"idle", "hold", "write", "generated", "requeue"}]
  BY TypeStep, CopyAssumption DEF Reviewed, Typed, TypeOK, OneByOne
<1>1. \A r \in runs : r.attempt \in Nat /\ r.started \in Nat
  BY <1>0, CopyAssumption DEF Typed, TypeOK, Run
<1>2. runs \subseteq runs'
  BY <1>0, RunsStep DEF Resting, Counting, Inserting
<1>3. \A n \in Nat : AtLeast(n) => n = 0 \/ \E r \in runs' : r.attempt >= n
  BY <1>2 DEF AtLeast
\* A return to the queue: what it used up is there, and no verdict is pending.
<1>4. CASE \E a \in Authors :
              /\ aut[a] = "requeue" /\ stage = "COPY_GENERATED" /\ stage' = "QA_PENDING"
              /\ requeues' = requeues + 1 /\ aut' = [aut EXCEPT ![a] = "idle"]
  <2>1. /\ requeues + 1 < Ceiling /\ AtLeast(requeues + 1) /\ requeues' = requeues + 1
        /\ stage' = "QA_PENDING" /\ stage' # stage
        /\ \A b \in Authors : aut'[b] = "idle"
    BY <1>0, <1>4 DEF Spent
  <2>2. AtLeast(requeues)'
    BY <1>0, <1>3, <2>1 DEF AtLeast
  <2>3. \A c \in Checkers : ~Deciding(chk[c])
    BY <1>4 DEF Settled, CheckersCurrent
  <2>4. \A c \in Checkers : ~Deciding(chk'[c]) \/ chk'[c].pc = "count"
    BY <1>0, <2>1, <2>3, RunsStep DEF Resting, Deciding
  <2> QED
    BY <2>1, <2>2, <2>4 DEF Spent
\* A new text is begun: the latest run is the one with the most attempts.
<1>5. CASE /\ requeues' = requeues /\ stage' = stage /\ stage = "QA_FAILED"
           /\ \E a \in Authors, r \in Latest :
                r.attempt + 1 <= Ceiling /\ aut' = [aut EXCEPT ![a] = "write"]
  <2>1. PICK r \in Latest : r.attempt + 1 <= Ceiling
    BY <1>5
  <2>2. PICK q \in runs : q.attempt >= requeues + 1
    BY <1>0, <1>5 DEF Spent, AtLeast
  <2>3. r \in runs /\ q.started <= r.started
    BY <2>2 DEF Latest
  <2>4. q.attempt <= r.attempt
    BY <2>2, <2>3 DEF Numbered
  <2>5. requeues + 1 < Ceiling
    BY <1>0, <1>1, <2>1, <2>2, <2>3, <2>4
  <2>6. \A c \in Checkers : ~Deciding(chk[c])
    BY <1>5 DEF Settled, CheckersCurrent
  <2>7. AtLeast(requeues)' /\ AtLeast(requeues + 1)'
    BY <1>0, <1>3, <1>5 DEF Spent, AtLeast
  <2>8. \A c \in Checkers : ~Deciding(chk'[c]) \/ chk'[c].pc = "count"
    BY <1>0, <1>5, <2>6, RunsStep DEF Resting, Deciding, Counting, Inserting
  <2> QED
    BY <1>5, <2>5, <2>7, <2>8 DEF Spent
\* Nothing returns and no text is begun: the counts follow the checker.
<1>6. CASE /\ requeues' = requeues
           /\ \A a \in Authors : aut'[a] \in {"write", "generated", "requeue"} =>
                aut[a] \in {"write", "generated", "requeue"}
           /\ stage' \in {"QA_FAILED", "COPY_GENERATED"} =>
                \/ stage \in {"QA_FAILED", "COPY_GENERATED"}
                \/ \E c \in Checkers : chk[c].pc = "move" /\ Deciding(chk[c])
  <2>1. AtLeast(requeues)'
    BY <1>0, <1>3, <1>6 DEF Spent, AtLeast
  <2>2. stage' \in {"QA_FAILED", "COPY_GENERATED"} => AtLeast(requeues + 1)'
    BY <1>0, <1>3, <1>6 DEF Spent, AtLeast
  <2>3. ASSUME NEW c \in Checkers, Deciding(chk'[c])
        PROVE  /\ chk'[c].pc = "insert" => chk'[c].attempt > requeues
               /\ chk'[c].pc = "move" => AtLeast(requeues + 1)'
    <3>1. CASE Resting
      BY <1>0, <1>3, <1>6, <2>3, <3>1 DEF Resting, Spent, AtLeast, Deciding
    <3>2. ASSUME NEW d \in Checkers, NEW n \in 0 .. MaxRuns, Counting(d, n)
          PROVE  chk'[c].pc = "insert" /\ chk'[c].attempt > requeues
      <4>1. requeues <= n
        BY <1>0, <1>1, <3>2, CopyAssumption DEF Spent, AtLeast, Counting, IsMaxAttempt
      <4>2. c = d
        BY <1>0
      <4> QED
        BY <1>0, <3>2, <4>1, <4>2, CopyAssumption DEF Counting
    <3>3. ASSUME NEW d \in Checkers, NEW r \in Run, Inserting(d, r)
          PROVE  chk'[c].pc = "move" /\ AtLeast(requeues + 1)'
      <4>1. c = d
        BY <1>0
      <4>2. Deciding(chk[d]) /\ chk[d].attempt > requeues /\ r.attempt = chk[d].attempt
        BY <2>3, <3>3, <4>1 DEF Inserting, Deciding, Spent
      <4>3. r \in runs' /\ r.attempt >= requeues + 1
        BY <1>0, <3>3, <4>2, CopyAssumption DEF Inserting, Run
      <4> QED
        BY <1>6, <3>3, <4>1, <4>3 DEF AtLeast, Inserting
    <3> QED
      BY <1>0, <3>1, <3>2, <3>3, RunsStep
  <2> QED
    BY <1>6, <2>1, <2>2, <2>3 DEF Spent
<1> QED
  BY <1>4, <1>5, <1>6, BudgetStep

-----------------------------------------------------------------------------
\* The strengthened invariant of the serial use of the program.
InTurn == Reviewed /\ Settled /\ Numbered /\ Spent

LEMMA InTurnHolds == OneByOne => (Spec => []InTurn)
<1> SUFFICES ASSUME OneByOne PROVE Spec => []InTurn
  OBVIOUS
<1>1. Init => InTurn
  BY ReviewedInit, SettledInit, SpentInit DEF InTurn
<1>2. InTurn /\ [Next]_vars => InTurn'
  <2>1. Reviewed /\ [Next]_vars => Reviewed'
    BY TypeStep, ReviewStep, RequeueStep DEF Reviewed, Typed
  <2> QED
    BY <2>1, SettledStep, NumberedStep, SpentStep DEF InTurn
<1> QED
  BY <1>1, <1>2, PTL DEF Spec

\* The text that is delivered is one that passed copy QA and that a human
\* approved, as long as QA runs one at a time, and an author starts only on a
\* draft whose QA failed and is alone in it.
THEOREM ReviewedText == OneByOne => (Spec => []ReviewedTextSent)
<1>1. InTurn => ReviewedTextSent
  BY SentWasJudged DEF InTurn
<1> QED
  BY <1>1, InTurnHolds, PTL

\* In that same use a draft comes back to the queue fewer times than the
\* ceiling on attempts.
THEOREM BudgetOfRequeues == OneByOne => (Spec => []RequeueBudget)
<1>1. InTurn => RequeueBudget
  BY DEF InTurn, Spent, RequeueBudget
<1> QED
  BY <1>1, InTurnHolds, PTL

=============================================================================
