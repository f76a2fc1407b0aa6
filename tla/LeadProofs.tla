---------------------------- MODULE LeadProofs ----------------------------
(***************************************************************************)
(* What becomes of a lead: who may be contacted and where, and what is     *)
(* written to them.  Theorems about LeadLine, for any leads, numbers, calls*)
(* and workers; about Enrichment, for any workers and providers, any quotas*)
(* and breakers; and about Pipeline: the types, for any graph of stages and*)
(* any leads, executions, runs and tries, and hard rule 4 at the end of the*)
(* chain, DraftFits, when the stages hang on one event, as in the          *)
(* workflow's file.                                                        *)
(***************************************************************************)
EXTENDS LeadLine, Enrichment, Pipeline, TLAPS

-----------------------------------------------------------------------------
(* Leads and calls                                                          *)

\* A worker has a lead in hand exactly while it is between two statements.
DesksBusy == \A d \in Desks : desk[d].op = "none" <=> desk[d].lead = NoLead

\* A call that was asked for is of a lead, and the row is of a call that was placed.
CallsPlaced ==
  \A k \in Calls :
    /\ call[k].twilio # "none" => call[k].lead \in Leads
    /\ call[k].row => WithTwilio(k)

\* Whoever declined is on the list: nothing takes an entry off.
DeclinedListed == declined \subseteq suppressed

\* A call that passed the check and is not placed yet is of a company that had not
\* declined when it was checked.
CheckedClear ==
  \A k \in Calls :
    call[k].twilio = "checked" /\ CompanyOf[call[k].lead] \in declined => k \in overtaken

\* What a worker has read of a lead allowed what it is about to write; a lead about
\* to be created is absent, and in nobody else's hands.
ReadAllows ==
  \A d \in Desks :
    /\ desk[d].op = "create" => /\ leadStatus[desk[d].lead] = "absent"
                                /\ \A e \in Desks \ {d} : desk[e].lead # desk[d].lead
    /\ desk[d].op = "reply" => CanTransition(desk[d].read, "responded")

LeadSound ==
  /\ LeadTypeOK /\ DesksBusy /\ CallsPlaced /\ DeclinedListed /\ CheckedClear
  /\ ReadAllows /\ DurationAsReported

-----------------------------------------------------------------------------
\* The statuses by name; "absent" is none of them.
LEMMA StatusNames ==
  /\ {"new", "enriching", "qualified", "rejected", "responded", "do_not_call"} \subseteq Statuses
  /\ "absent" \notin Statuses
  BY DEF Statuses, Edge

\* A guarded write is along an edge.
LEMMA GuardedStep ==
  ASSUME LeadTypeOK, NEW l \in Leads, NEW t, Guarded(l, t)
  PROVE  /\ leadStatus' \in [Leads -> Statuses \union {"absent"}]
         /\ \A m \in Leads : leadStatus'[m] # leadStatus[m]
              => m = l /\ CanTransition(leadStatus[m], leadStatus'[m])
  BY DEF LeadTypeOK, Guarded, Stored

-----------------------------------------------------------------------------
\* The initial state satisfies the invariant.
LEMMA LeadInitSound == LeadInit => LeadSound
  BY LeadAssumption DEF LeadInit, LeadSound, LeadTypeOK, DesksBusy, CallsPlaced, WithTwilio,
     DeclinedListed, CheckedClear, ReadAllows, DurationAsReported, Idle, NoCall

\* What a decision not to be called adds to the list is of its types, the company is
\* part of it, and its calls between check and Twilio are noted.
LEMMA DeclineSound ==
  ASSUME LeadSound, NEW c \in Companies, Decline(c)
  PROVE  /\ suppressed' \subseteq Companies \union Numbers
         /\ declined' \subseteq Companies /\ declined' \subseteq suppressed'
         /\ overtaken' \subseteq Calls
         /\ \A k \in Calls :
              call[k].twilio = "checked" /\ CompanyOf[call[k].lead] \in declined'
                => k \in overtaken'
  BY LeadAssumption DEF LeadSound, LeadTypeOK, DeclinedListed, CheckedClear, Decline, Entries

\* Moves of leads that are not absent leave those about to be created absent.
LEMMA MovesAllow ==
  ASSUME LeadSound, desk' = desk,
         \A m \in Leads : leadStatus'[m] # leadStatus[m] => leadStatus[m] \in Statuses
  PROVE  ReadAllows'
<1>1. ASSUME NEW d \in Desks, desk[d].op = "create"
      PROVE  leadStatus'[desk[d].lead] = "absent"
  BY <1>1, StatusNames DEF LeadSound, LeadTypeOK, DesksBusy, ReadAllows
<1> QED
  BY <1>1 DEF LeadSound, ReadAllows

\* What becomes of a call is a call, and of the same lead.
CallRecord ==
  [twilio : {"none", "checked", "live", "ended"}, lead : Leads \union {NoLead},
   row : BOOLEAN, time : {"zero", "guessed", "billed"}, last : {"none", "silent", "reported"}]

GoodCall(x) ==
  /\ x \in CallRecord
  /\ x.twilio # "none" => x.lead \in Leads
  /\ x.row => x.twilio \in {"live", "ended"}
  /\ x.time = "billed" <=> x.last = "reported"

\* What the operations make of it.
CheckedFor(x, l) == [x EXCEPT !.twilio = "checked", !.lead = l]
Dialled(x) == [x EXCEPT !.twilio = "live"]
Recorded(x) == [x EXCEPT !.row = TRUE]
Called(x, twilio, time, last) ==
  [x EXCEPT !.twilio = twilio, !.time = IF x.row THEN time ELSE @,
            !.last = IF x.row THEN last ELSE @]
Disposed(x) == [x EXCEPT !.time = Elapsed(@)]

LEMMA CallUpdates ==
  ASSUME NEW x \in CallRecord, GoodCall(x)
  PROVE  /\ GoodCall(NoCall) /\ NoCall.twilio = "none"
         /\ \A l \in Leads :
              /\ x.twilio = "none" => GoodCall(CheckedFor(x, l))
              /\ CheckedFor(x, l).twilio = "checked" /\ CheckedFor(x, l).lead = l
         /\ x.twilio = "checked" => GoodCall(Dialled(x))
         /\ Dialled(x).twilio = "live"
         /\ x.twilio \in {"live", "ended"} =>
              /\ GoodCall(Recorded(x)) /\ Recorded(x).twilio = x.twilio
              /\ \A t \in {"live", "ended"} :
                   /\ GoodCall(Called(x, t, "zero", "silent"))
                   /\ Called(x, t, "zero", "silent").twilio = t
                   /\ GoodCall(Called(x, t, "billed", "reported"))
                   /\ Called(x, t, "billed", "reported").twilio = t
         /\ GoodCall(Disposed(x)) /\ Disposed(x).twilio = x.twilio /\ Disposed(x).lead = x.lead
<1>1. GoodCall(NoCall) /\ NoCall.twilio = "none"
  BY DEF GoodCall, CallRecord, NoCall
<1>2. ASSUME NEW l \in Leads
      PROVE  /\ x.twilio = "none" => GoodCall(CheckedFor(x, l))
             /\ CheckedFor(x, l).twilio = "checked" /\ CheckedFor(x, l).lead = l
  BY DEF GoodCall, CallRecord, CheckedFor
<1>3. (x.twilio = "checked" => GoodCall(Dialled(x))) /\ Dialled(x).twilio = "live"
  BY DEF GoodCall, CallRecord, Dialled
<1>4. x.twilio \in {"live", "ended"} => GoodCall(Recorded(x)) /\ Recorded(x).twilio = x.twilio
  BY DEF GoodCall, CallRecord, Recorded
<1>5. ASSUME NEW t \in {"live", "ended"}, x.twilio \in {"live", "ended"},
             NEW time \in {"zero", "billed"}, NEW last \in {"silent", "reported"},
             time = "billed" <=> last = "reported"
      PROVE  GoodCall(Called(x, t, time, last)) /\ Called(x, t, time, last).twilio = t
  <2>1. CASE x.row
    <3>1. Called(x, t, time, last) = [x EXCEPT !.twilio = t, !.time = time, !.last = last]
      BY <2>1 DEF Called
    <3> QED
      BY <1>5, <2>1, <3>1 DEF GoodCall, CallRecord
  <2>2. CASE ~x.row
    <3>1. Called(x, t, time, last) = [x EXCEPT !.twilio = t]
      BY <2>2 DEF Called, CallRecord
    <3> QED
      BY <1>5, <2>2, <3>1 DEF GoodCall, CallRecord
  <2> QED
    BY <2>1, <2>2 DEF CallRecord
<1>6. GoodCall(Disposed(x)) /\ Disposed(x).twilio = x.twilio /\ Disposed(x).lead = x.lead
  BY DEF GoodCall, CallRecord, Disposed, Elapsed
<1> QED
  BY <1>1, <1>2, <1>3, <1>4, <1>5, <1>6

LEMMA GoodCalls == \A x : GoodCall(x) => x \in CallRecord
  BY DEF GoodCall

\* A call that changes well, and is checked only if its company has not declined,
\* keeps what is said of calls.
LEMMA CallChange ==
  ASSUME LeadSound, NEW k \in Calls, NEW x \in CallRecord, GoodCall(x),
         call' = [call EXCEPT ![k] = x], declined' = declined,
         \/ overtaken' = overtaken
         \/ overtaken' = overtaken \ {k} /\ x.twilio # "checked",
         x.twilio = "checked" => CompanyOf[x.lead] \notin declined
  PROVE  /\ call' \in [Calls -> CallRecord]
         /\ CallsPlaced' /\ CheckedClear' /\ DurationAsReported'
<1>1. call \in [Calls -> CallRecord]
  BY DEF LeadSound, LeadTypeOK, CallRecord
<1>2. /\ call' \in [Calls -> CallRecord]
      /\ \A j \in Calls : call'[j] = IF j = k THEN x ELSE call[j]
  BY <1>1
<1>3. CallsPlaced' /\ DurationAsReported'
  BY <1>2 DEF LeadSound, CallsPlaced, DurationAsReported, WithTwilio, GoodCall
<1>4. CheckedClear'
  BY <1>2 DEF LeadSound, CheckedClear
<1> QED
  BY <1>2, <1>3, <1>4

\* Every step keeps the types, the desks, the calls, the list and the durations.
LEMMA LeadSoundStep == LeadSound /\ [LeadNext]_leadVars => LeadSound'
<1> SUFFICES ASSUME LeadSound, [LeadNext]_leadVars PROVE LeadSound'
  OBVIOUS
<1>0. /\ LeadTypeOK /\ DesksBusy /\ CallsPlaced /\ DeclinedListed /\ CheckedClear
      /\ ReadAllows /\ DurationAsReported
      /\ call \in [Calls -> CallRecord]
      /\ \A k \in Calls : GoodCall(call[k])
  BY DEF LeadSound, LeadTypeOK, CallRecord, GoodCall, CallsPlaced, WithTwilio, DurationAsReported
<1> USE <1>0, LeadAssumption
<1>1. ASSUME NEW d \in Desks, DeskStep(d) PROVE LeadSound'
  <2>1. UNCHANGED <<listVars, call>>
    BY <1>1 DEF DeskStep, LookUp, ReplyRead, Create, ReplyWrite
  <2>2. CallsPlaced' /\ DeclinedListed' /\ CheckedClear' /\ DurationAsReported'
    BY <2>1 DEF listVars, CallsPlaced, WithTwilio, DeclinedListed, CheckedClear,
                DurationAsReported
  <2>3. ASSUME NEW l \in Leads, LookUp(d, l) \/ ReplyRead(d, l)
        PROVE  LeadTypeOK' /\ DesksBusy' /\ ReadAllows'
    <3>1. PICK x \in [op : {"create", "reply"}, lead : {l}, read : Statuses \union {"absent"}] :
            /\ desk' = [desk EXCEPT ![d] = x]
            /\ x.op = "create" => /\ leadStatus[l] = "absent"
                                  /\ \A e \in Desks : desk[e].lead # l
            /\ x.op = "reply" => CanTransition(x.read, "responded") /\ x.read = leadStatus[l]
      <4>1. CASE LookUp(d, l)
        <5>1. [op |-> "create", lead |-> l, read |-> "absent"] \in
                [op : {"create", "reply"}, lead : {l}, read : Statuses \union {"absent"}]
          OBVIOUS
        <5> QED
          BY <4>1, <5>1 DEF LookUp
      <4>2. CASE ReplyRead(d, l)
        <5>1. leadStatus[l] \in Statuses
          BY <4>2 DEF ReplyRead, CanTransition
        <5>2. [op |-> "reply", lead |-> l, read |-> leadStatus[l]] \in
                [op : {"create", "reply"}, lead : {l}, read : Statuses \union {"absent"}]
          BY <5>1
        <5> QED
          BY <4>2, <5>2 DEF ReplyRead
      <4> QED
        BY <2>3, <4>1, <4>2
    <3>2. leadStatus' = leadStatus
      BY <2>3 DEF LookUp, ReplyRead
    <3>3. \A e \in Desks : desk'[e] = IF e = d THEN x ELSE desk[e]
      BY <3>1 DEF LeadTypeOK
    <3>4. x.op = "reply" => leadStatus[l] # "absent"
      BY <3>1, StatusNames DEF CanTransition
    <3>5. LeadTypeOK' /\ DesksBusy'
      BY <2>1, <3>1, <3>2, <3>3 DEF LeadTypeOK, DesksBusy, listVars
    <3>6. ReadAllows'
      BY <3>1, <3>2, <3>3, <3>4 DEF ReadAllows
    <3> QED
      BY <3>5, <3>6
  <2>4. ASSUME Create(d) \/ ReplyWrite(d)
        PROVE  LeadTypeOK' /\ DesksBusy' /\ ReadAllows'
    <3>1. /\ desk' = [desk EXCEPT ![d] = Idle] /\ desk[d].lead \in Leads
          /\ leadStatus' \in [Leads -> Statuses \union {"absent"}]
          /\ \A m \in Leads : m # desk[d].lead => leadStatus'[m] = leadStatus[m]
      BY <2>4, StatusNames DEF Create, ReplyWrite, LeadTypeOK, DesksBusy
    <3>2. \A e \in Desks : desk'[e] = IF e = d THEN Idle ELSE desk[e]
      BY <3>1 DEF LeadTypeOK
    <3>3. LeadTypeOK' /\ DesksBusy'
      BY <2>1, <3>1, <3>2 DEF LeadTypeOK, DesksBusy, Idle, listVars
    <3>4. ReadAllows'
      <4>1. ASSUME NEW e \in Desks, desk'[e].op = "create"
            PROVE  /\ leadStatus'[desk'[e].lead] = "absent"
                   /\ \A f \in Desks \ {e} : desk'[f].lead # desk'[e].lead
        <5>1. e # d /\ desk'[e] = desk[e] /\ desk[e].lead # desk[d].lead
          BY <3>2, <4>1 DEF Idle, ReadAllows
        <5>2. desk[e].lead \in Leads
          BY <4>1, <5>1 DEF LeadTypeOK, DesksBusy
        <5> QED
          BY <3>1, <3>2, <4>1, <5>1, <5>2 DEF Idle, ReadAllows
      <4>2. \A e \in Desks : desk'[e].op = "reply" => CanTransition(desk'[e].read, "responded")
        BY <3>2 DEF Idle, ReadAllows
      <4> QED
        BY <4>1, <4>2 DEF ReadAllows
    <3> QED
      BY <3>3, <3>4
  <2> QED
    BY <1>1, <2>2, <2>3, <2>4 DEF DeskStep, LeadSound
<1>2. ASSUME NEW k \in Calls, CallStep(k) PROVE LeadSound'
  <2>1. ASSUME NEW x \in CallRecord, GoodCall(x), call' = [call EXCEPT ![k] = x],
               UNCHANGED <<leadStatus, suppressed, declined, desk>>,
               \/ overtaken' = overtaken
               \/ overtaken' = overtaken \ {k} /\ x.twilio # "checked",
               x.twilio = "checked" => CompanyOf[x.lead] \notin declined
        PROVE  LeadSound'
    <3>1. /\ call' \in [Calls -> CallRecord]
          /\ CallsPlaced' /\ CheckedClear' /\ DurationAsReported'
      BY <2>1, CallChange
    <3>2. LeadTypeOK'
      BY <2>1, <3>1 DEF LeadTypeOK, CallRecord
    <3>3. DesksBusy' /\ DeclinedListed' /\ ReadAllows'
      BY <2>1 DEF DesksBusy, DeclinedListed, ReadAllows
    <3> QED
      BY <3>1, <3>2, <3>3 DEF LeadSound
  <2>2. ASSUME NEW l \in Leads, NEW n \in Spellings, Check(k, l, n) PROVE LeadSound'
    <3>1. /\ call' = [call EXCEPT ![k] = CheckedFor(call[k], l)]
          /\ UNCHANGED <<leadStatus, suppressed, declined, overtaken, desk>>
          /\ call[k].twilio = "none"
      BY <2>2 DEF Check, CheckedFor, listVars
    <3>2. CompanyOf[l] \notin declined
      BY <2>2 DEF Check, Passes, DeclinedListed
    <3>3. GoodCall(CheckedFor(call[k], l)) /\ CheckedFor(call[k], l) \in CallRecord /\ CheckedFor(call[k], l).lead = l
      BY <3>1, CallUpdates, GoodCalls
    <3> QED
      BY <2>1, <3>1, <3>2, <3>3
  <2>3. CASE Dial(k)
    <3>1. /\ call' = [call EXCEPT ![k] = Dialled(call[k])]
          /\ UNCHANGED <<leadStatus, suppressed, declined, overtaken, desk>>
          /\ call[k].twilio = "checked"
      BY <2>3 DEF Dial, Dialled, listVars
    <3>2. /\ GoodCall(Dialled(call[k])) /\ Dialled(call[k]) \in CallRecord
          /\ Dialled(call[k]).twilio # "checked"
      BY <3>1, CallUpdates, GoodCalls
    <3> QED
      BY <2>1, <3>1, <3>2
  <2>4. CASE DialRefused(k)
    <3>1. GoodCall(NoCall) /\ NoCall \in CallRecord /\ NoCall.twilio # "checked"
      BY CallUpdates, GoodCalls DEF NoCall
    <3> QED
      BY <2>1, <2>4, <3>1 DEF DialRefused
  <2>5. CASE RecordCall(k)
    <3>1. /\ call' = [call EXCEPT ![k] = Recorded(call[k])]
          /\ UNCHANGED <<leadStatus, suppressed, declined, overtaken, desk>>
          /\ call[k].twilio \in {"live", "ended"}
      BY <2>5 DEF RecordCall, Recorded, WithTwilio, listVars
    <3>2. /\ GoodCall(Recorded(call[k])) /\ Recorded(call[k]) \in CallRecord
          /\ Recorded(call[k]).twilio # "checked"
      BY <3>1, CallUpdates, GoodCalls
    <3> QED
      BY <2>1, <3>1, <3>2
  <2>6. CASE Silent(k) \/ Completed(k)
    <3>1. PICK t \in {"live", "ended"}, time \in {"zero", "billed"}, last \in {"silent", "reported"} :
            /\ Callback(k, t, time, last)
            /\ <<time, last>> \in {<<"zero", "silent">>, <<"billed", "reported">>}
      BY <2>6 DEF Silent, Completed, Callback, WithTwilio
    <3>2. /\ call' = [call EXCEPT ![k] = Called(call[k], t, time, last)]
          /\ UNCHANGED <<leadStatus, suppressed, declined, overtaken, desk>>
          /\ call[k].twilio \in {"live", "ended"}
      BY <3>1 DEF Callback, Called, WithTwilio, listVars
    <3>3. /\ GoodCall(Called(call[k], t, time, last))
          /\ Called(call[k], t, time, last).twilio = t
      BY <3>1, <3>2, CallUpdates
    <3>4. Called(call[k], t, time, last) \in CallRecord
      BY <3>3, GoodCalls
    <3> QED
      BY <2>1, <3>2, <3>3, <3>4
  <2>7. ASSUME NEW dnc \in BOOLEAN, Disposition(k, dnc) PROVE LeadSound'
    <3> DEFINE l == call[k].lead
    <3>1. /\ call[k].twilio \in {"live", "ended"} /\ l \in Leads /\ CompanyOf[l] \in Companies
          /\ call' = [call EXCEPT ![k] = Disposed(call[k])] /\ desk' = desk
      BY <2>7 DEF Disposition, Disposed, CallsPlaced, WithTwilio
    <3>2. /\ GoodCall(Disposed(call[k])) /\ Disposed(call[k]).twilio = call[k].twilio
          /\ Disposed(call[k]).lead = l
      BY <3>1, CallUpdates
    <3>3. /\ call' \in [Calls -> CallRecord]
          /\ \A j \in Calls : call'[j] = IF j = k THEN Disposed(call[k]) ELSE call[j]
      BY <3>1, <3>2 DEF GoodCall
    <3>4. CallsPlaced' /\ DurationAsReported'
      BY <3>2, <3>3 DEF CallsPlaced, DurationAsReported, WithTwilio, GoodCall
    <3>5. /\ leadStatus' \in [Leads -> Statuses \union {"absent"}]
          /\ \A m \in Leads : leadStatus'[m] # leadStatus[m] => leadStatus[m] \in Statuses
      BY <2>7, StatusNames DEF Disposition, CanTransition, LeadTypeOK
    <3>6. /\ suppressed' \subseteq Companies \union Numbers
          /\ declined' \subseteq Companies /\ declined' \subseteq suppressed'
          /\ overtaken' \subseteq Calls
          /\ \A j \in Calls :
               call[j].twilio = "checked" /\ CompanyOf[call[j].lead] \in declined'
                 => j \in overtaken'
      <4>1. CASE dnc
        <5>1. Decline(CompanyOf[l])
          BY <2>7, <4>1 DEF Disposition
        <5> QED
          BY <3>1, <5>1, DeclineSound
      <4>2. CASE ~dnc
        BY <2>7, <4>2 DEF Disposition, listVars, LeadTypeOK, DeclinedListed, CheckedClear
      <4> QED
        BY <4>1, <4>2
    <3>7. CheckedClear'
      BY <3>1, <3>2, <3>3, <3>6 DEF CheckedClear
    <3>8. LeadTypeOK'
      BY <3>1, <3>3, <3>5, <3>6 DEF LeadTypeOK, CallRecord
    <3>9. DesksBusy' /\ DeclinedListed' /\ ReadAllows'
      BY <3>1, <3>5, <3>6, MovesAllow DEF DesksBusy, DeclinedListed
    <3> QED
      BY <3>4, <3>7, <3>8, <3>9 DEF LeadSound
  <2> QED
    BY <1>2, <2>2, <2>3, <2>4, <2>5, <2>6, <2>7 DEF CallStep
<1>3. ASSUME NEW l \in Leads, Scored(l) \/ \E t \in Statuses : TransitionLead(l, t)
      PROVE  LeadSound'
  <2>1. PICK t \in Statuses : /\ Guarded(l, t) /\ UNCHANGED <<desk, call>>
                              /\ UNCHANGED listVars \/ Decline(CompanyOf[l])
    BY <1>3, StatusNames DEF Scored, TransitionLead
  <2>2. /\ leadStatus' \in [Leads -> Statuses \union {"absent"}]
        /\ \A m \in Leads : leadStatus'[m] # leadStatus[m] => leadStatus[m] \in Statuses
    BY <2>1, GuardedStep DEF CanTransition
  <2>3. /\ suppressed' \subseteq Companies \union Numbers
        /\ declined' \subseteq Companies /\ declined' \subseteq suppressed'
        /\ overtaken' \subseteq Calls
        /\ \A j \in Calls :
             call[j].twilio = "checked" /\ CompanyOf[call[j].lead] \in declined'
               => j \in overtaken'
    <3>1. CASE UNCHANGED listVars
      BY <3>1 DEF listVars, LeadTypeOK, DeclinedListed, CheckedClear
    <3>2. CASE Decline(CompanyOf[l])
      BY <3>2, DeclineSound
    <3> QED
      BY <2>1, <3>1, <3>2
  <2>4. LeadTypeOK'
    BY <2>1, <2>2, <2>3 DEF LeadTypeOK
  <2>5. DesksBusy' /\ CallsPlaced' /\ DeclinedListed' /\ CheckedClear' /\ DurationAsReported'
    BY <2>1, <2>3 DEF DesksBusy, CallsPlaced, WithTwilio, DeclinedListed, CheckedClear,
                      DurationAsReported
  <2>6. ReadAllows'
    BY <2>1, <2>2, MovesAllow
  <2> QED
    BY <2>4, <2>5, <2>6 DEF LeadSound
<1>4. CASE UNCHANGED leadVars
  BY <1>4 DEF leadVars, LeadSound, LeadTypeOK, DesksBusy, CallsPlaced, WithTwilio,
     DeclinedListed, CheckedClear, ReadAllows, DurationAsReported
<1> QED
  BY <1>1, <1>2, <1>3, <1>4 DEF LeadNext

-----------------------------------------------------------------------------
\* The invariant holds in every behaviour.
THEOREM LeadSoundHolds == LeadSpec => []LeadSound
  BY LeadInitSound, LeadSoundStep, PTL DEF LeadSpec

\* The state always has its types.
THEOREM LeadTypeCorrect == LeadSpec => []LeadTypeOK
<1>1. LeadSound => LeadTypeOK
  BY DEF LeadSound
<1> QED
  BY <1>1, LeadSoundHolds, PTL

\* Nobody of a company that declined is dialled, through whichever lead and
\* however the number is written, in any order of callbacks, replies and moves, but
\* for the calls that were between the check of the list and Twilio when it did.
THEOREM NobodyDialsDeclined == LeadSpec => DeclinedNotDialed
<1> DEFINE Quiet ==
      \A k \in Calls :
        call[k].twilio = "checked" /\ call'[k].twilio = "live" =>
          (CompanyOf[call[k].lead] \in declined => k \in overtaken)
<1>1. LeadSound => Quiet
  BY DEF LeadSound, CheckedClear
<1>2. LeadSound /\ [LeadNext]_leadVars => [Quiet]_leadVars
  BY <1>1
<1> QED
  BY <1>2, LeadSoundHolds, PTL DEF LeadSpec, DeclinedNotDialed

\* The duration of a call is the reported one exactly if the last callback that found
\* the row carried one, in whichever order callbacks and dispositions come.
THEOREM DurationStays == LeadSpec => []DurationAsReported
<1>1. LeadSound => DurationAsReported
  BY DEF LeadSound
<1> QED
  BY <1>1, LeadSoundHolds, PTL

\* The writers together keep to the table of transitions, replies included, unless
\* the lead has left the status a reply found it in.
THEOREM OnlyEdges == LeadSpec => LeadEdges
<1> DEFINE Legal ==
      \A l \in Leads :
        leadStatus[l] \in Statuses /\ leadStatus'[l] # leadStatus[l]
          => \/ CanTransition(leadStatus[l], leadStatus'[l])
             \/ /\ leadStatus'[l] = "responded"
                /\ \E d \in Desks : /\ desk[d].op = "reply" /\ desk[d].lead = l
                                    /\ desk[d].read # leadStatus[l]
<1>1. LeadSound /\ [LeadNext]_leadVars => [Legal]_leadVars
  <2> SUFFICES ASSUME LeadSound, LeadNext, NEW l \in Leads,
                      leadStatus[l] \in Statuses, leadStatus'[l] # leadStatus[l]
               PROVE  \/ CanTransition(leadStatus[l], leadStatus'[l])
                      \/ /\ leadStatus'[l] = "responded"
                         /\ \E d \in Desks : /\ desk[d].op = "reply" /\ desk[d].lead = l
                                             /\ desk[d].read # leadStatus[l]
    OBVIOUS
  <2> USE DEF LeadSound, LeadTypeOK
  <2>1. ASSUME NEW d \in Desks, Create(d) PROVE FALSE
    BY <2>1, StatusNames DEF Create, ReadAllows
  <2>2. ASSUME NEW d \in Desks, ReplyWrite(d)
        PROVE  /\ leadStatus'[l] = "responded" /\ desk[d].op = "reply" /\ desk[d].lead = l
               /\ CanTransition(desk[d].read, "responded")
    BY <2>2 DEF ReplyWrite, ReadAllows
  <2>3. ASSUME NEW k \in Calls, CallStep(k) PROVE CanTransition(leadStatus[l], leadStatus'[l])
    <3>1. PICK dnc \in BOOLEAN : Disposition(k, dnc)
      BY <2>3 DEF CallStep, Check, Dial, DialRefused, RecordCall, Silent, Completed, Callback
    <3> QED
      BY <3>1 DEF Disposition
  <2>4. ASSUME NEW m \in Leads, Scored(m) \/ \E t \in Statuses : TransitionLead(m, t)
        PROVE  CanTransition(leadStatus[l], leadStatus'[l])
    <3>1. PICK t : Guarded(m, t)
      BY <2>4 DEF Scored, TransitionLead
    <3> QED
      BY <3>1, GuardedStep
  <2>5. ASSUME NEW d \in Desks, NEW m \in Leads, LookUp(d, m) \/ ReplyRead(d, m) PROVE FALSE
    BY <2>5 DEF LookUp, ReplyRead
  <2> QED
    BY <2>1, <2>2, <2>3, <2>4, <2>5 DEF LeadNext, DeskStep
<1> QED
  BY <1>1, LeadSoundHolds, PTL DEF LeadSpec, LeadEdges

-----------------------------------------------------------------------------
(* Waterfalls, quotas and breakers                                          *)

\* What a worker may be doing.
Work ==
  [job : {"none", "verify", "enrich"}, at : {"next", "quota", "call", "calling", "answered"},
   left : Seq(Providers), address : Addresses \union {NoAddress}, known : SUBSET Fields,
   seen : Nat, tries : 0..(Attempts - 1),
   answer : {"none", "valid", "accept_all", "invalid", "assumed", "fixture", "found"},
   gives : SUBSET Fields]

Breaker ==
  [state : {"closed", "open", "half-open"}, failures : 0..Threshold,
   age : 0..ResetAfter, down : 0..(2 * ResetAfter)]

\* A worker that is not between two providers is busy with one; one that
\* verifies has an address.
Laden(x) ==
  /\ x.at # "next" => x.left # <<>>
  /\ x.job = "verify" => x.address \in Addresses

Found == Addresses \X {"valid", "assumed"}

ContactRow ==
  [address : Addresses, status : {"unknown", "failed", "dns_ok", "verified"},
   from : {"none", "valid", "assumed"}]

Typed ==
  /\ contact \in ContactRow /\ entering \subseteq Addresses /\ slipped \in BOOLEAN
  /\ filled \subseteq Fields /\ judged \subseteq Found
  /\ used \in [Providers -> Nat] /\ calls \in [Providers -> Nat]
  /\ uncounted \in [Providers -> Nat]
  /\ breaker \in [Providers -> Breaker]
  /\ worker \in [EnrichWorkers -> Work]
  /\ \A w \in EnrichWorkers : Laden(worker[w])

\* A verifying worker holds the contact's address a, unless another one slipped
\* in, s; and what it was told of its address is among what was found.
Honest(x, s, a, found) ==
  x.job = "verify" =>
    /\ s \/ x.address = a
    /\ x.at = "answered" /\ Convincing(x.answer) => <<x.address, x.answer>> \in found

HonestAll == \A w \in EnrichWorkers : Honest(worker[w], slipped, contact.address, judged)

-----------------------------------------------------------------------------
\* A worker at rest.
LEMMA AsleepType ==
  /\ Asleep \in Work /\ Laden(Asleep)
  /\ \A s, a, found : Honest(Asleep, s, a, found)
  BY EnrichmentAssumption DEF Asleep, Work, Laden, Honest

\* A worker that is busy with a provider, and what it goes on with after it.
LEMMA AskedType ==
  ASSUME Typed, NEW w \in EnrichWorkers, worker[w].left # <<>>
  PROVE  Asked(w) \in Providers /\ Tail(worker[w].left) \in Seq(Providers)
  BY DEF Typed, Work, Asked

\* What success and failure make of a breaker.
LEMMA BreakerType ==
  ASSUME NEW b \in Breaker
  PROVE  RecordSuccess(b) \in Breaker /\ RecordFailure(b) \in Breaker
<1> USE EnrichmentAssumption
<1>1. RecordSuccess(b) \in Breaker
  BY DEF Breaker, RecordSuccess
<1> DEFINE n == IF b.failures < Threshold THEN b.failures + 1 ELSE b.failures
<1>2. n \in 0..Threshold
  BY DEF Breaker
<1> HIDE DEF n
<1>3. \A d \in 0..(2 * ResetAfter) :
        [state |-> "open", failures |-> n, age |-> 0, down |-> d] \in Breaker
  BY <1>2 DEF Breaker
<1>4. [b EXCEPT !.failures = n] \in Breaker
  BY <1>2 DEF Breaker
<1>5. (IF b.state = "open" THEN b.down ELSE 0) \in 0..(2 * ResetAfter)
  BY DEF Breaker
<1>6. RecordFailure(b) \in Breaker
  BY <1>3, <1>4, <1>5 DEF RecordFailure, n
<1> QED
  BY <1>1, <1>6

\* The steps of a worker, as updates of its record.
ToVerify(left, a) == [Asleep EXCEPT !.job = "verify", !.left = left, !.address = a]
ToEnrich(left, known) == [Asleep EXCEPT !.job = "enrich", !.left = left, !.known = known]
AtQuota(x, n) == [x EXCEPT !.at = "quota", !.seen = n]
AtCall(x, n) == [x EXCEPT !.at = "call", !.tries = n]
AtNext(x, s) == [x EXCEPT !.at = "next", !.left = s]
Calling(x) == [x EXCEPT !.at = "calling"]
Answering(x, answer, gives) == [x EXCEPT !.at = "answered", !.answer = answer, !.gives = gives]

LEMMA ToVerifyFine ==
  ASSUME NEW left \in Seq(Providers), NEW a \in Addresses
  PROVE  /\ ToVerify(left, a) \in Work /\ Laden(ToVerify(left, a))
         /\ \A s, found : Honest(ToVerify(left, a), s, a, found)
<1>1. Asleep \in Work /\ Asleep.at = "next"
  BY AsleepType DEF Asleep
<1> QED
  BY <1>1 DEF ToVerify, Work, Laden, Honest

LEMMA ToEnrichFine ==
  ASSUME NEW left \in Seq(Providers), NEW known \in SUBSET Fields
  PROVE  /\ ToEnrich(left, known) \in Work /\ Laden(ToEnrich(left, known))
         /\ \A s, a, found : Honest(ToEnrich(left, known), s, a, found)
<1>1. Asleep \in Work /\ Asleep.at = "next"
  BY AsleepType DEF Asleep
<1> QED
  BY <1>1 DEF ToEnrich, Work, Laden, Honest

LEMMA AtQuotaFine ==
  ASSUME NEW x \in Work, Laden(x), x.left # <<>>, NEW n \in Nat
  PROVE  /\ AtQuota(x, n) \in Work /\ Laden(AtQuota(x, n))
         /\ \A u, a, f, g : Honest(x, u, a, f) => Honest(AtQuota(x, n), u, a, g)
  BY DEF AtQuota, Work, Laden, Honest

LEMMA AtCallFine ==
  ASSUME NEW x \in Work, Laden(x), x.left # <<>>, NEW n \in 0..(Attempts - 1)
  PROVE  /\ AtCall(x, n) \in Work /\ Laden(AtCall(x, n))
         /\ \A u, a, f, g : Honest(x, u, a, f) => Honest(AtCall(x, n), u, a, g)
  BY DEF AtCall, Work, Laden, Honest

LEMMA AtNextFine ==
  ASSUME NEW x \in Work, Laden(x), NEW s \in Seq(Providers)
  PROVE  /\ AtNext(x, s) \in Work /\ Laden(AtNext(x, s))
         /\ \A u, a, f, g : Honest(x, u, a, f) => Honest(AtNext(x, s), u, a, g)
  BY DEF AtNext, Work, Laden, Honest

LEMMA CallingFine ==
  ASSUME NEW x \in Work, Laden(x), x.left # <<>>
  PROVE  /\ Calling(x) \in Work /\ Laden(Calling(x))
         /\ \A u, a, f, g : Honest(x, u, a, f) => Honest(Calling(x), u, a, g)
  BY DEF Calling, Work, Laden, Honest

LEMMA ToldFine ==
  ASSUME NEW x \in Work, Laden(x), x.left # <<>>, NEW gives \in SUBSET Fields,
         NEW answer \in {"valid", "accept_all", "invalid", "assumed", "fixture", "found"}
  PROVE  /\ Answering(x, answer, gives) \in Work /\ Laden(Answering(x, answer, gives))
         /\ \A u, a, f, g :
              /\ Honest(x, u, a, f)
              /\ x.job = "verify" /\ Convincing(answer) => <<x.address, answer>> \in g
              => Honest(Answering(x, answer, gives), u, a, g)
  BY DEF Answering, Work, Laden, Honest

-----------------------------------------------------------------------------
\* What every step of a worker does: it leaves a record of its type, and an
\* honest one; addresses found valid stay so; only Judge writes the contact.
Left(w, x) ==
  /\ worker' = [worker EXCEPT ![w] = x] /\ x \in Work /\ Laden(x)
  /\ Honest(worker[w], slipped, contact.address, judged)
       => Honest(x, slipped, contact.address, judged')
  /\ judged \subseteq judged' /\ judged' \subseteq Found

LEMMA WorkerStep ==
  ASSUME Typed, NEW w \in EnrichWorkers, EnrichStep(w)
  PROVE  /\ \E x \in Work : Left(w, x)
         /\ UNCHANGED <<entering, slipped>>
         /\ \/ contact' = contact
            \/ /\ worker[w].job = "verify" /\ worker[w].at = "answered"
               /\ Convincing(worker[w].answer)
               /\ contact' = [contact EXCEPT !.status = "verified", !.from = worker[w].answer]
<1> USE EnrichmentAssumption DEF Typed, contactVars
<1>0. worker[w] \in Work /\ Laden(worker[w])
  OBVIOUS
<1>1. CASE StartVerify(w)
  <2>1. worker' = [worker EXCEPT ![w] = ToVerify(Verifiers, contact.address)]
    BY <1>1 DEF StartVerify, ToVerify
  <2>2. UNCHANGED <<contactVars, judged>>
    BY <1>1 DEF StartVerify
  <2>3. contact.address \in Addresses
    BY DEF ContactRow
  <2> QED
    BY <2>1, <2>2, <2>3, ToVerifyFine DEF Left
<1>2. CASE StartEnrich(w)
  <2>1. worker' = [worker EXCEPT ![w] = ToEnrich(Researchers, filled)]
    BY <1>2 DEF StartEnrich, ToEnrich
  <2>2. UNCHANGED <<contactVars, judged>>
    BY <1>2 DEF StartEnrich
  <2> QED
    BY <2>1, <2>2, ToEnrichFine DEF Left
<1>3. CASE GiveUp(w)
  BY <1>3, AsleepType DEF GiveUp, Left
<1>4. CASE QuotaRead(w)
  <2>1. worker[w].left # <<>> /\ UNCHANGED <<contactVars, judged>>
        /\ worker' = [worker EXCEPT ![w] = AtQuota(worker[w], used[Asked(w)])]
    BY <1>4 DEF QuotaRead, AtQuota
  <2>2. used[Asked(w)] \in Nat
    BY <2>1, AskedType
  <2> QED
    BY <1>0, <2>1, <2>2, AtQuotaFine DEF Left
<1>5. CASE QuotaWrite(w)
  <2>1. worker[w].left # <<>> /\ UNCHANGED <<contactVars, judged>>
    BY <1>5 DEF QuotaWrite, Laden
  <2>2. \/ worker' = [worker EXCEPT ![w] = AtCall(worker[w], 0)]
        \/ worker' = [worker EXCEPT ![w] = AtNext(worker[w], Tail(worker[w].left))]
    <3>1. worker' = [worker EXCEPT ![w] =
                       IF Within(Asked(w), worker[w].seen + 1)
                         THEN AtCall(worker[w], 0)
                         ELSE AtNext(worker[w], Tail(worker[w].left))]
      BY <1>5 DEF QuotaWrite, AtCall, AtNext
    <3> QED
      BY <3>1
  <2>3. 0 \in 0..(Attempts - 1) /\ Tail(worker[w].left) \in Seq(Providers)
    BY <2>1, AskedType
  <2>4. CASE worker' = [worker EXCEPT ![w] = AtCall(worker[w], 0)]
    BY <1>0, <2>1, <2>3, <2>4, AtCallFine DEF Left
  <2>5. CASE worker' = [worker EXCEPT ![w] = AtNext(worker[w], Tail(worker[w].left))]
    BY <1>0, <2>1, <2>3, <2>5, AtNextFine DEF Left
  <2> QED
    BY <2>1, <2>2, <2>4, <2>5
<1>6. CASE Admitted(w)
  <2>1. worker[w].left # <<>> /\ UNCHANGED <<contactVars, judged>>
        /\ worker' = [worker EXCEPT ![w] = Calling(worker[w])]
    BY <1>6 DEF Admitted, Laden, Calling
  <2> QED
    BY <1>0, <2>1, CallingFine DEF Left
<1>7. ASSUME worker[w].left # <<>>, StandIn(w) PROVE \E x \in Work : Left(w, x)
  <2>1. CASE worker[w].job = "verify"
    <3>1. /\ worker' = [worker EXCEPT ![w] = Answering(worker[w], "assumed", {})]
          /\ judged' = judged \union {<<worker[w].address, "assumed">>}
      BY <1>7, <2>1 DEF StandIn, Returns, Answering
    <3>2. worker[w].address \in Addresses
      BY <1>0, <2>1 DEF Laden
    <3>3. /\ judged \subseteq judged' /\ judged' \subseteq Found
          /\ <<worker[w].address, "assumed">> \in judged'
      BY <3>1, <3>2 DEF Found
    <3>4. {} \in SUBSET Fields
      OBVIOUS
    <3> QED
      BY <1>0, <1>7, <3>1, <3>3, <3>4, ToldFine DEF Left
  <2>2. CASE worker[w].job # "verify"
    <3>1. /\ worker' = [worker EXCEPT ![w] = Answering(worker[w], "fixture", worker[w].known \union Guess)]
          /\ judged' = judged
      BY <1>7, <2>2 DEF StandIn, Returns, Answering
    <3>2. worker[w].known \union Guess \in SUBSET Fields
      BY <1>0 DEF Work
    <3> QED
      BY <1>0, <1>7, <2>2, <3>1, <3>2, ToldFine DEF Left
  <2> QED
    BY <2>1, <2>2
<1>12. CASE Rejected(w) \/ ProviderFails(w)
  <2>1. worker[w].left # <<>> /\ Failed(w) /\ UNCHANGED contactVars
    BY <1>12 DEF Rejected, ProviderFails, Laden
  <2>2. CASE worker[w].tries + 1 < Attempts
    <3>1. /\ worker' = [worker EXCEPT ![w] = AtCall(worker[w], worker[w].tries + 1)]
          /\ judged' = judged
      BY <2>1, <2>2 DEF Failed, AtCall
    <3>2. worker[w].tries + 1 \in 0..(Attempts - 1)
      BY <1>0, <2>2 DEF Work
    <3> QED
      BY <1>0, <2>1, <3>1, <3>2, AtCallFine DEF Left
  <2>3. CASE ~(worker[w].tries + 1 < Attempts)
    BY <1>7, <2>1, <2>3 DEF Failed
  <2> QED
    BY <2>1, <2>2, <2>3
<1>13. CASE NotAsked(w)
  BY <1>7, <1>13 DEF NotAsked, Laden
<1>8. ASSUME NEW answer \in {"valid", "accept_all", "invalid"}, VerifierAnswers(w, answer)
      PROVE  UNCHANGED contactVars /\ \E x \in Work : Left(w, x)
  <2>1. /\ worker[w].left # <<>> /\ worker[w].job = "verify" /\ UNCHANGED contactVars
        /\ worker' = [worker EXCEPT ![w] = Answering(worker[w], answer, {})]
        /\ judged' = IF answer = "valid" THEN judged \union {<<worker[w].address, answer>>} ELSE judged
    BY <1>8 DEF VerifierAnswers, Laden, Returns, Answering
  <2>2. worker[w].address \in Addresses
    BY <1>0, <2>1 DEF Laden
  <2>3. /\ judged \subseteq judged' /\ judged' \subseteq Found
        /\ Convincing(answer) => <<worker[w].address, answer>> \in judged'
    BY <2>1, <2>2 DEF Found, Convincing
  <2>4. {} \in SUBSET Fields
    OBVIOUS
  <2> QED
    BY <1>0, <2>1, <2>3, <2>4, ToldFine DEF Left
<1>9. ASSUME NEW G \in SUBSET Fields, ResearcherAnswers(w, G)
      PROVE  UNCHANGED contactVars /\ \E x \in Work : Left(w, x)
  <2>1. /\ worker[w].left # <<>> /\ worker[w].job = "enrich" /\ UNCHANGED <<contactVars, judged>>
        /\ worker' = [worker EXCEPT ![w] = Answering(worker[w], "found", G)]
    BY <1>9 DEF ResearcherAnswers, Laden, Returns, Answering
  <2> QED
    BY <1>0, <2>1, ToldFine DEF Left
<1>10. CASE Judge(w)
  BY <1>10, AsleepType DEF Judge, Left
<1>11. CASE Weigh(w)
  <2> DEFINE r == worker[w]
             all == r.known \union r.gives
             x == ToEnrich(Tail(r.left), all)
  <2>1. r.left # <<>> /\ UNCHANGED <<contactVars, judged>>
    BY <1>11 DEF Weigh, Laden
  <2>2. all \in SUBSET Fields
    BY <1>0 DEF Work
  <2>3. Tail(r.left) \in Seq(Providers)
    BY <2>1, AskedType
  <2>4. CASE worker' = [worker EXCEPT ![w] = Asleep]
    BY <2>1, <2>4, AsleepType DEF Left
  <2>5. CASE worker' = [worker EXCEPT ![w] = x]
    BY <2>1, <2>2, <2>3, <2>5, ToEnrichFine DEF Left
  <2>6. [Asleep EXCEPT !.job = "enrich", !.left = Tail(r.left), !.known = all] = x
    BY DEF ToEnrich
  <2>7. CASE all = Fields \/ Cardinality(all) = Cardinality(r.known)
    BY <1>11, <2>4, <2>7 DEF Weigh
  <2>8. CASE ~(all = Fields \/ Cardinality(all) = Cardinality(r.known))
    BY <1>11, <2>5, <2>6, <2>8 DEF Weigh
  <2> QED
    BY <2>1, <2>7, <2>8
<1> QED
  BY <1>1, <1>2, <1>3, <1>4, <1>5, <1>6, <1>8, <1>9, <1>10, <1>11, <1>12, <1>13 DEF EnrichStep

-----------------------------------------------------------------------------
\* The initial state satisfies the invariants.
LEMMA EnrichInitSound == EnrichInit => Typed /\ HonestAll /\ VerifiedAddress
<1> SUFFICES ASSUME EnrichInit PROVE Typed /\ HonestAll /\ VerifiedAddress
  OBVIOUS
<1>1. \A w \in EnrichWorkers : worker[w] = Asleep
  BY DEF EnrichInit
<1>2. HonestAll /\ \A w \in EnrichWorkers : Laden(worker[w])
  BY <1>1, AsleepType DEF HonestAll
<1>3. worker \in [EnrichWorkers -> Work]
  BY AsleepType DEF EnrichInit
<1>4. breaker \in [Providers -> Breaker]
  BY EnrichmentAssumption DEF EnrichInit, Breaker
<1> QED
  BY <1>2, <1>3, <1>4 DEF EnrichInit, Typed, ContactRow, VerifiedAddress

\* Every step keeps the types.
LEMMA TypedStep == Typed /\ [EnrichNext]_enrichVars => Typed'
<1> SUFFICES ASSUME Typed, [EnrichNext]_enrichVars PROVE Typed'
  OBVIOUS
<1> USE EnrichmentAssumption DEF Typed
<1>1. ASSUME NEW w \in EnrichWorkers, EnrichStep(w) PROVE Typed'
  <2>1. PICK x \in Work : Left(w, x)
    BY <1>1, WorkerStep
  <2>2. /\ worker' \in [EnrichWorkers -> Work] /\ judged' \subseteq Found
        /\ \A v \in EnrichWorkers : Laden(worker'[v])
    BY <2>1 DEF Left
  <2>3. contact' \in ContactRow /\ UNCHANGED <<entering, slipped>>
    <3>1. CASE contact' = contact
      BY <1>1, <3>1, WorkerStep
    <3>2. CASE /\ Convincing(worker[w].answer)
               /\ contact' = [contact EXCEPT !.status = "verified", !.from = worker[w].answer]
      BY <1>1, <3>2, WorkerStep DEF Convincing, ContactRow
    <3> QED
      BY <1>1, <3>1, <3>2, WorkerStep
  <2>4. filled' \subseteq Fields
    <3>1. CASE Weigh(w)
      <4>1. worker[w].gives \subseteq Fields
        BY DEF Work
      <4>2. filled' = worker[w].gives \/ filled' = filled \union worker[w].gives
        BY <3>1 DEF Weigh, Written
      <4> QED
        BY <4>1, <4>2
    <3> QED
      BY <1>1, <3>1 DEF EnrichStep, StartVerify, StartEnrich, GiveUp, QuotaRead, QuotaWrite, NotAsked,
         Admitted, Rejected, ProviderFails, VerifierAnswers, ResearcherAnswers, Judge
  <2>5. /\ used' \in [Providers -> Nat] /\ calls' \in [Providers -> Nat]
        /\ uncounted' \in [Providers -> Nat]
    <3>1. CASE QuotaWrite(w)
      <4>1. worker[w].left # <<>> /\ worker[w].seen \in Nat
        BY <3>1 DEF QuotaWrite, Laden, Work
      <4>2. Asked(w) \in Providers /\ Quota[Asked(w)] \in Nat
        BY <4>1, AskedType
      <4>3. (IF worker[w].seen + 1 > Quota[Asked(w)] THEN Quota[Asked(w)] ELSE worker[w].seen + 1) \in Nat
        BY <4>1, <4>2
      <4>4. calls' = calls \/ calls' = [calls EXCEPT ![Asked(w)] = calls[Asked(w)] + 1]
        BY <3>1 DEF QuotaWrite
      <4>5. used' \in [Providers -> Nat]
        BY <3>1, <4>3 DEF QuotaWrite
      <4>6. calls \in [Providers -> Nat] /\ calls[Asked(w)] + 1 \in Nat
        BY <4>2
      <4>7. calls' \in [Providers -> Nat]
        BY <4>4, <4>6
      <4> DEFINE u == used[Asked(w)]
                 n == worker[w].seen + 1
                 m == uncounted[Asked(w)]
      <4>8. u \in Nat /\ n \in Nat /\ m \in Nat
        BY <4>1, <4>2
      <4>9. uncounted' = [uncounted EXCEPT ![Asked(w)] = IF u >= n THEN m + u + 1 - n ELSE m]
        BY <3>1 DEF QuotaWrite
      <4> HIDE DEF u, n, m
      <4>10. (IF u >= n THEN m + u + 1 - n ELSE m) \in Nat
        BY <4>8
      <4>11. uncounted' \in [Providers -> Nat]
        BY <4>9, <4>10
      <4> QED
        BY <4>5, <4>7, <4>11
    <3> QED
      BY <1>1, <3>1 DEF EnrichStep, StartVerify, StartEnrich, GiveUp, QuotaRead, countVars,
         NotAsked, Admitted, Rejected, ProviderFails, VerifierAnswers, ResearcherAnswers, Judge, Weigh
  <2>6. breaker' \in [Providers -> Breaker]
    <3>1. CASE Admitted(w)
      <4> DEFINE b == breaker[Asked(w)]
                 s == IF b.state = "open" THEN "half-open" ELSE b.state
                 c == [b EXCEPT !.state = s, !.down = 0]
      <4>1. worker[w].left # <<>> /\ breaker' = [breaker EXCEPT ![Asked(w)] = c]
        BY <3>1 DEF Admitted, Laden
      <4>2. b \in Breaker
        BY <4>1, AskedType
      <4>3. s \in {"closed", "open", "half-open"} /\ 0 \in 0..(2 * ResetAfter)
        BY <4>2 DEF Breaker
      <4> HIDE DEF s
      <4>4. c \in Breaker
        BY <4>2, <4>3 DEF Breaker
      <4> HIDE DEF c
      <4> QED
        BY <4>1, <4>4
    <3>2. ASSUME Rejected(w) \/ ProviderFails(w) PROVE breaker' \in [Providers -> Breaker]
      <4>1. worker[w].left # <<>>
        BY <3>2 DEF Rejected, ProviderFails, Laden
      <4>2. RecordFailure(breaker[Asked(w)]) \in Breaker
        BY <4>1, AskedType, BreakerType
      <4>3. \/ breaker' = breaker
            \/ breaker' = [breaker EXCEPT ![Asked(w)] = RecordFailure(breaker[Asked(w)])]
        BY <3>2 DEF Rejected, ProviderFails, Failed
      <4> QED
        BY <4>2, <4>3
    <3>3. ASSUME \/ \E answer \in {"valid", "accept_all", "invalid"} : VerifierAnswers(w, answer)
                 \/ \E G \in SUBSET Fields : ResearcherAnswers(w, G)
          PROVE  breaker' \in [Providers -> Breaker]
      <4>1. /\ worker[w].left # <<>>
            /\ breaker' = [breaker EXCEPT ![Asked(w)] = RecordSuccess(breaker[Asked(w)])]
        BY <3>3 DEF VerifierAnswers, ResearcherAnswers, Laden
      <4>2. RecordSuccess(breaker[Asked(w)]) \in Breaker
        BY <4>1, AskedType, BreakerType
      <4> QED
        BY <4>1, <4>2
    <3> QED
      BY <1>1, <3>1, <3>2, <3>3 DEF EnrichStep, StartVerify, StartEnrich, GiveUp, QuotaRead,
         QuotaWrite, NotAsked, Judge, Weigh
  <2> QED
    BY <2>2, <2>3, <2>4, <2>5, <2>6
<1>2. ASSUME NEW a \in Addresses, AskToEnter(a) \/ EnterAddress(a) PROVE Typed'
  <2>1. contact' \in ContactRow /\ entering' \subseteq Addresses /\ slipped' \in BOOLEAN
    <3>1. CASE AskToEnter(a)
      BY <3>1 DEF AskToEnter
    <3>2. CASE EnterAddress(a)
      <4>1. contact' \in ContactRow
        BY <3>2 DEF EnterAddress, ContactRow
      <4> QED
        BY <3>2, <4>1 DEF EnterAddress
    <3> QED
      BY <1>2, <3>1, <3>2
  <2>2. UNCHANGED <<filled, countVars, breaker, worker, judged>>
    BY <1>2 DEF AskToEnter, EnterAddress
  <2> QED
    BY <2>1, <2>2 DEF countVars
<1>3. ASSUME NEW f \in Fields, EnterField(f) PROVE Typed'
  BY <1>3 DEF EnterField, contactVars, countVars
<1>4. ASSUME NEW p \in Providers, TimePasses(p) PROVE Typed'
  <2> DEFINE b == breaker[p]
             c == [b EXCEPT !.age = IF b.age < ResetAfter THEN b.age + 1 ELSE b.age,
                            !.down = b.down + 1]
  <2>1. breaker' = [breaker EXCEPT ![p] = c] /\ b.down < 2 * ResetAfter
        /\ UNCHANGED <<contactVars, filled, countVars, worker, judged>>
    BY <1>4 DEF TimePasses
  <2>2. b \in Breaker
    OBVIOUS
  <2>3. /\ (IF b.age < ResetAfter THEN b.age + 1 ELSE b.age) \in 0..ResetAfter
        /\ b.down + 1 \in 0..(2 * ResetAfter)
    BY <2>1, <2>2 DEF Breaker
  <2>4. c \in Breaker
    BY <2>2, <2>3 DEF Breaker
  <2> HIDE DEF c
  <2> QED
    BY <2>1, <2>4 DEF contactVars, countVars
<1>5. CASE UNCHANGED enrichVars
  BY <1>5 DEF enrichVars, contactVars, countVars
<1> QED
  BY <1>1, <1>2, <1>3, <1>4, <1>5 DEF EnrichNext

\* Whatever other addresses come in meanwhile, every step keeps what is said of
\* them.
LEMMA VerifiedStep ==
  Typed /\ HonestAll /\ VerifiedAddress /\ [EnrichNext]_enrichVars
    => HonestAll' /\ VerifiedAddress'
<1> SUFFICES ASSUME Typed, HonestAll, VerifiedAddress, [EnrichNext]_enrichVars
             PROVE  HonestAll' /\ VerifiedAddress'
  OBVIOUS
<1>1. ASSUME NEW w \in EnrichWorkers, EnrichStep(w) PROVE HonestAll' /\ VerifiedAddress'
  <2>1. PICK x \in Work : Left(w, x)
    BY <1>1, WorkerStep
  <2>2. contact'.address = contact.address /\ slipped' = slipped
    BY <1>1, WorkerStep DEF Typed, ContactRow
  <2>3. ASSUME NEW v \in EnrichWorkers PROVE Honest(worker'[v], slipped, contact.address, judged')
    <3>1. CASE v = w
      BY <2>1, <3>1 DEF Typed, Left, HonestAll
    <3>2. CASE v # w
      <4>1. worker'[v] = worker[v] /\ judged \subseteq judged'
        BY <2>1, <3>2 DEF Typed, Left
      <4>2. Honest(worker[v], slipped, contact.address, judged)
        BY DEF HonestAll
      <4> QED
        BY <4>1, <4>2 DEF Honest
    <3> QED
      BY <3>1, <3>2
  <2>4. VerifiedAddress'
    <3>1. judged \subseteq judged'
      BY <2>1 DEF Left
    <3>2. CASE contact' = contact
      BY <2>2, <3>1, <3>2 DEF VerifiedAddress
    <3>3. CASE /\ worker[w].job = "verify" /\ worker[w].at = "answered"
               /\ Convincing(worker[w].answer)
               /\ contact' = [contact EXCEPT !.status = "verified", !.from = worker[w].answer]
      <4>1. slipped \/ <<contact.address, worker[w].answer>> \in judged
        BY <3>3 DEF HonestAll, Honest
      <4>2. contact'.from = worker[w].answer
        BY <3>3 DEF Typed, ContactRow
      <4> QED
        BY <2>2, <3>1, <4>1, <4>2 DEF VerifiedAddress
    <3> QED
      BY <1>1, <3>2, <3>3, WorkerStep
  <2> QED
    BY <2>2, <2>3, <2>4 DEF HonestAll
<1>2. ASSUME NEW a \in Addresses, EnterAddress(a) PROVE HonestAll' /\ VerifiedAddress'
  <2>1. /\ UNCHANGED <<worker, judged>> /\ contact'.status # "verified" /\ contact'.address = a
        /\ slipped' = \E b \in Addresses \ {a} : Verifying(b)
    BY <1>2 DEF EnterAddress
  <2>2. ASSUME NEW w \in EnrichWorkers, worker[w].job = "verify"
        PROVE  slipped' \/ worker[w].address = a
    BY <2>1, <2>2 DEF Typed, Laden, Verifying
  <2> QED
    BY <2>1, <2>2 DEF HonestAll, Honest, VerifiedAddress
<1>3. CASE UNCHANGED <<contact, slipped, worker, judged>>
  BY <1>3 DEF HonestAll, VerifiedAddress
<1> QED
  BY <1>1, <1>2, <1>3 DEF EnrichNext, AskToEnter, EnterField, TimePasses, enrichVars, contactVars

-----------------------------------------------------------------------------
\* The types hold in every behaviour, ...
THEOREM TypedHolds == EnrichSpec => []Typed
  BY EnrichInitSound, TypedStep, PTL DEF EnrichSpec

\* ... and with them the module's type invariant.
THEOREM EnrichTypeCorrect == EnrichSpec => []EnrichTypeOK
<1>1. Typed => EnrichTypeOK
  <2> SUFFICES ASSUME Typed PROVE EnrichTypeOK
    OBVIOUS
  <2>1. \A w \in EnrichWorkers :
          /\ worker[w].job \in {"none", "verify", "enrich"}
          /\ worker[w].at \in {"next", "quota", "call", "calling", "answered"}
          /\ worker[w].known \subseteq Fields /\ worker[w].tries < Attempts
    BY EnrichmentAssumption DEF Typed, Work
  <2> QED
    BY <2>1 DEF Typed, EnrichTypeOK, Breaker, ContactRow, Found
<1> QED
  BY <1>1, TypedHolds, PTL

\* A contact that is verified holds an address that was judged as its row says,
\* however many workers verify it and whatever addresses come in, unless one came
\* in while another was being verified.
THEOREM VerifiedWasJudged == EnrichSpec => []VerifiedAddress
  BY EnrichInitSound, TypedHolds, VerifiedStep, PTL DEF EnrichSpec

-----------------------------------------------------------------------------
(* Counting a provider's uses                                                *)

\* Every use that was let through is in the count or among those it has lost,
\* and the count keeps within the quota.
QuotaCounted ==
  \A p \in Providers : used[p] <= Quota[p] /\ calls[p] <= used[p] + uncounted[p]

\* Only the write of track_provider_usage touches the counts.
LEMMA CountStep ==
  ASSUME [EnrichNext]_enrichVars
  PROVE  (\E w \in EnrichWorkers : QuotaWrite(w)) \/ UNCHANGED countVars
<1>1. ASSUME NEW w \in EnrichWorkers, EnrichStep(w), ~QuotaWrite(w) PROVE UNCHANGED countVars
  BY <1>1 DEF EnrichStep, StartVerify, StartEnrich, GiveUp, QuotaRead, NotAsked, Admitted, Rejected,
              ProviderFails, VerifierAnswers, ResearcherAnswers, Judge, Weigh
<1> QED
  BY <1>1 DEF EnrichNext, AskToEnter, EnterAddress, EnterField, TimePasses, enrichVars

LEMMA QuotaInit == EnrichInit => QuotaCounted /\ QuotaReserve
  BY EnrichmentAssumption DEF EnrichInit, Asleep, QuotaCounted, QuotaReserve

LEMMA QuotaStep ==
  Typed /\ QuotaCounted /\ QuotaReserve /\ [EnrichNext]_enrichVars
    => QuotaCounted' /\ QuotaReserve'
<1> SUFFICES ASSUME Typed, QuotaCounted, QuotaReserve, [EnrichNext]_enrichVars
             PROVE  QuotaCounted' /\ QuotaReserve'
  OBVIOUS
<1>0. /\ used \in [Providers -> Nat] /\ calls \in [Providers -> Nat]
      /\ uncounted \in [Providers -> Nat]
      /\ Quota \in [Providers -> Nat] /\ Reserve \in Nat
      /\ worker \in [EnrichWorkers -> Work]
  BY EnrichmentAssumption DEF Typed
<1>1. ASSUME NEW w \in EnrichWorkers, QuotaWrite(w) PROVE QuotaCounted' /\ QuotaReserve'
  <2> DEFINE p == Asked(w)
             n == worker[w].seen + 1
  <2>1. p \in Providers /\ n \in Nat /\ n > 0
    <3>1. worker[w].left # <<>> /\ worker[w].seen \in Nat
      BY <1>0, <1>1 DEF QuotaWrite, Typed, Laden, Work
    <3> QED
      BY <3>1, AskedType
  <2>2. /\ used' = [used EXCEPT ![p] = IF n > Quota[p] THEN Quota[p] ELSE n]
        /\ calls' = IF Quota[p] > 0 /\ Within(p, n) THEN [calls EXCEPT ![p] = @ + 1] ELSE calls
        /\ uncounted' = [uncounted EXCEPT ![p] = IF used[p] >= n THEN @ + used[p] + 1 - n ELSE @]
    BY <1>1 DEF QuotaWrite
  <2> HIDE DEF p, n
  <2>3. used[p] <= Quota[p] /\ calls[p] <= used[p] + uncounted[p]
    BY <2>1 DEF QuotaCounted
  <2>4. used'[p] = IF n > Quota[p] THEN Quota[p] ELSE n
    BY <1>0, <2>1, <2>2
  <2>5. uncounted'[p] = IF used[p] >= n THEN uncounted[p] + used[p] + 1 - n ELSE uncounted[p]
    BY <1>0, <2>1, <2>2
  <2>6. calls'[p] = IF Quota[p] > 0 /\ Within(p, n) THEN calls[p] + 1 ELSE calls[p]
    BY <1>0, <2>1, <2>2
  <2>7. /\ used[p] \in Nat /\ calls[p] \in Nat /\ uncounted[p] \in Nat
        /\ Quota[p] \in Nat /\ Reserve \in Nat
    BY <1>0, <2>1
  <2>8. uncounted[p] <= uncounted'[p] /\ uncounted'[p] \in Nat
    BY <2>1, <2>5, <2>7
  <2>9. calls[p] + 1 <= n + uncounted'[p]
    BY <2>1, <2>3, <2>5, <2>7
  <2>10. used'[p] <= Quota[p] /\ calls'[p] <= used'[p] + uncounted'[p]
    <3>1. CASE Quota[p] > 0 /\ Within(p, n)
      BY <2>1, <2>4, <2>6, <2>7, <2>8, <2>9, <3>1 DEF Within
    <3>2. CASE ~(Quota[p] > 0 /\ Within(p, n))
      <4>1. calls'[p] = calls[p]
        BY <2>6, <3>2
      <4> QED
        BY <2>1, <2>3, <2>4, <2>7, <2>8, <2>9, <4>1
    <3> QED
      BY <3>1, <3>2
  <2>11. calls'[p] > 0 => calls'[p] + Reserve < Quota[p] + uncounted'[p]
    <3>1. CASE Quota[p] > 0 /\ Within(p, n)
      <4>1. n + Reserve < Quota[p] /\ calls'[p] = calls[p] + 1
        BY <2>6, <3>1 DEF Within
      <4> QED
        BY <2>1, <2>7, <2>8, <2>9, <4>1
    <3>2. CASE ~(Quota[p] > 0 /\ Within(p, n))
      <4>1. calls'[p] = calls[p]
        BY <2>6, <3>2
      <4>2. calls[p] > 0 => calls[p] + Reserve < Quota[p] + uncounted[p]
        BY <2>1 DEF QuotaReserve
      <4> QED
        BY <2>7, <2>8, <4>1, <4>2
    <3> QED
      BY <3>1, <3>2
  <2>12. \A q \in Providers : q # p => /\ used'[q] = used[q] /\ calls'[q] = calls[q]
                                        /\ uncounted'[q] = uncounted[q]
    BY <1>0, <2>1, <2>2
  <2> QED
    BY <2>10, <2>11, <2>12 DEF QuotaCounted, QuotaReserve
<1>2. CASE UNCHANGED countVars
  BY <1>2 DEF QuotaCounted, QuotaReserve, countVars
<1> QED
  BY <1>1, <1>2, CountStep

\* A provider that has a quota keeps its reserve, for any workers, providers and
\* quotas, but for the uses that workers counting at the same time have lost.
THEOREM ReserveKept == EnrichSpec => []QuotaReserve
  BY QuotaInit, QuotaStep, TypedHolds, PTL DEF EnrichSpec

-----------------------------------------------------------------------------
(* The pipeline                                                             *)

(***************************************************************************)
(* Types.                                                                  *)
(***************************************************************************)
Records == [fit : {"pending", "qualified", "not_relevant"},
            pain : Pains \union {None}, offer : Offers \union {None},
            reasons : SUBSET Reasons, site : BOOLEAN]

Rows == [lead : Prospects, stage : Stages]

AnyAnswer == (UNION {Answers(s) : s \in Stages}) \union {None}

Holdings ==
  [lead : Prospects \union {None}, todo : Seq(Stages), at : {"context", "apply", "store"},
   tries : Nat,
   told : [pain : Pains \union {None}, offer : Offers \union {None}, crossed : BOOLEAN],
   answer : AnyAnswer,
   loaded : [pain : Pains \union {None}, reasons : SUBSET Reasons]]

\* What may be stored of an answer, by stage.
Accepted(s) ==
  CASE s = "audit" -> Pains
    [] s = "offer" -> Offers
    [] OTHER -> Answers(s)

\* An execution with a lead has a stage, and an answer of that stage.
Working(e) ==
  /\ e \in Holdings /\ e.lead # None /\ e.todo # <<>>
  /\ e.at = "apply" => e.answer \in Answers(Head(e.todo))
  /\ e.at = "store" => e.answer \in Accepted(Head(e.todo))

PipeTypes ==
  /\ prospect \in [Prospects -> Records]
  /\ outbox \in Seq(Rows)
  /\ exec \in [Execs -> Holdings]
  /\ \A x \in Execs : exec[x] = Unused \/ Working(exec[x])
  /\ \A d \in drafts : d.lead \in Prospects
  /\ runs \in [Prospects -> 0..MaxRuns]
  /\ open \subseteq Prospects /\ lost \subseteq Prospects /\ crossed \subseteq Execs

LEMMA UnusedHolds ==
  /\ Unused \in Holdings /\ Unused.lead = None /\ Unused.at = "context"
  /\ Unused.todo = <<>>
  BY DEF Unused, Holdings, AnyAnswer

LEMMA NextTyped == \A s \in Stages \ {"draft"} : NextStage[s] \in Stages
  BY DEF NextStage, Stages

\* A stage is one of the five.
LEMMA FiveStages ==
  ASSUME NEW s
  PROVE  s \in Stages <=> s \in {"qualification", "enrichment", "audit", "offer", "draft"}
  BY DEF Stages

\* What an execution with a lead works on.
LEMMA AtWork ==
  ASSUME PipeTypes, NEW x \in Execs, exec[x].lead # None
  PROVE  /\ Working(exec[x]) /\ exec[x] \in Holdings
         /\ exec[x].lead \in Prospects /\ Stage(x) \in Stages
         /\ exec[x].todo \in Seq(Stages) /\ exec[x].todo # <<>>
         /\ exec[x].at = "apply" => exec[x].answer \in Answers(Stage(x))
         /\ exec[x].at = "store" => exec[x].answer \in Accepted(Stage(x))
<1>1. Working(exec[x])
  BY UnusedHolds DEF PipeTypes
<1>2. exec[x] \in Holdings
  BY <1>1 DEF Working
<1>3. exec[x].todo \in Seq(Stages) /\ exec[x].todo # <<>> /\ exec[x].lead \in Prospects
  BY <1>1, <1>2 DEF Working, Holdings
<1>4. Head(exec[x].todo) \in Stages
  BY <1>3
<1> QED
  BY <1>1, <1>2, <1>3, <1>4 DEF Working, Stage

LEMMA AnswerTyped ==
  ASSUME NEW s \in Stages, NEW a
  PROVE  /\ a \in Answers(s) => a \in AnyAnswer
         /\ a \in Accepted(s) => a \in Answers(s)
<1>1. a \in Answers(s) => a \in AnyAnswer
  BY DEF AnyAnswer
<1>2. a \in Accepted(s) => a \in Answers(s)
  BY DEF Accepted, Answers, Stages
<1> QED
  BY <1>1, <1>2

\* A repeated request has the answer it had; the last one ends the execution.
LEMMA RepeatedWorks ==
  ASSUME NEW e, Working(e), NEW at \in {"context", "apply"},
         at = "apply" => e.at \in {"apply", "store"}
  PROVE  Repeated(e, at) = Unused \/ Working(Repeated(e, at))
<1>1. CASE e.tries + 1 < MaxTries
  <2> DEFINE r == [e EXCEPT !.at = at, !.tries = e.tries + 1]
  <2>1. e.tries + 1 \in Nat
    BY DEF Working, Holdings
  <2>2. r \in Holdings
    BY <2>1 DEF Working, Holdings
  <2>3. r.lead = e.lead /\ r.todo = e.todo /\ r.at = at /\ r.answer = e.answer
    BY DEF Working, Holdings
  <2>4. Head(e.todo) \in Stages
    BY DEF Working, Holdings
  <2>5. at = "apply" => e.answer \in Answers(Head(e.todo))
    BY <2>4, AnswerTyped DEF Working
  <2>6. Working(r)
    BY <2>2, <2>3, <2>5 DEF Working
  <2> QED
    BY <1>1, <2>6 DEF Repeated
<1>2. CASE ~(e.tries + 1 < MaxTries)
  BY <1>2 DEF Repeated
<1> QED
  BY <1>1, <1>2

LEMMA TailLonger ==
  ASSUME NEW q \in Seq(Stages), q # <<>>, Len(q) # 1
  PROVE  Tail(q) \in Seq(Stages) /\ Tail(q) # <<>>
<1>1. Tail(q) \in Seq(Stages) /\ Len(Tail(q)) = Len(q) - 1 /\ Len(q) \in Nat
  OBVIOUS
<1>2. Len(q) > 1 \/ Len(q) = 0
  BY <1>1
<1>3. Len(q) # 0
  OBVIOUS
<1> QED
  BY <1>1, <1>2, <1>3

\* An answered request goes on to the next stage, an unanswered one is repeated.
LEMMA WentWorks ==
  ASSUME NEW x, Working(exec[x]), exec[x].at = "store", NEW outcome
  PROVE  Went(x, outcome) = Unused \/ Working(Went(x, outcome))
<1>1. CASE outcome = "answered" /\ Len(exec[x].todo) # 1
  <2> DEFINE r == [Unused EXCEPT !.lead = exec[x].lead, !.todo = Tail(exec[x].todo)]
  <2>1. /\ exec[x].todo \in Seq(Stages) /\ exec[x].todo # <<>>
        /\ exec[x].lead \in Prospects /\ exec[x].lead # None
    BY DEF Working, Holdings
  <2>2. Tail(exec[x].todo) \in Seq(Stages) /\ Tail(exec[x].todo) # <<>>
    BY <1>1, <2>1, TailLonger
  <2>3. r \in Holdings /\ r.lead = exec[x].lead /\ r.todo = Tail(exec[x].todo) /\ r.at = "context"
    BY <2>1, <2>2, UnusedHolds DEF Holdings, Unused
  <2>4. Working(r)
    BY <2>1, <2>2, <2>3 DEF Working
  <2> QED
    BY <1>1, <2>4 DEF Went
<1>2. CASE outcome = "answered" /\ Len(exec[x].todo) = 1
  BY <1>2 DEF Went
<1>3. CASE outcome # "answered"
  BY <1>3, RepeatedWorks DEF Went
<1> QED
  BY <1>1, <1>2, <1>3

\* One execution changes.
LEMMA PutExec ==
  ASSUME PipeTypes, NEW x \in Execs, NEW e, e = Unused \/ Working(e),
         exec' = [exec EXCEPT ![x] = e]
  PROVE  /\ exec' \in [Execs -> Holdings]
         /\ \A y \in Execs : exec'[y] = Unused \/ Working(exec'[y])
         /\ exec'[x] = e /\ \A y \in Execs \ {x} : exec'[y] = exec[y]
<1>1. e \in Holdings
  BY UnusedHolds DEF Working
<1>2. exec' \in [Execs -> Holdings] /\ exec'[x] = e /\ \A y \in Execs \ {x} : exec'[y] = exec[y]
  BY <1>1 DEF PipeTypes
<1>3. \A y \in Execs : exec'[y] = Unused \/ Working(exec'[y])
  BY <1>2 DEF PipeTypes
<1> QED
  BY <1>2, <1>3

LEMMA FlagTyped ==
  ASSUME PipeTypes, NEW l \in Prospects, NEW why \in Reasons, FlagReview(l, why)
  PROVE  /\ prospect' \in [Prospects -> Records] /\ open' \subseteq Prospects
         /\ \A k \in Prospects : prospect'[k].pain = prospect[k].pain
                                 /\ prospect'[k].offer = prospect[k].offer
<1>1. prospect[l] \in Records
  BY DEF PipeTypes
<1>2. [prospect[l] EXCEPT !.reasons = prospect[l].reasons \union {why}] \in Records
  BY <1>1 DEF Records
<1>3. prospect' = [prospect EXCEPT ![l] = [prospect[l] EXCEPT !.reasons = prospect[l].reasons \union {why}]]
  BY DEF FlagReview, PipeTypes
<1>4. prospect' \in [Prospects -> Records]
  BY <1>2, <1>3 DEF PipeTypes
<1>5. \A k \in Prospects : prospect'[k].pain = prospect[k].pain
                           /\ prospect'[k].offer = prospect[k].offer
  BY <1>1, <1>3 DEF PipeTypes, Records
<1> QED
  BY <1>4, <1>5 DEF FlagReview, PipeTypes

\* An answer that is not refused may be stored; a refused one names its reason.
LEMMA FaultReason ==
  ASSUME PipelineAssumption, NEW s \in Stages, NEW l, NEW a \in Answers(s)
  PROVE  /\ Fault(s, l, a) = None => a \in Accepted(s)
         /\ Fault(s, l, a) # None => Fault(s, l, a) \in Reasons
<1>1. CASE s = "audit"
  BY <1>1 DEF Fault, Answers, Accepted, Reasons, PipelineAssumption
<1>2. CASE s = "offer"
  BY <1>2 DEF Fault, Answers, Accepted, Reasons, PipelineAssumption
<1>3. CASE s = "draft"
  BY <1>3 DEF Fault, Answers, Accepted, Reasons, PipelineAssumption
<1>4. CASE s \in {"qualification", "enrichment"}
  BY <1>4 DEF Fault, Answers, Accepted, Reasons, PipelineAssumption
<1> QED
  BY <1>1, <1>2, <1>3, <1>4 DEF Stages

LEMMA StoredTyped ==
  ASSUME NEW p \in Records, NEW s \in Stages, NEW a \in Accepted(s), NEW loaded,
         loaded.reasons \subseteq Reasons
  PROVE  /\ Stored1(p, s, a, loaded) \in Records
         /\ s # "audit" => Stored1(p, s, a, loaded).pain = p.pain
         /\ s # "offer" => Stored1(p, s, a, loaded).offer = p.offer
         /\ s = "offer" => Stored1(p, s, a, loaded).offer = a
<1>1. CASE s = "qualification"
  BY <1>1 DEF Stored1, Accepted, Answers, Records
<1>2. CASE s = "enrichment" /\ a = {}
  BY <1>2 DEF Stored1, Accepted, Answers, Records
<1>3. CASE s = "enrichment" /\ a # {}
  <2>1. loaded.reasons \union a \subseteq Reasons
    BY <1>3 DEF Accepted, Answers, Reasons
  <2>2. Stored1(p, s, a, loaded) = [p EXCEPT !.reasons = loaded.reasons \union a]
    BY <1>3 DEF Stored1
  <2> QED
    BY <1>3, <2>1, <2>2 DEF Records
<1>4. CASE s = "audit"
  BY <1>4 DEF Stored1, Accepted, Answers, Records
<1>5. CASE s = "offer"
  BY <1>5 DEF Stored1, Accepted, Answers, Records
<1>6. CASE s = "draft"
  BY <1>6 DEF Stored1, Accepted, Answers, Records
<1> QED
  BY <1>1, <1>2, <1>3, <1>4, <1>5, <1>6 DEF Stages

LEMMA PipeTypesInit == PipelineAssumption /\ PipeInit => PipeTypes
<1> SUFFICES ASSUME PipelineAssumption, PipeInit PROVE PipeTypes
  OBVIOUS
<1>1. prospect \in [Prospects -> Records]
  BY DEF PipeInit, Records
<1>2. exec \in [Execs -> Holdings] /\ \A x \in Execs : exec[x] = Unused
  BY UnusedHolds DEF PipeInit
<1>3. runs \in [Prospects -> 0..MaxRuns]
  BY DEF PipeInit, PipelineAssumption
<1> QED
  BY <1>1, <1>2, <1>3 DEF PipeInit, PipeTypes

LEMMA PipeTypesStep == PipelineAssumption /\ PipeTypes /\ [PipeNext]_pipeVars => PipeTypes'
<1> SUFFICES ASSUME PipelineAssumption, PipeTypes, [PipeNext]_pipeVars PROVE PipeTypes'
  OBVIOUS
<1>1. ASSUME NEW l \in Prospects, RequestQualification(l) PROVE PipeTypes'
  <2>1. [lead |-> l, stage |-> "qualification"] \in Rows
    BY DEF Rows, Stages
  <2>2. outbox' \in Seq(Rows)
    BY <1>1, <2>1 DEF RequestQualification, PipeTypes
  <2>3. runs' \in [Prospects -> 0..MaxRuns]
    BY <1>1 DEF RequestQualification, PipeTypes, PipelineAssumption
  <2> QED
    BY <1>1, <2>2, <2>3 DEF RequestQualification, PipeTypes
<1>2. ASSUME NEW l \in Prospects, ClearReview(l) PROVE PipeTypes'
  <2>1. [prospect[l] EXCEPT !.reasons = {}] \in Records
    <3>1. prospect[l] \in Records
      BY DEF PipeTypes
    <3> QED
      BY <3>1 DEF Records
  <2>2. prospect' \in [Prospects -> Records]
    BY <1>2, <2>1 DEF ClearReview, PipeTypes
  <2> QED
    BY <1>2, <2>2 DEF ClearReview, PipeTypes
<1>3. ASSUME Unheard PROVE PipeTypes'
  <2>1. Tail(outbox) \in Seq(Rows) /\ Head(outbox) \in Rows
    BY <1>3 DEF Unheard, PipeTypes
  <2>2. Head(outbox).lead \in Prospects
    BY <2>1 DEF Rows
  <2> QED
    BY <1>3, <2>1, <2>2 DEF Unheard, PipeTypes
<1>3a. ASSUME NEW x \in Execs, SplitsNothing(x) PROVE PipeTypes'
  BY <1>3, <1>3a DEF SplitsNothing
<1>4. ASSUME NEW x \in Execs, Notified(x) PROVE PipeTypes'
  <2> DEFINE e == Head(outbox)
             f == [Unused EXCEPT !.lead = e.lead, !.todo = Branch[e.stage]]
             r == IF Branch[e.stage] = <<>> THEN Unused ELSE f
  <2>1. Tail(outbox) \in Seq(Rows) /\ e \in Rows
    BY <1>4 DEF Notified, PipeTypes
  <2>2. e.lead \in Prospects /\ e.lead # None /\ Branch[e.stage] \in Seq(Stages)
    BY <2>1 DEF Rows, PipelineAssumption
  <2>3. f \in Holdings /\ f.lead = e.lead /\ f.at = "context" /\ f.todo = Branch[e.stage]
    BY <2>2, UnusedHolds DEF Holdings, Unused
  <2>4. Branch[e.stage] # <<>> => Working(f)
    BY <2>2, <2>3 DEF Working
  <2>5. r = Unused \/ Working(r)
    BY <2>4
  <2>6. exec' = [exec EXCEPT ![x] = r]
    BY <1>4 DEF Notified
  <2>7. exec' \in [Execs -> Holdings] /\ \A y \in Execs : exec'[y] = Unused \/ Working(exec'[y])
    BY ONLY <2>5, <2>6, PipeTypes, x \in Execs, PutExec
  <2> QED
    BY <1>4, <2>1, <2>7 DEF Notified, PipeTypes
<1>5. ASSUME NEW x \in Execs, Context(x) PROVE PipeTypes'
  <2> DEFINE l == exec[x].lead
  <2>1. /\ Working(exec[x]) /\ exec[x] \in Holdings /\ l \in Prospects /\ Stage(x) \in Stages
    BY <1>5, AtWork DEF Context
  <2>2. PICK a \in Answers(Stage(x)) :
          exec' = [exec EXCEPT ![x] =
                    [exec[x] EXCEPT !.at = "apply", !.tries = 0, !.answer = a,
                       !.told = [pain |-> prospect[l].pain, offer |-> prospect[l].offer,
                                 crossed |-> x \in crossed]]]
    BY <1>5 DEF Context
  <2> DEFINE t == [pain |-> prospect[l].pain, offer |-> prospect[l].offer,
                   crossed |-> x \in crossed]
             r == [exec[x] EXCEPT !.at = "apply", !.tries = 0, !.answer = a, !.told = t]
  <2>3. /\ t \in [pain : Pains \union {None}, offer : Offers \union {None}, crossed : BOOLEAN]
        /\ a \in AnyAnswer
    BY <2>1, <2>2, AnswerTyped DEF PipeTypes, Records
  <2>4. r \in Holdings
    BY <2>1, <2>3 DEF Holdings
  <2>5. r.lead = exec[x].lead /\ r.todo = exec[x].todo /\ r.at = "apply" /\ r.answer = a
    BY <2>1 DEF Holdings
  <2>6. Working(r)
    BY <2>1, <2>2, <2>4, <2>5 DEF Working, Stage
  <2>7. exec' = [exec EXCEPT ![x] = r]
    BY <2>2
  <2>8. exec' \in [Execs -> Holdings] /\ \A y \in Execs : exec'[y] = Unused \/ Working(exec'[y])
    BY ONLY <2>6, <2>7, PipeTypes, x \in Execs, PutExec
  <2> QED
    BY <1>5, <2>8 DEF Context, PipeTypes
<1>5a. ASSUME NEW x \in Execs, NEW r, r = Unused \/ (exec[x].at = "apply" /\ r = Repeated(exec[x], "apply")),
              exec[x].lead # None, exec' = [exec EXCEPT ![x] = r], StopsUnseen(x),
              UNCHANGED <<prospect, outbox, drafts, runs, open, crossed>>
       PROVE  PipeTypes'
  <2>1. Working(exec[x]) /\ exec[x].lead \in Prospects
    BY <1>5a, AtWork
  <2>2. r = Unused \/ Working(r)
    BY <1>5a, <2>1, RepeatedWorks
  <2>3. exec' \in [Execs -> Holdings] /\ \A y \in Execs : exec'[y] = Unused \/ Working(exec'[y])
    BY ONLY <1>5a, <2>2, PipeTypes, PutExec
  <2>4. lost' \subseteq Prospects
    BY <1>5a, <2>1 DEF StopsUnseen, PipeTypes
  <2> QED
    BY <1>5a, <2>3, <2>4 DEF PipeTypes
<1>5b. ASSUME NEW x \in Execs, ModelFails(x) PROVE PipeTypes'
  BY <1>5a, <1>5b DEF ModelFails
<1>5c. ASSUME NEW x \in Execs, LoadRaises(x) PROVE PipeTypes'
  BY <1>5a, <1>5c DEF LoadRaises, RefuseAnswer
<1>6. ASSUME NEW x \in Execs, ContextRefused(x) PROVE PipeTypes'
  <2> DEFINE l == exec[x].lead
             r == Repeated(exec[x], "context")
  <2>1. Working(exec[x]) /\ l \in Prospects
    BY <1>6, AtWork DEF ContextRefused
  <2>2. r = Unused \/ Working(r)
    BY <2>1, RepeatedWorks
  <2>3. exec' = [exec EXCEPT ![x] = r]
    BY <1>6 DEF ContextRefused, Refuse
  <2>4. exec' \in [Execs -> Holdings] /\ \A y \in Execs : exec'[y] = Unused \/ Working(exec'[y])
    BY ONLY <2>2, <2>3, PipeTypes, x \in Execs, PutExec
  <2>5. prospect' \in [Prospects -> Records] /\ open' \subseteq Prospects
    <3>1. CASE UNCHANGED <<prospect, open>>
      BY <3>1 DEF PipeTypes
    <3>2. CASE FlagReview(l, "no_site")
      BY <2>1, <3>2, FlagTyped DEF Reasons
    <3> QED
      BY <1>6, <3>1, <3>2 DEF ContextRefused
  <2> QED
    BY <1>6, <2>4, <2>5 DEF ContextRefused, PipeTypes
<1>7. ASSUME NEW x \in Execs, Load(x) PROVE PipeTypes'
  <2> DEFINE l == exec[x].lead
             d == [pain |-> prospect[l].pain, reasons |-> prospect[l].reasons]
             r == [exec[x] EXCEPT !.at = "store", !.loaded = d]
  <2>1. /\ Working(exec[x]) /\ exec[x] \in Holdings /\ l \in Prospects /\ Stage(x) \in Stages
        /\ exec[x].answer \in Answers(Stage(x))
    BY <1>7, AtWork DEF Load
  <2>2. exec[x].answer \in Accepted(Stage(x))
    BY <1>7, <2>1, FaultReason DEF Load
  <2>3. d \in [pain : Pains \union {None}, reasons : SUBSET Reasons]
    BY <2>1 DEF PipeTypes, Records
  <2>4. r \in Holdings
    BY <2>1, <2>3 DEF Holdings
  <2>5. r.lead = exec[x].lead /\ r.todo = exec[x].todo /\ r.at = "store" /\ r.answer = exec[x].answer
    BY <2>1 DEF Holdings
  <2>6. Working(r)
    BY <2>1, <2>2, <2>4, <2>5 DEF Working, Stage
  <2>7. exec' = [exec EXCEPT ![x] = r]
    BY <1>7 DEF Load
  <2>8. exec' \in [Execs -> Holdings] /\ \A y \in Execs : exec'[y] = Unused \/ Working(exec'[y])
    BY ONLY <2>6, <2>7, PipeTypes, x \in Execs, PutExec
  <2>9. crossed' \subseteq Execs
    BY <1>7 DEF Load, PipeTypes
  <2> QED
    BY <1>7, <2>8, <2>9 DEF Load, PipeTypes
<1>8. ASSUME NEW x \in Execs, LoadRefused(x) PROVE PipeTypes'
  <2> DEFINE l == exec[x].lead
             r == Repeated(exec[x], "apply")
  <2>1. /\ Working(exec[x]) /\ l \in Prospects /\ Stage(x) \in Stages
        /\ exec[x].at = "apply" /\ exec[x].answer \in Answers(Stage(x))
    BY <1>8, AtWork DEF LoadRefused
  <2>2. r = Unused \/ Working(r)
    BY <2>1, RepeatedWorks
  <2>3. exec' = [exec EXCEPT ![x] = r]
    BY <1>8 DEF LoadRefused, RefuseAnswer
  <2>4. exec' \in [Execs -> Holdings] /\ \A y \in Execs : exec'[y] = Unused \/ Working(exec'[y])
    BY ONLY <2>2, <2>3, PipeTypes, x \in Execs, PutExec
  <2>5. prospect' \in [Prospects -> Records] /\ open' \subseteq Prospects
    <3>1. CASE UNCHANGED <<prospect, open>>
      BY <3>1 DEF PipeTypes
    <3>2. CASE Fault(Stage(x), l, exec[x].answer) # None
                 /\ FlagReview(l, Fault(Stage(x), l, exec[x].answer))
      <4>1. Fault(Stage(x), l, exec[x].answer) \in Reasons
        BY <2>1, <3>2, FaultReason
      <4> QED
        BY <2>1, <3>2, <4>1, FlagTyped
    <3> QED
      BY <1>8, <3>1, <3>2 DEF LoadRefused
  <2> QED
    BY <1>8, <2>4, <2>5 DEF LoadRefused, PipeTypes
<1>9. ASSUME NEW x \in Execs, NEW outcome \in {"answered", "unheard", "broken"},
             Store(x, outcome)
      PROVE  PipeTypes'
  <2> DEFINE l == exec[x].lead
             s == Stage(x)
             a == exec[x].answer
             r == Went(x, outcome)
             p == Stored1(prospect[l], s, a, exec[x].loaded)
  <2>1. /\ Working(exec[x]) /\ exec[x] \in Holdings /\ l \in Prospects /\ s \in Stages
        /\ exec[x].todo \in Seq(Stages) /\ exec[x].todo # <<>>
        /\ exec[x].at = "store" /\ a \in Accepted(s)
    BY <1>9, AtWork DEF Store
  <2>2. p \in Records
    <3>1. exec[x].loaded.reasons \subseteq Reasons /\ prospect[l] \in Records
      BY <2>1 DEF Holdings, PipeTypes
    <3> QED
      BY <2>1, <3>1, StoredTyped
  <2>3. prospect' = [prospect EXCEPT ![l] = p]
    BY <1>9 DEF Store
  <2>4. prospect' \in [Prospects -> Records]
    BY <2>1, <2>2, <2>3 DEF PipeTypes
  <2>5. r = Unused \/ Working(r)
    BY <2>1, WentWorks
  <2>6. exec' = [exec EXCEPT ![x] = r]
    BY <1>9 DEF Store
  <2>7. exec' \in [Execs -> Holdings] /\ \A y \in Execs : exec'[y] = Unused \/ Working(exec'[y])
    BY ONLY <2>5, <2>6, PipeTypes, x \in Execs, PutExec
  <2>8. outbox' \in Seq(Rows)
    <3>1. CASE outcome # "broken" /\ Emits(s, a)
      <4>1. [lead |-> l, stage |-> NextStage[s]] \in Rows
        BY <2>1, <3>1, NextTyped DEF Emits, Rows
      <4>2. outbox' = Append(outbox, [lead |-> l, stage |-> NextStage[s]])
        BY <1>9, <3>1 DEF Store
      <4> QED
        BY <4>1, <4>2 DEF PipeTypes
    <3>2. CASE ~(outcome # "broken" /\ Emits(s, a))
      BY <1>9, <3>2 DEF Store, PipeTypes
    <3> QED
      BY <3>1, <3>2
  <2>9. \A d \in drafts' : d.lead \in Prospects
    BY <1>9, <2>1 DEF Store, WithDraft, PipeTypes
  <2>10. /\ open' \subseteq Prospects /\ lost' \subseteq Prospects /\ runs' = runs
         /\ crossed' \subseteq Execs
    BY <1>9, <2>1 DEF Store, StopsUnseen, Crossing, PipeTypes
  <2> QED
    BY <2>4, <2>7, <2>8, <2>9, <2>10 DEF PipeTypes
<1>10. CASE UNCHANGED pipeVars
  BY <1>10 DEF pipeVars, PipeTypes
<1> QED
  BY <1>1, <1>2, <1>3, <1>3a, <1>4, <1>5, <1>5b, <1>5c, <1>6, <1>7, <1>8, <1>9, <1>10
     DEF PipeNext, ExecStep

\* The types, in every environment: PipeTypes is the inductive form of PipeTypeOK.
\* With n8n's fairness or without it.
LEMMA PipeTypesHold == PipeInit /\ [][PipeNext]_pipeVars => []PipeTypes
<1>1. PipeInit => PipeTypes
  BY PipelineAssumption, PipeTypesInit
<1>2. PipeTypes /\ [PipeNext]_pipeVars => PipeTypes'
  BY PipelineAssumption, PipeTypesStep
<1> QED
  BY <1>1, <1>2, PTL

LEMMA PipeTypesTell == PipeTypes => PipeTypeOK
<1> SUFFICES ASSUME PipeTypes PROVE PipeTypeOK
  OBVIOUS
<1>1. \A x \in Execs : exec[x] = Unused \/ (exec[x].lead \in Prospects /\ exec[x].todo # <<>>)
  BY DEF PipeTypes, Working, Holdings
<1> QED
  BY <1>1 DEF PipeTypes, PipeTypeOK, Records, Rows

\* Leads, rows, executions, drafts and runs of the pipeline stay in their domains,
\* for any leads, executions and tries, and whichever stages an event sets going.
THEOREM PipeTypeCorrect == PipeSpec => []PipeTypeOK
  BY PipeTypesHold, PipeTypesTell, PTL DEF PipeSpec

(***************************************************************************)
(* A draft answers the pain it was written from, unless another run of the *)
(* lead crossed its own, when all stages hang on the event of the first.   *)
(***************************************************************************)
AsInFile ==
  Branch = [s \in Stages |->
    IF s = "qualification" THEN <<"qualification", "enrichment", "audit", "offer", "draft">>
                           ELSE <<>>]

\* What is left of the chain, wherever an execution is in it.
Remainders ==
  {<<"qualification", "enrichment", "audit", "offer", "draft">>,
   <<"enrichment", "audit", "offer", "draft">>, <<"audit", "offer", "draft">>,
   <<"offer", "draft">>, <<"draft">>}

InChain == \A x \in Execs : exec[x].lead # None => exec[x].todo \in Remainders

Fits(pain, offer) == PainToOffer[pain] \in {AnyOffer, offer}

\* From the moment an execution has checked an offer until its draft is stored,
\* what the lead has, or is about to have, answers its pain, unless another
\* execution has crossed it.
OfferFits(x) ==
  LET l == exec[x].lead IN
  l # None =>
    /\ Stage(x) = "offer" /\ exec[x].at = "store" =>
         x \in crossed \/ Fits(prospect[l].pain, exec[x].answer)
    /\ Stage(x) = "draft" => x \in crossed \/ Fits(prospect[l].pain, prospect[l].offer)
    /\ Stage(x) = "draft" /\ exec[x].at \in {"apply", "store"} =>
         exec[x].told.crossed \/ Fits(exec[x].told.pain, exec[x].told.offer)

FitInv == PipeTypes /\ InChain /\ (\A x \in Execs : OfferFits(x)) /\ DraftFits

\* One execution keeps its lead and the order of the stages, or gives the lead up.
LEMMA ChainKept ==
  ASSUME PipeTypes, InChain, NEW x \in Execs, NEW e, exec' = [exec EXCEPT ![x] = e],
         e.lead = None \/ e.todo \in Remainders
  PROVE  InChain'
  BY DEF InChain, PipeTypes

\* What is true of an execution stays true if it does not move, and is crossed or
\* keeps the pain and the offer of its lead.
LEMMA FitsOn ==
  ASSUME NEW y, OfferFits(y), exec'[y] = exec[y],
         \/ y \in crossed'
         \/ exec[y].lead = None
         \/ /\ y \notin crossed
            /\ prospect'[exec[y].lead].pain = prospect[exec[y].lead].pain
            /\ prospect'[exec[y].lead].offer = prospect[exec[y].lead].offer
  PROVE  OfferFits(y)'
  BY DEF OfferFits, Fits, Stage

\* What follows a stage.
LEMMA After ==
  ASSUME NEW q \in Remainders, Len(q) # 1
  PROVE  /\ Tail(q) \in Remainders /\ Tail(q) # <<>>
         /\ Head(Tail(q)) = "draft" => Head(q) = "offer"
         /\ Head(Tail(q)) # "qualification"
<1>1. CASE q = <<"qualification", "enrichment", "audit", "offer", "draft">>
  BY <1>1 DEF Remainders
<1>2. CASE q = <<"enrichment", "audit", "offer", "draft">>
  BY <1>2 DEF Remainders
<1>3. CASE q = <<"audit", "offer", "draft">>
  BY <1>3 DEF Remainders
<1>4. CASE q = <<"offer", "draft">>
  BY <1>4 DEF Remainders
<1>5. CASE q = <<"draft">>
  BY <1>5
<1> QED
  BY <1>1, <1>2, <1>3, <1>4, <1>5 DEF Remainders

LEMMA RepeatedFields ==
  ASSUME NEW e, Working(e), NEW at
  PROVE  \/ Repeated(e, at) = Unused
         \/ /\ Repeated(e, at).lead = e.lead /\ Repeated(e, at).todo = e.todo
            /\ Repeated(e, at).at = at /\ Repeated(e, at).told = e.told
  BY DEF Repeated, Working, Holdings

\* A step of an execution.
LEMMA FitExec ==
  ASSUME PipeTypes, InChain, \A y \in Execs : OfferFits(y), DraftFits, PipeTypes',
         NEW x \in Execs, ExecStep(x)
  PROVE  InChain' /\ (\A y \in Execs : OfferFits(y)') /\ DraftFits'
<1> DEFINE l == exec[x].lead
           s == Stage(x)
           Told == [pain |-> prospect[l].pain, offer |-> prospect[l].offer,
                    crossed |-> x \in crossed]
<1>1. l # None
  BY DEF ExecStep, Context, ContextRefused, ModelFails, Load, LoadRefused, LoadRaises, Store
<1>2. /\ Working(exec[x]) /\ exec[x] \in Holdings /\ l \in Prospects /\ s \in Stages
      /\ exec[x].at = "store" => exec[x].answer \in Accepted(s)
      /\ exec[x].todo \in Remainders /\ OfferFits(x)
  BY <1>1, AtWork DEF InChain
\* The other executions, when pains and offers are left alone.
<1>3. ASSUME NEW e, exec' = [exec EXCEPT ![x] = e], crossed \subseteq crossed' \union {x},
             \A k \in Prospects : prospect'[k].pain = prospect[k].pain
                                  /\ prospect'[k].offer = prospect[k].offer,
             NEW y \in Execs \ {x}
      PROVE  OfferFits(y)'
  <2>1. exec'[y] = exec[y]
    BY <1>3 DEF PipeTypes
  <2>2. exec[y].lead # None => exec[y].lead \in Prospects
    BY AtWork
  <2> QED
    BY <1>3, <2>1, <2>2, FitsOn
<1>4. CASE Context(x)
  <2>1. PICK a \in Answers(s) :
          exec' = [exec EXCEPT ![x] =
                    [exec[x] EXCEPT !.at = "apply", !.tries = 0, !.answer = a, !.told = Told]]
    BY <1>4 DEF Context
  <2> DEFINE e == [exec[x] EXCEPT !.at = "apply", !.tries = 0, !.answer = a, !.told = Told]
  <2>2. /\ e.lead = l /\ e.todo = exec[x].todo /\ e.at = "apply" /\ e.told = Told
        /\ Told.crossed = (x \in crossed)
        /\ Told.pain = prospect[l].pain /\ Told.offer = prospect[l].offer
    BY <1>2 DEF Holdings
  <2>3. exec' = [exec EXCEPT ![x] = e] /\ exec'[x] = e
    BY <1>2, <2>1 DEF PipeTypes
  <2> HIDE DEF e, Told
  <2>4. prospect' = prospect /\ drafts' = drafts /\ crossed' = crossed
    BY <1>4 DEF Context
  <2>5. InChain'
    BY <1>2, <2>2, <2>3, ChainKept
  <2>6. OfferFits(x)'
    BY <1>1, <1>2, <2>2, <2>3, <2>4 DEF OfferFits, Stage, Fits
  <2> QED
    BY <1>3, <2>3, <2>4, <2>5, <2>6 DEF DraftFits
<1>5. ASSUME NEW at, NEW e, e = Unused \/ e = Repeated(exec[x], at), at \in {"context", "apply"},
             exec' = [exec EXCEPT ![x] = e], at = "apply" => exec[x].at = "apply",
             \A k \in Prospects : prospect'[k].pain = prospect[k].pain
                                  /\ prospect'[k].offer = prospect[k].offer,
             crossed' = crossed, drafts' = drafts
      PROVE  InChain' /\ (\A y \in Execs : OfferFits(y)') /\ DraftFits'
  <2>1. \/ e.lead = None
        \/ e.lead = l /\ e.todo = exec[x].todo /\ e.at = at /\ e.told = exec[x].told
    BY <1>2, <1>5, RepeatedFields, UnusedHolds
  <2>2. exec'[x] = e
    BY <1>5 DEF PipeTypes
  <2>3. InChain'
    BY <1>2, <1>5, <2>1, ChainKept
  <2>4. OfferFits(x)'
    BY <1>1, <1>2, <1>5, <2>1, <2>2 DEF OfferFits, Stage, Fits
  <2>5. \A y \in Execs \ {x} : OfferFits(y)'
    BY <1>3, <1>5
  <2> QED
    BY <1>5, <2>3, <2>4, <2>5 DEF DraftFits
<1>6. CASE ContextRefused(x)
  <2>1. \A k \in Prospects : prospect'[k].pain = prospect[k].pain
                             /\ prospect'[k].offer = prospect[k].offer
    BY <1>2, <1>6, FlagTyped DEF ContextRefused, Reasons
  <2> QED
    BY <1>5, <1>6, <2>1 DEF ContextRefused, Refuse
<1>6a. CASE ModelFails(x)
  BY <1>5, <1>6a DEF ModelFails
<1>7. CASE LoadRefused(x)
  <2>1. \A k \in Prospects : prospect'[k].pain = prospect[k].pain
                             /\ prospect'[k].offer = prospect[k].offer
    <3>1. CASE UNCHANGED prospect
      BY <3>1
    <3>2. CASE Fault(s, l, exec[x].answer) # None /\ FlagReview(l, Fault(s, l, exec[x].answer))
      <4>1. exec[x].answer \in Answers(s)
        BY <1>1, <1>7, AtWork DEF LoadRefused
      <4>2. Fault(s, l, exec[x].answer) \in Reasons
        BY <1>2, <3>2, <4>1, FaultReason, PipelineAssumption
      <4> QED
        BY <1>2, <3>2, <4>2, FlagTyped
    <3> QED
      BY <1>7, <3>1, <3>2 DEF LoadRefused
  <2> QED
    BY <1>5, <1>7, <2>1 DEF LoadRefused, RefuseAnswer
<1>7a. CASE LoadRaises(x)
  BY <1>5, <1>7a DEF LoadRaises, RefuseAnswer
<1>8. CASE Load(x)
  <2> DEFINE d == [pain |-> prospect[l].pain, reasons |-> prospect[l].reasons]
             e == [exec[x] EXCEPT !.at = "store", !.loaded = d]
  <2>1. /\ e.lead = l /\ e.todo = exec[x].todo /\ e.at = "store"
        /\ e.told = exec[x].told /\ e.answer = exec[x].answer
    BY <1>2 DEF Holdings
  <2>2. exec' = [exec EXCEPT ![x] = e] /\ exec'[x] = e
    BY <1>2, <1>8 DEF Load, PipeTypes
  <2> HIDE DEF e
  <2>3. /\ prospect' = prospect /\ drafts' = drafts
        /\ exec[x].at = "apply" /\ Fault(s, l, exec[x].answer) = None
        /\ crossed' = IF s = "offer" THEN crossed \ {x} ELSE crossed
    BY <1>8 DEF Load
  <2>4. InChain'
    BY <1>2, <2>1, <2>2, ChainKept
  <2>5. exec[x].answer \in Answers(s)
    BY <1>1, <2>3, AtWork
  <2>6. s = "offer" => Fits(prospect[l].pain, exec[x].answer)
    <3>1. CASE s = "offer"
      BY <2>3, <2>5, <3>1, PipelineAssumption DEF Fault, Fits, Answers, Reasons
    <3> QED
      BY <3>1
  <2>7. OfferFits(x)'
    BY <1>1, <1>2, <2>1, <2>2, <2>3, <2>6 DEF OfferFits, Stage, Fits
  <2> QED
    BY <1>3, <2>2, <2>3, <2>4, <2>7 DEF DraftFits
<1>9. ASSUME NEW outcome \in {"answered", "unheard", "broken"}, Store(x, outcome)
      PROVE  InChain' /\ (\A y \in Execs : OfferFits(y)') /\ DraftFits'
  <2> DEFINE a == exec[x].answer
             p == Stored1(prospect[l], s, a, exec[x].loaded)
             e == Went(x, outcome)
  <2>1. /\ exec[x].at = "store" /\ prospect' = [prospect EXCEPT ![l] = p]
        /\ drafts' = drafts \/ drafts' = WithDraft(x, s)
        /\ exec' = [exec EXCEPT ![x] = e] /\ crossed' = Crossing(x)
    BY <1>9 DEF Store
  <2>2. \/ e.lead = None
        \/ /\ e.lead = l /\ e.todo = exec[x].todo /\ e.at = "apply" /\ e.told = exec[x].told
        \/ /\ e.lead = l /\ e.todo = Tail(exec[x].todo) /\ e.at = "context"
           /\ Len(exec[x].todo) # 1
    <3>1. CASE outcome # "answered"
      BY <1>2, <3>1, RepeatedFields, UnusedHolds DEF Went
    <3>2. CASE outcome = "answered"
      BY <3>2, UnusedHolds DEF Went, Unused
    <3> QED
      BY <3>1, <3>2
  <2>3. /\ p.offer = prospect[l].offer \/ s = "offer"
        /\ p.pain = prospect[l].pain \/ s = "audit"
        /\ s = "offer" => p.offer = a
    <3>1. exec[x].loaded.reasons \subseteq Reasons /\ prospect[l] \in Records
      BY <1>2 DEF Holdings, PipeTypes
    <3> QED
      BY <1>2, <2>1, <3>1, StoredTyped
  <2> HIDE DEF p, e
  <2>4. exec'[x] = e /\ prospect'[l] = p /\ \A k \in Prospects \ {l} : prospect'[k] = prospect[k]
    BY <1>2, <2>1 DEF PipeTypes
  <2>5. e.lead = None \/ e.todo \in Remainders
    BY <1>2, <2>2, After
  <2>6. x \in crossed' <=> x \in crossed
    BY <2>1 DEF Crossing
  <2>7. InChain'
    BY <2>1, <2>5, ChainKept
  <2>8. OfferFits(x)'
    <3>1. CASE e.lead = None
      BY <2>4, <3>1 DEF OfferFits
    <3>2. CASE e.lead = l /\ e.todo = exec[x].todo /\ e.at = "apply" /\ e.told = exec[x].told
      BY <1>1, <1>2, <2>1, <2>3, <2>4, <2>6, <3>2 DEF OfferFits, Stage, Fits
    <3>3. CASE e.lead = l /\ e.todo = Tail(exec[x].todo) /\ e.at = "context"
               /\ Len(exec[x].todo) # 1
      <4>1. Stage(x)' = "draft" => s = "offer"
        BY <1>2, <2>4, <3>3, After DEF Stage
      <4>2. s = "offer" => x \in crossed \/ Fits(p.pain, p.offer)
        BY <1>1, <1>2, <2>1, <2>3 DEF OfferFits
      <4> QED
        BY <2>4, <2>6, <3>3, <4>1, <4>2 DEF OfferFits, Fits
    <3> QED
      BY <2>2, <3>1, <3>2, <3>3
  \* The other executions: of the same lead they are crossed where it matters.
  <2>9. ASSUME NEW y \in Execs \ {x} PROVE OfferFits(y)'
    <3>1. exec'[y] = exec[y] /\ (exec[y].lead # None => exec[y].lead \in Prospects)
      BY <2>1, AtWork DEF PipeTypes
    <3>2. CASE s \in {"audit", "offer"} /\ exec[y].lead = l
      BY <2>1, <3>1, <3>2, FitsOn DEF Crossing
    <3>3. CASE ~(s \in {"audit", "offer"} /\ exec[y].lead = l)
      <4>1. crossed \subseteq crossed'
        BY <2>1 DEF Crossing
      <4>2. exec[y].lead # None =>
              /\ prospect'[exec[y].lead].pain = prospect[exec[y].lead].pain
              /\ prospect'[exec[y].lead].offer = prospect[exec[y].lead].offer
        BY <2>3, <2>4, <3>1, <3>3
      <4> QED
        BY <3>1, <4>1, <4>2, FitsOn
    <3> QED
      BY <3>2, <3>3
  <2>10. DraftFits'
    <3>1. \A d \in drafts' : d \in drafts \/ (s = "draft" /\ d.told = exec[x].told)
      BY <2>1 DEF WithDraft
    <3>2. s = "draft" => exec[x].told.crossed \/ Fits(exec[x].told.pain, exec[x].told.offer)
      BY <1>1, <1>2, <2>1 DEF OfferFits
    <3> QED
      BY <3>1, <3>2 DEF DraftFits, Fits
  <2> QED
    BY <2>7, <2>8, <2>9, <2>10
<1> QED
  BY <1>4, <1>6, <1>6a, <1>7, <1>7a, <1>8, <1>9 DEF ExecStep

LEMMA FitInit == PipelineAssumption /\ PipeInit => FitInv
<1> SUFFICES ASSUME PipelineAssumption, PipeInit PROVE FitInv
  OBVIOUS
<1>1. PipeTypes
  BY PipeTypesInit
<1>2. drafts = {} /\ \A x \in Execs : exec[x].lead = None
  BY UnusedHolds DEF PipeInit
<1> QED
  BY <1>1, <1>2 DEF FitInv, InChain, OfferFits, DraftFits

LEMMA FitStep == AsInFile /\ PipelineAssumption /\ FitInv /\ [PipeNext]_pipeVars => FitInv'
<1> SUFFICES ASSUME AsInFile, PipelineAssumption, FitInv, [PipeNext]_pipeVars PROVE FitInv'
  OBVIOUS
<1>0. PipeTypes /\ InChain /\ (\A x \in Execs : OfferFits(x)) /\ DraftFits /\ PipeTypes'
  BY PipeTypesStep DEF FitInv
<1> DEFINE Kept == InChain' /\ (\A x \in Execs : OfferFits(x)') /\ DraftFits'
\* Steps that move no execution.
<1>1. ASSUME exec' = exec, drafts' = drafts, crossed' = crossed,
             \A k \in Prospects : prospect'[k].pain = prospect[k].pain
                                  /\ prospect'[k].offer = prospect[k].offer
      PROVE  Kept
  <2>1. \A x \in Execs : exec[x].lead # None => exec[x].lead \in Prospects
    BY <1>0, AtWork
  <2>2. \A x \in Execs : OfferFits(x)'
    BY <1>0, <1>1, <2>1, FitsOn
  <2> QED
    BY <1>0, <1>1, <2>2 DEF InChain, DraftFits
<1>2. ASSUME NEW l \in Prospects, RequestQualification(l) PROVE Kept
  BY <1>1, <1>2 DEF RequestQualification
<1>3. ASSUME NEW l \in Prospects, ClearReview(l) PROVE Kept
  <2>1. \A k \in Prospects : prospect'[k].pain = prospect[k].pain
                             /\ prospect'[k].offer = prospect[k].offer
    <3>1. prospect[l] \in Records
      BY <1>0 DEF PipeTypes
    <3>2. prospect' = [prospect EXCEPT ![l] = [prospect[l] EXCEPT !.reasons = {}]]
      BY <1>3 DEF ClearReview
    <3> QED
      BY <1>0, <3>1, <3>2 DEF PipeTypes, Records
  <2> QED
    BY <1>1, <1>3, <2>1 DEF ClearReview
<1>4. ASSUME Unheard PROVE Kept
  BY <1>1, <1>4 DEF Unheard
<1>5. ASSUME NEW x \in Execs, SplitsNothing(x) PROVE Kept
  BY <1>4, <1>5 DEF SplitsNothing
<1>6. ASSUME NEW x \in Execs, Notified(x) PROVE Kept
  <2> DEFINE e == Head(outbox)
             f == [Unused EXCEPT !.lead = e.lead, !.todo = Branch[e.stage]]
             r == IF Branch[e.stage] = <<>> THEN Unused ELSE f
  <2>1. /\ outbox # <<>> /\ exec' = [exec EXCEPT ![x] = r]
        /\ prospect' = prospect /\ drafts' = drafts /\ crossed' = crossed
    BY <1>6 DEF Notified
  <2>2. e \in Rows
    BY <1>0, <2>1 DEF PipeTypes
  <2>2a. e.stage \in Stages
    BY <2>2 DEF Rows
  <2>3. \/ r = Unused
        \/ /\ r.at = "context"
           /\ r.todo = <<"qualification", "enrichment", "audit", "offer", "draft">>
    BY <2>2a DEF AsInFile, Unused
  <2> HIDE DEF r
  <2>4. exec'[x] = r /\ \A y \in Execs \ {x} : exec'[y] = exec[y]
    BY <1>0, <2>1 DEF PipeTypes
  <2>5. r.lead = None \/ r.todo \in Remainders
    BY <2>3, UnusedHolds DEF Remainders
  <2>6. InChain'
    BY <1>0, <2>1, <2>5, ChainKept
  <2>7. OfferFits(x)'
    BY <2>3, <2>4, UnusedHolds DEF OfferFits, Stage
  <2>8. \A y \in Execs \ {x} : OfferFits(y)'
    BY <1>0, <2>1, <2>4, FitsOn
  <2> QED
    BY <1>0, <2>1, <2>6, <2>7, <2>8 DEF DraftFits
<1>7. ASSUME UNCHANGED pipeVars PROVE Kept
  <2>1. exec' = exec /\ drafts' = drafts /\ crossed' = crossed /\ prospect' = prospect
    BY <1>7 DEF pipeVars
  <2> QED
    BY <1>1, <2>1
<1>8. ASSUME NEW x \in Execs, ExecStep(x) PROVE Kept
  BY <1>0, <1>8, FitExec
<1> QED
  BY <1>0, <1>2, <1>3, <1>4, <1>5, <1>6, <1>7, <1>8 DEF PipeNext, FitInv

\* Hard rule 4 at the end of the chain: with the stages in the workflow's order,
\* a draft is written from an offer that answers the pain it was written from,
\* whatever is refused, repeated, broken or lost, for any number of runs of a
\* lead at once, unless another of them stored a pain or an offer after this one
\* checked its own.
THEOREM DraftAnswersPain == AsInFile => (PipeSpec => []DraftFits)
<1> SUFFICES ASSUME AsInFile PROVE PipeSpec => []DraftFits
  OBVIOUS
<1>1. PipeInit => FitInv
  BY PipelineAssumption, FitInit
<1>2. FitInv /\ [PipeNext]_pipeVars => FitInv'
  BY PipelineAssumption, FitStep
<1>3. FitInv => DraftFits
  BY DEF FitInv
<1> QED
  BY <1>1, <1>2, <1>3, PTL DEF PipeSpec

=============================================================================
