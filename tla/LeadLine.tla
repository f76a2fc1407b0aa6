------------------------------ MODULE LeadLine ------------------------------
(* The status of a lead and everything that writes it: the guarded           *)
(* transition() of services/state_machine.py, called by routers/leads.py and  *)
(* services/pipeline.py; the dispositions of the dialer                       *)
(* (services/twilio_service.py); and the kill switch of a reply               *)
(* (services/email_service.py), which reads the status in one statement and   *)
(* writes it in another.  With it the suppression list, which must keep a     *)
(* company that declined from being dialled again, and the calls with         *)
(* Twilio's callbacks.                                                        *)
EXTENDS Naturals, FiniteSets

CONSTANTS Leads, Companies, CompanyOf,   \* CompanyOf[l]: the company of lead l
          Numbers, PhoneOf,              \* PhoneOf[c]: a number in canonical form
          Spellings, Canonical,          \* how a request may write a number
          Calls,                         \* calls Twilio may be asked for
          Desks,                         \* API workers that take requests
          NoLead

ASSUME LeadAssumption ==
  /\ CompanyOf \in [Leads -> Companies]
  /\ PhoneOf \in [Companies -> Numbers]
  /\ Canonical \in [Spellings -> Numbers]
  /\ NoLead \notin Leads
  /\ Companies \intersect Numbers = {}

VARIABLES
  leadStatus,   \* leads.status, "absent" before the row exists
  suppressed,   \* values of the suppression list, scopes company and phone
  declined,     \* history: companies for which do_not_call was decided
  overtaken,    \* history: calls whose company declined after their check
  desk,         \* what each worker has read and not written yet
  call          \* calls: Twilio's side, the row, and what is known of the duration

leadVars == <<leadStatus, suppressed, declined, overtaken, desk, call>>
listVars == <<suppressed, declined, overtaken>>

-----------------------------------------------------------------------------
(* services/state_machine.py                                                *)

Edge == [
  new |-> {"enriching", "rejected"},
  enriching |-> {"qualified", "signal_holding", "outreach_ready", "rejected"},
  qualified |-> {"signal_holding", "outreach_ready", "contacted", "rejected"},
  signal_holding |-> {"outreach_ready", "qualified", "archived", "expired_rejected"},
  outreach_ready |-> {"contacted", "rejected"},
  contacted |-> {"responded", "contacted", "unreachable", "archived"},
  responded |-> {"qualified_conversation", "lost", "archived"},
  qualified_conversation |-> {"meeting_booked", "lost"},
  meeting_booked |-> {"meeting_held", "meeting_booked", "lost"},
  meeting_held |-> {"proposal", "won", "lost"},
  proposal |-> {"won", "lost"},
  won |-> {}, lost |-> {"archived"}, rejected |-> {}, do_not_call |-> {},
  unreachable |-> {"archived"}, archived |-> {}]

Statuses == DOMAIN Edge

\* do_not_call is added to every row but four.
CanTransition(s, t) ==
  /\ s \in Statuses
  /\ \/ t \in Edge[s]
     \/ t = "do_not_call" /\ s \notin {"won", "rejected", "do_not_call", "archived"}

\* The statuses the table's CHECK admits: every row of the map, and no other.
Stored == Statuses

\* An UPDATE ... WHERE status = the status read: it applies or changes nothing,
\* and a status the CHECK refuses aborts it.
Guarded(l, t) ==
  /\ CanTransition(leadStatus[l], t) /\ t \in Stored
  /\ leadStatus' = [leadStatus EXCEPT ![l] = t]

-----------------------------------------------------------------------------
Idle == [op |-> "none", lead |-> NoLead, read |-> "absent"]
NoCall == [twilio |-> "none", lead |-> NoLead, row |-> FALSE, time |-> "zero", last |-> "none"]

LeadInit ==
  /\ leadStatus = [l \in Leads |-> "absent"]
  /\ suppressed = {}
  /\ declined = {}
  /\ overtaken = {}
  /\ desk = [d \in Desks |-> Idle]
  /\ call = [k \in Calls |-> NoCall]

Known(c) == \E l \in Leads : leadStatus[l] # "absent" /\ CompanyOf[l] = c

\* create_lead looks for a lead of the company and inserts one afterwards: two
\* requests at once create two leads of one company.
LookUp(d, l) ==
  /\ desk[d] = Idle /\ leadStatus[l] = "absent" /\ ~Known(CompanyOf[l])
  /\ \A e \in Desks : desk[e].lead # l
  /\ desk' = [desk EXCEPT ![d] = [op |-> "create", lead |-> l, read |-> "absent"]]
  /\ UNCHANGED <<leadStatus, listVars, call>>

Create(d) ==
  /\ desk[d].op = "create"
  /\ leadStatus' = [leadStatus EXCEPT ![desk[d].lead] = "new"]
  /\ desk' = [desk EXCEPT ![d] = Idle]
  /\ UNCHANGED <<listVars, call>>

\* A rejected or qualified score, a pipeline stage: score_lead and
\* apply_qualification move a new lead, apply_enrichment one that is enriching.
\* score_lead's 'qualified' is no edge from 'new' and is dropped.
Scored(l) ==
  /\ \/ leadStatus[l] = "new" /\ Guarded(l, "rejected")
     \/ leadStatus[l] = "new" /\ Guarded(l, "enriching")
     \/ leadStatus[l] = "enriching" /\ Guarded(l, "qualified")
  /\ UNCHANGED <<listVars, desk, call>>

\* What a do_not_call adds to the list.
Entries(c) == {c, PhoneOf[c]}

\* A company declines, whatever calls are between their check and Twilio.
Decline(c) ==
  /\ suppressed' = suppressed \union Entries(c)
  /\ declined' = declined \union {c}
  /\ overtaken' = overtaken \union
       {k \in Calls : call[k].twilio = "checked" /\ CompanyOf[call[k].lead] = c}

\* transition_lead: the move and its suppressions are one transaction.
TransitionLead(l, t) ==
  /\ Guarded(l, t)
  /\ IF t = "do_not_call" THEN Decline(CompanyOf[l]) ELSE UNCHANGED listVars
  /\ UNCHANGED <<desk, call>>

-----------------------------------------------------------------------------
(* Replies                                                                  *)

\* Variant: the table is not asked.
ReplyReadAny(d, l) ==
  /\ desk[d] = Idle /\ leadStatus[l] \in Statuses
  /\ desk' = [desk EXCEPT ![d] = [op |-> "reply", lead |-> l, read |-> leadStatus[l]]]
  /\ UNCHANGED <<leadStatus, listVars, call>>

\* kill_switch reads the status ...
ReplyRead(d, l) ==
  /\ desk[d] = Idle /\ CanTransition(leadStatus[l], "responded")
  /\ desk' = [desk EXCEPT ![d] = [op |-> "reply", lead |-> l, read |-> leadStatus[l]]]
  /\ UNCHANGED <<leadStatus, listVars, call>>

\* ... and writes it by id only.
ReplyWrite(d) ==
  /\ desk[d].op = "reply"
  /\ leadStatus' = [leadStatus EXCEPT ![desk[d].lead] = "responded"]
  /\ desk' = [desk EXCEPT ![d] = Idle]
  /\ UNCHANGED <<listVars, call>>

-----------------------------------------------------------------------------
(* The dialer                                                               *)

\* Variant: the company is forgotten, only the number is looked up.
PassesByNumber(l, n) == Canonical[n] \notin suppressed

\* suppression.check with the company of the lead and the canonical number.
Passes(l, n) == CompanyOf[l] \notin suppressed /\ Canonical[n] \notin suppressed

\* place_call asks the suppression list first, in a transaction of its own ...
Check(k, l, n) ==
  /\ call[k].twilio = "none" /\ leadStatus[l] # "absent"
  /\ Passes(l, n)
  /\ call' = [call EXCEPT ![k].twilio = "checked", ![k].lead = l]
  /\ UNCHANGED <<leadStatus, listVars, desk>>

\* ... and then Twilio, for the call.
Dial(k) ==
  /\ call[k].twilio = "checked"
  /\ call' = [call EXCEPT ![k].twilio = "live"]
  /\ UNCHANGED <<leadStatus, listVars, desk>>

\* No credentials, no caller id, or Twilio refuses.
DialRefused(k) ==
  /\ call[k].twilio = "checked"
  /\ call' = [call EXCEPT ![k] = NoCall]
  /\ overtaken' = overtaken \ {k}
  /\ UNCHANGED <<leadStatus, suppressed, declined, desk>>

WithTwilio(k) == call[k].twilio \in {"live", "ended"}

\* The INSERT of the row, which a callback may have overtaken.
RecordCall(k) ==
  /\ WithTwilio(k) /\ ~call[k].row
  /\ call' = [call EXCEPT ![k].row = TRUE]
  /\ UNCHANGED <<leadStatus, listVars, desk>>

\* A callback finds the row by its sid, or nothing.
Callback(k, twilio, time, last) ==
  /\ WithTwilio(k)
  /\ call' = [call EXCEPT ![k].twilio = twilio,
                          ![k].time = IF call[k].row THEN time ELSE @,
                          ![k].last = IF call[k].row THEN last ELSE @]
  /\ UNCHANGED <<leadStatus, listVars, desk>>

\* A callback without a duration, or with 0: the call was initiated or answered,
\* nobody took it, its recording is ready.  It may come late and again, and
\* stores 0.
Silent(k) == Callback(k, call[k].twilio, "zero", "silent")

\* The callback of the end of a conversation, and its repetitions.
Completed(k) == Callback(k, "ended", "billed", "reported")

\* Variant: the estimate replaces whatever is there.
ElapsedAlways(time) == "guessed"

\* COALESCE(NULLIF(duration, 0), the time since the call was placed).
Elapsed(time) == IF time = "zero" THEN "guessed" ELSE time

\* _suppress_lead: the list first, then the status if the table has the edge.
\* set_disposition has updated the lead before, and so holds its row's lock.
Disposition(k, dnc) ==
  LET l == call[k].lead IN
  /\ call[k].row
  /\ call' = [call EXCEPT ![k].time = Elapsed(@)]
  /\ IF dnc
       THEN /\ Decline(CompanyOf[l])
            /\ leadStatus' = IF CanTransition(leadStatus[l], "do_not_call")
                               THEN [leadStatus EXCEPT ![l] = "do_not_call"]
                               ELSE leadStatus
       ELSE UNCHANGED <<listVars, leadStatus>>
  /\ UNCHANGED desk

-----------------------------------------------------------------------------
DeskStep(d) ==
  \/ \E l \in Leads : LookUp(d, l) \/ ReplyRead(d, l)
  \/ Create(d)
  \/ ReplyWrite(d)

CallStep(k) ==
  \/ \E l \in Leads, n \in Spellings : Check(k, l, n)
  \/ Dial(k) \/ DialRefused(k) \/ RecordCall(k) \/ Silent(k) \/ Completed(k)
  \/ \E dnc \in BOOLEAN : Disposition(k, dnc)

LeadNext ==
  \/ \E d \in Desks : DeskStep(d)
  \/ \E k \in Calls : CallStep(k)
  \/ \E l \in Leads : Scored(l) \/ \E t \in Statuses : TransitionLead(l, t)

LeadSpec == LeadInit /\ [][LeadNext]_leadVars

-----------------------------------------------------------------------------
(* Properties                                                               *)

LeadTypeOK ==
  /\ leadStatus \in [Leads -> Statuses \union {"absent"}]
  /\ suppressed \subseteq Companies \union Numbers
  /\ declined \subseteq Companies
  /\ overtaken \subseteq Calls
  /\ desk \in [Desks -> [op : {"none", "create", "reply"}, lead : Leads \union {NoLead},
                         read : Statuses \union {"absent"}]]
  /\ call \in [Calls -> [twilio : {"none", "checked", "live", "ended"},
                         lead : Leads \union {NoLead}, row : BOOLEAN,
                         time : {"zero", "guessed", "billed"},
                         last : {"none", "silent", "reported"}]]

\* The writers together take a lead along edges of the table only, but for one:
\* a reply takes a lead to 'responded' that has left the status it was read in,
\* be it for do_not_call.  Whatever writes by id but a reply that was overtaken
\* in this way still has its edge.
LeadEdges ==
  [][\A l \in Leads :
       leadStatus[l] \in Statuses /\ leadStatus'[l] # leadStatus[l]
         => \/ CanTransition(leadStatus[l], leadStatus'[l])
            \/ /\ leadStatus'[l] = "responded"
               /\ \E d \in Desks : /\ desk[d].op = "reply" /\ desk[d].lead = l
                                   /\ desk[d].read # leadStatus[l]]_leadVars

\* A company that declined, through whichever of its leads and whether or not
\* the lead's status could still change, is not dialled again: not through a
\* second lead, not with its number written in another way, not after its lead
\* came back from do_not_call.  Only a call that had passed the check before the
\* company declined is still made.
DeclinedNotDialed ==
  [][\A k \in Calls :
       call[k].twilio = "checked" /\ call'[k].twilio = "live" =>
         (CompanyOf[call[k].lead] \in declined => k \in overtaken)]_leadVars

\* The row has the duration Twilio reported exactly if the last callback that
\* found the row carried one: no disposition replaces it, before or after, and
\* no repetition; the recording's callback and a late one do.
DurationAsReported ==
  \A k \in Calls : call[k].time = "billed" <=> call[k].last = "reported"

=============================================================================
