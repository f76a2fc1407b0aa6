-------------------------- MODULE OutboundScheduler --------------------------
(* The outbound scheduler (services/scheduler.py): ticks that read the        *)
(* mailboxes' capacity, the eligible messages and the pause switches, and then *)
(* give the messages to mailboxes, one transaction each; beside them, the      *)
(* operators who pause and resume (routers/scheduler.py,                       *)
(* routers/control_plane.py, services/flags.py), the follow-ups of a sequence  *)
(* and their cancellation (services/sequences.py), and the health of the       *)
(* mailboxes, whose computation is in module Scoring.                          *)
EXTENDS Rounding, SequencesExt, FiniteSets

CONSTANTS ByPriority,            \* all messages, in the order of the queue
          OutLeadOf, CampaignOf,    \* of a message
          FollowUps,             \* the messages that a sequence adds
          Hot,                   \* messages of leads of tier A or A+
          Boxes, DomainOf,       \* mailboxes, and the domain each sends from
          DailyLimit, SentToday, \* per mailbox; nothing in src/ writes sent_today
          DomainCap,             \* per domain
          MinNew, NewPct, FollowPct,  \* the flag campaign_allocation
          Tickers, Operators,
          NoBox, NoTarget,
          Pausable,              \* the targets operators pause in an instance
          HealthSeen, ModesUsed  \* the health states and modes it goes through

OutMessages == ToSet(ByPriority)
OutLeads == {OutLeadOf[m] : m \in OutMessages}
Domains == {DomainOf[b] : b \in Boxes}
Campaigns == {CampaignOf[m] : m \in OutMessages}
Targets == {"all", "followups"} \union Boxes \union Domains \union Campaigns
HEALTH_MULTIPLIER ==
  [healthy |-> 100, normal |-> 90, reduced |-> 60, restricted |-> 25, paused |-> 0]
Health == DOMAIN HEALTH_MULTIPLIER

ASSUME SchedulerAssumption ==
  /\ ByPriority \in Seq(OutMessages)
  /\ \A i, j \in DOMAIN ByPriority : ByPriority[i] = ByPriority[j] => i = j
  /\ FollowUps \subseteq OutMessages /\ Hot \subseteq OutMessages
  /\ IsFiniteSet(Boxes)
  /\ DailyLimit \in [Boxes -> Nat] /\ SentToday \in [Boxes -> Nat]
  /\ DomainCap \in [Domains -> Nat]
  /\ MinNew \in Nat /\ NewPct \in 0..100 /\ FollowPct \in 0..100
  /\ {"all", "followups"} \intersect (Boxes \union Domains \union Campaigns) = {}
  /\ NoTarget \notin Targets
  /\ Pausable \subseteq Targets /\ HealthSeen \subseteq Health
  /\ ModesUsed \subseteq {"shadow", "hybrid"}

VARIABLES
  msg,        \* outbound_messages: status, assigned_mailbox_id, shadow
  health,     \* mailboxes.health_state
  over,       \* leads that replied, closed or are suppressed
  switches,   \* the flag kill_switches: what it stops
  own,        \* flags of their own name, meant to stop something: no tick reads them
  modes,      \* the flags shadow_mode and approval_mode
  operator,   \* operators between their read and their write of kill_switches;
              \* missed, history: what was paused meanwhile
  stopped,    \* history: targets whose pause was answered, and neither resumed nor
              \* missed by an operator who wrote after it
  tick        \* ticks under way

outVars == <<msg, health, over, switches, own, modes, operator, stopped, tick>>

-----------------------------------------------------------------------------
Effective(b) == RoundDiv(DailyLimit[b] * HEALTH_MULTIPLIER[health[b]], 100)

\* What was sent today from a domain: of each of its mailboxes, the 1st, 2nd, ...
SentFrom(d) ==
  Cardinality(UNION {{b} \X (1..SentToday[b]) : b \in {c \in Boxes : DomainOf[c] = d}})

Off == [at |-> "off", eff |-> [b \in Boxes |-> 0], room |-> [b \in Boxes |-> 0],
        domRoom |-> [d \in Domains |-> 0], queue |-> <<>>, stops |-> {},
        shadow |-> FALSE, rested |-> {}, cut |-> {}, given |-> {}]

NotPausing == [target |-> NoTarget, on |-> FALSE, read |-> {}, missed |-> {}]

OutInit ==
  /\ msg = [m \in OutMessages |->
              [status |-> IF m \in FollowUps THEN "absent" ELSE "queued",
               box |-> NoBox, shadow |-> FALSE]]
  /\ health = [b \in Boxes |-> "healthy"]
  /\ over = {} /\ switches = {} /\ own = {} /\ modes = {}
  /\ operator = [o \in Operators |-> NotPausing]
  /\ stopped = {}
  /\ tick = [t \in Tickers |-> Off]

-----------------------------------------------------------------------------
(* A tick                                                                   *)

\* get_daily_capacity.
Capacity(t) ==
  /\ tick[t].at = "off"
  /\ tick' = [tick EXCEPT ![t] =
       [Off EXCEPT !.at = "capacity",
                   !.eff = [b \in Boxes |-> Effective(b)],
                   !.room = [b \in Boxes |-> Less(Effective(b), SentToday[b])],
                   !.domRoom = [d \in Domains |-> Less(DomainCap[d], SentFrom(d))]]]
  /\ UNCHANGED <<msg, health, over, switches, own, modes, operator, stopped>>

\* Variant: whatever has not been sent.
EligibleUnsent(m) == msg[m].status \in {"queued", "scheduled", "cancelled"} /\ ~msg[m].shadow

\* get_eligible_messages.  A scheduled message is eligible again, and takes
\* capacity again.  eligible_at and deadline are left to when a message appears.
Eligible(m) == msg[m].status \in {"queued", "scheduled"} /\ ~msg[m].shadow

Take(s, n) == SubSeq(s, 1, IF Len(s) < n THEN Len(s) ELSE n)

\* The messages of S in the order of the queue: one sequence.
QueueOrders(S) ==
  {q \in [1..Cardinality(S) -> S] : \A i, j \in DOMAIN q : i < j =>
     \E k, n \in DOMAIN ByPriority : k < n /\ ByPriority[k] = q[i] /\ ByPriority[n] = q[j]}

\* campaign_allocation_filter of n messages: new prospects first, each kind up to
\* its share.
Allowed(n, new, old) ==
  Take(new, Larger(MinNew, RoundDiv(n * NewPct, 100)))
    \o Take(old, Larger(1, RoundDiv(n * FollowPct, 100)))

Row(m) == [id |-> m, box |-> msg[m].box]

Fetch(t) ==
  LET found == {m \in OutMessages : Eligible(m)} IN
  /\ tick[t].at = "capacity"
  /\ \E new \in QueueOrders(found \ FollowUps), old \in QueueOrders(found \intersect FollowUps) :
       LET queue == Allowed(Cardinality(found), new, old)
       IN  tick' = [tick EXCEPT ![t].at = "fetched",
                                ![t].queue = [i \in DOMAIN queue |-> Row(queue[i])]]
  /\ UNCHANGED <<msg, health, over, switches, own, modes, operator, stopped>>

\* _get_kill_switches and _is_shadow_mode, once for the tick.
Switches(t) ==
  /\ tick[t].at = "fetched"
  /\ tick' = [tick EXCEPT ![t].at = "assign", ![t].stops = switches,
                          ![t].shadow = "shadow" \in modes, ![t].rested = stopped]
  /\ UNCHANGED <<msg, health, over, switches, own, modes, operator, stopped>>

\* _is_paused: by the message's mailbox of an earlier tick, not the next one.
IsPaused(e, stops) ==
  \/ "all" \in stops
  \/ "followups" \in stops /\ e.id \in FollowUps
  \/ e.box \in stops
  \/ CampaignOf[e.id] \in stops

\* Variant: room is not asked.
CandidatesAny(t) == {b \in Boxes : tick[t].domRoom[DomainOf[b]] > 0}

Candidates(t) == {b \in Boxes : tick[t].room[b] > 0 /\ tick[t].domRoom[DomainOf[b]] > 0}

\* The mailboxes at the lowest share of their limit, of which one is drawn.
Best(t) ==
  {b \in Candidates(t) : \A c \in Candidates(t) :
     SentToday[b] * tick[t].eff[c] <= SentToday[c] * tick[t].eff[b]}

\* Variant: the drawn mailbox is not held against the switches.
StoppedNever(b, stops) == FALSE

\* The switches of the mailbox drawn and of its domain.
Stopped(b, stops) == b \in stops \/ DomainOf[b] \in stops

Pop(t) == [tick EXCEPT ![t].queue = Tail(tick[t].queue)]

\* A message that is paused, finds no mailbox, or draws one that is stopped is
\* deferred: nothing is written, another mailbox is not tried.
Defer(t) ==
  /\ tick[t].at = "assign" /\ tick[t].queue # <<>>
  /\ LET e == Head(tick[t].queue) IN
       \/ IsPaused(e, tick[t].stops)
       \/ Candidates(t) = {}
       \/ \E b \in Best(t) : Stopped(b, tick[t].stops)
  /\ tick' = Pop(t)
  /\ UNCHANGED <<msg, health, over, switches, own, modes, operator, stopped>>

\* _needs_approval, asked for each message.
NeedsApproval(m) == "hybrid" \in modes /\ m \in Hot

\* A tick whose first message took room of mailbox b and of its domain.
Charge(x, b) ==
  [x EXCEPT !.queue = Tail(x.queue),
            !.room = [x.room EXCEPT ![b] = Less(x.room[b], 1)],
            !.domRoom = [x.domRoom EXCEPT ![DomainOf[b]] = Less(x.domRoom[DomainOf[b]], 1)],
            !.given = x.given \union {[id |-> Head(x.queue).id, box |-> b]}]

\* The UPDATE by id, whatever the status has become since it was fetched.  The
\* shadow write takes no capacity.  'pending_approval' is no status the table's
\* CHECK admits: that write fails and ends the tick.
Assign(t, b) ==
  LET e == Head(tick[t].queue) IN
  /\ tick[t].at = "assign" /\ tick[t].queue # <<>>
  /\ ~IsPaused(e, tick[t].stops)
  /\ b \in Best(t) /\ ~Stopped(b, tick[t].stops)
  /\ \/ /\ tick[t].shadow
        /\ msg' = [msg EXCEPT ![e.id] = [status |-> "claimed", box |-> b, shadow |-> TRUE]]
        /\ tick' = Pop(t)
     \/ /\ ~tick[t].shadow /\ NeedsApproval(e.id)
        /\ tick' = [tick EXCEPT ![t] = Off]
        /\ UNCHANGED msg
     \/ /\ ~tick[t].shadow /\ ~NeedsApproval(e.id)
        /\ msg' = [msg EXCEPT ![e.id].status = "scheduled", ![e.id].box = b]
        /\ tick' = [tick EXCEPT ![t] = Charge(tick[t], b)]
  /\ UNCHANGED <<health, over, switches, own, modes, operator, stopped>>

Finish(t) ==
  /\ tick[t].at = "assign" /\ tick[t].queue = <<>>
  /\ tick' = [tick EXCEPT ![t] = Off]
  /\ UNCHANGED <<msg, health, over, switches, own, modes, operator, stopped>>

-----------------------------------------------------------------------------
(* Sequences                                                                *)

\* on_initial_sent adds the follow-ups of a message that was sent.  Sending
\* itself, and the word that it happened, come from outside src/.
AddFollowUp(m) ==
  /\ m \in FollowUps /\ msg[m].status = "absent"
  /\ \E i \in OutMessages \ FollowUps : OutLeadOf[i] = OutLeadOf[m] /\ msg[i].status = "scheduled"
  /\ msg' = [msg EXCEPT ![m].status = "queued"]
  /\ UNCHANGED <<health, over, switches, own, modes, operator, stopped, tick>>

\* The lead replies, reaches a closing status or is suppressed.
LeadOver(l) ==
  /\ l \notin over
  /\ over' = over \union {l}
  /\ UNCHANGED <<msg, health, switches, own, modes, operator, stopped, tick>>

\* check_followup_cancellation and _cancel.
CancelFollowUps(l) ==
  LET hit == {m \in FollowUps : OutLeadOf[m] = l /\ msg[m].status \in {"queued", "scheduled"}} IN
  /\ l \in over
  /\ msg' = [m \in OutMessages |->
               IF m \in hit THEN [msg[m] EXCEPT !.status = "cancelled"] ELSE msg[m]]
  /\ tick' = [t \in Tickers |->
               IF tick[t].queue = <<>> THEN tick[t]
               ELSE [tick[t] EXCEPT !.cut = tick[t].cut \union hit]]
  /\ UNCHANGED <<health, over, switches, own, modes, operator, stopped>>

\* mailbox_health's score may take a mailbox to any state.
HealthChange(b, h) ==
  /\ health' = [health EXCEPT ![b] = h]
  /\ UNCHANGED <<msg, over, switches, own, modes, operator, stopped, tick>>

-----------------------------------------------------------------------------
(* Pausing                                                                  *)

Granular == Boxes \union Domains \union Campaigns

\* S with x in it, or without it.
Put(S, x, on) == IF on THEN S \union {x} ELSE S \ {x}

\* A mailbox, domain or campaign: kill_switches is read ...
PauseRead(o, x, on) ==
  /\ operator[o] = NotPausing /\ x \in Granular
  /\ operator' = [operator EXCEPT ![o] = [NotPausing EXCEPT !.target = x, !.on = on, !.read = switches]]
  /\ UNCHANGED <<msg, health, over, switches, own, modes, stopped, tick>>

\* ... changed and written back whole, and the request answered.  What others
\* paused since the read is gone.
PauseWrite(o) ==
  LET r == operator[o]
      sees(p) == p # o /\ r.on /\ operator[p].target # NoTarget IN
  /\ r.target # NoTarget
  /\ switches' = Put(r.read, r.target, r.on)
  /\ operator' = [p \in Operators |->
       IF p = o THEN NotPausing
       ELSE IF sees(p) THEN [operator[p] EXCEPT !.missed = @ \union {r.target}] ELSE operator[p]]
  /\ stopped' = Put(stopped \ (r.missed \ r.read), r.target, r.on)
  /\ UNCHANGED <<msg, health, over, own, modes, tick>>

\* Everything, or all follow-ups: POST /control-plane/pause sets a flag of that
\* name, and not its key in kill_switches.
PauseOwn(x, on) ==
  /\ x \in {"all", "followups"}
  /\ own' = Put(own, x, on)
  /\ stopped' = Put(stopped, x, on)
  /\ UNCHANGED <<msg, health, over, switches, modes, operator, tick>>

SetMode(x) ==
  /\ modes' = IF x \in modes THEN modes \ {x} ELSE modes \union {x}
  /\ UNCHANGED <<msg, health, over, switches, own, operator, stopped, tick>>

-----------------------------------------------------------------------------
TickStep(t) ==
  \/ Capacity(t) \/ Fetch(t) \/ Switches(t) \/ Defer(t) \/ Finish(t)
  \/ \E b \in Boxes : Assign(t, b)

OutNext ==
  \/ \E t \in Tickers : TickStep(t)
  \/ \E m \in OutMessages : AddFollowUp(m)
  \/ \E l \in OutLeads : LeadOver(l) \/ CancelFollowUps(l)
  \/ \E b \in Boxes, h \in HealthSeen : HealthChange(b, h)
  \/ \E o \in Operators : PauseWrite(o) \/ \E x \in Pausable, on \in BOOLEAN : PauseRead(o, x, on)
  \/ \E x \in Pausable, on \in BOOLEAN : PauseOwn(x, on)
  \/ \E x \in ModesUsed : SetMode(x)

OutSpec == OutInit /\ [][OutNext]_outVars

-----------------------------------------------------------------------------
(* Properties                                                               *)

OutTypeOK ==
  /\ msg \in [OutMessages -> [status : {"absent", "queued", "scheduled", "claimed", "cancelled"},
                           box : Boxes \union {NoBox}, shadow : BOOLEAN]]
  /\ health \in [Boxes -> Health]
  /\ over \subseteq OutLeads
  /\ switches \subseteq Targets /\ stopped \subseteq Targets
  /\ own \subseteq {"all", "followups"} /\ modes \subseteq {"shadow", "hybrid"}
  /\ operator \in [Operators -> [target : Granular \union {NoTarget}, on : BOOLEAN,
                                  read : SUBSET Targets, missed : SUBSET Targets]]
  /\ \A t \in Tickers : tick[t].at \in {"off", "capacity", "fetched", "assign"}

GivenTo(given, b) == Cardinality({g \in given : g.box = b})
GivenIn(given, d) == Cardinality({g \in given : DomainOf[g.box] = d})

\* No tick schedules more to a mailbox than its limit, reduced by its health as
\* the tick found it, leaves after what was sent today, nor more to the mailboxes
\* of a domain than the domain's cap leaves.
WithinCapacity ==
  \A t \in Tickers : tick[t].at = "assign" =>
    /\ \A b \in Boxes : GivenTo(tick[t].given, b) <= Less(tick[t].eff[b], SentToday[b])
    /\ \A d \in Domains : GivenIn(tick[t].given, d) <= Less(DomainCap[d], SentFrom(d))

\* Ticker t gives message m to mailbox b.
Gives(t, m, b) ==
  /\ tick[t].at = "assign" /\ tick[t].queue # <<>> /\ Head(tick[t].queue).id = m
  /\ [id |-> m, box |-> b] \in tick'[t].given \ tick[t].given

\* What an operator paused, a mailbox, a domain or a campaign, rests in every
\* tick that asks for the switches after the pause was answered, until somebody
\* resumes it, whatever else operators pause and resume in any order; but a pause
\* answered between the read and the write of another operator is lost to it.
PausesHold ==
  [][\A t \in Tickers, m \in OutMessages, b \in Boxes :
       Gives(t, m, b)
         => {b, DomainOf[b], CampaignOf[m]} \intersect tick[t].rested = {}]_outVars

\* A cancelled follow-up comes back only through a tick that had fetched it
\* before it was cancelled and has not come to it yet, never through a later one.
CancelledStays ==
  [][\A m \in OutMessages :
       (msg[m].status = "cancelled" /\ msg'[m].status # "cancelled")
         => \E t \in Tickers : /\ tick[t].queue # <<>> /\ Head(tick[t].queue).id = m
                               /\ m \in tick[t].cut]_outVars

=============================================================================
