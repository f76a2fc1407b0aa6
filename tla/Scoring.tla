------------------------------ MODULE Scoring ------------------------------
(* The scores: fit of a lead (services/scoring.py), hiring signals             *)
(* (services/hiring_signals.py), opportunities (services/opportunity.py),      *)
(* intent (services/intent_engine.py), the health of a mailbox                 *)
(* (services/mailbox_health.py), and the sending slot of a message             *)
(* (services/scheduler.py).  Each is a function of what is known; what is      *)
(* known changes as time passes and news comes in.  Fractions are taken over   *)
(* a common denominator.                                                       *)
EXTENDS Rounding, FiniteSets, FiniteSetsExt

CONSTANTS RolesSeen, IntentsSeen, FeaturesSeen, \* the postings and companies looked at
          ScoreRest,         \* the parts of an opportunity that no posting moves
          MaxAge,            \* bound: days a posting is followed
          SignsSeen,         \* the ICP signals that leads of an instance may show
          MailTotals,        \* messages of a mailbox in 30 days
          MaxBad,            \* bound: bounces, complaints and failures of a mailbox
          DayLength, WindowStart, WindowEnd, Gap, \* of the sending day, in seconds
          Minute             \* seconds of a minute

ASSUME ScoringAssumption ==
  /\ {MaxAge, MaxBad, DayLength, WindowStart, WindowEnd, Gap, Minute} \subseteq Nat
  /\ MailTotals \subseteq Nat \ {0} /\ ScoreRest \subseteq Nat
  /\ WindowStart < WindowEnd /\ WindowEnd + Minute <= DayLength /\ Gap <= WindowStart
  /\ Minute >= 1

VARIABLE sample   \* a posting, a lead, a mailbox, or a message to be sent

-----------------------------------------------------------------------------
(* services/scoring.py                                                      *)

IcpWeight == [
  single_location |-> 3, owner_visible |-> 3, family_owned |-> 2, simple_site |-> 2,
  residential_focus |-> 2, local_service_area |-> 2, direct_phone |-> 1,
  franchise |-> -4, multi_location |-> -4, careers_page |-> -3,
  enterprise_signals |-> -3, national_brand |-> -4, multi_state |-> -3]

\* The sum of f over S: a pair of x and i for every point that x gains or loses.
Gains(f, S) == UNION {{x} \X (1..f[x]) : x \in S}
Losses(f, S) == UNION {{x} \X (1..(-f[x])) : x \in S}
SumOver(f, S) == Cardinality(Gains(f, S)) - Cardinality(Losses(f, S))

\* icp_fit_score: round(total / 1.8) within 0..10.
IcpFit(signs) == Larger(0, Smaller(10, RoundDiv(10 * SumOver(IcpWeight, signs), 18)))

TooLarge(signs) == signs \intersect {"enterprise_signals", "national_brand"} # {}

FitStatus(signs, unclear) ==
  CASE TooLarge(signs) -> "rejected_too_large"
    [] ~TooLarge(signs) /\ IcpFit(signs) >= 6 -> "qualified"
    [] ~TooLarge(signs) /\ IcpFit(signs) < 6 /\ unclear -> "rejected_unclear"
    [] ~TooLarge(signs) /\ IcpFit(signs) \in 4..5 /\ ~unclear -> "borderline"
    [] OTHER -> "rejected_not_relevant"

\* priority_score as apply_qualification calls it: intent 0.3, no history.
FitPriority(signs, phone) ==
  RoundDiv(40 * 3 + 30 * IcpFit(signs) + 20 * (IF phone THEN 6 ELSE 2), 10)

PriorityTier(n) ==
  CASE n >= 85 -> 1 [] n \in 65..84 -> 2 [] n \in 40..64 -> 3 [] OTHER -> 4

\* hiring_intent_score of a posting for one of the roles of the table.
HiringIntent(intents, days) ==
  Percent(25 + SumOver([icp_match |-> 30, after_hours |-> 15, phone_heavy |-> 15,
                        scheduling_duties |-> 15, multiple_openings |-> 10],
                       intents \intersect {"icp_match", "after_hours", "phone_heavy",
                                           "scheduling_duties", "multiple_openings"})
             + (IF days <= 7 THEN 10 ELSE IF days <= 21 THEN 5 ELSE 0))

-----------------------------------------------------------------------------
(* services/hiring_signals.py                                               *)

RoleWeight == [dispatcher |-> 35, receptionist |-> 30, customer_service |-> 30,
               appointment_setter |-> 35, call_center |-> 30, service_coordinator |-> 30,
               scheduler |-> 0, office_admin |-> 0, sales |-> 0, other |-> 0]
IntentWeight == [multiple_openings |-> 15, high_volume |-> 20, scheduling_duties |-> 15,
                 lead_intake |-> 15, icp_match |-> 30, after_hours |-> 0, phone_heavy |-> 0]
FeatureWeight == [no_online_booking |-> 15, weak_website |-> 15, strong_reviews |-> 10]
AllWeights == 370   \* of DEFAULT_SIGNAL_WEIGHTS

\* The postings and leads of an instance show what the tables know.
ASSUME TablesAssumption ==
  /\ SignsSeen \subseteq DOMAIN IcpWeight /\ RolesSeen \subseteq DOMAIN RoleWeight
  /\ IntentsSeen \subseteq SUBSET DOMAIN IntentWeight
  /\ FeaturesSeen \subseteq SUBSET DOMAIN FeatureWeight

\* Variant: the tests of the age in the opposite order.
AgeBonusSwapped(days) == IF days <= 3 THEN 5 ELSE IF days <= 7 THEN 10 ELSE IF days <= 14 THEN 15 ELSE 0

AgeBonus(days) == IF days <= 3 THEN 15 ELSE IF days <= 7 THEN 10 ELSE IF days <= 14 THEN 5 ELSE 0

\* compute_signal_score, with a company.
SignalScore(p) ==
  LET points == RoleWeight[p.role] + SumOver(IntentWeight, p.intents)
                  + SumOver(FeatureWeight, p.features) + AgeBonus(p.days)
                  + (IF "after_hours" \in p.intents THEN 0 ELSE 15)
  IN  Percent(RoundDiv(100 * points, AllWeights))

\* _compute_freshness_multiplier, in hundredths.
Freshness(days) ==
  IF days >= 30 THEN 10 ELSE IF days >= 14 THEN 40 ELSE IF days >= 7 THEN 70
  ELSE IF days >= 3 THEN 90 ELSE 100

IntentCategory(n) ==
  CASE n >= 80 -> "high_value" [] n \in 60..79 -> "medium_value"
    [] n \in 40..59 -> "low_value" [] OTHER -> "irrelevant"

\* apply_expiry leaves a signal active for 60 days.
Active(p) == p.days <= 60

-----------------------------------------------------------------------------
(* services/opportunity.py, in tenths: the recency is kept to one decimal   *)

OpportunityIntent(p) ==
  IF Active(p) /\ IntentCategory(SignalScore(p)) \in {"high_value", "medium_value"}
    THEN Smaller(30, RoundDiv(3 * SignalScore(p), 10)) ELSE 0

Recency10(p) == IF Active(p) THEN Smaller(100, Freshness(p.days)) ELSE 0

\* compute_opportunity_score; p.rest stands for fit, severity, contactability and
\* history.
Opportunity10(p) == Larger(0, Smaller(1000, 10 * (p.rest + OpportunityIntent(p)) + Recency10(p)))

\* A+, A, B, C, D.  The tier is taken from the total before the column rounds it.
TierOf(total10) ==
  CASE total10 >= 900 -> 1 [] total10 \in 800..899 -> 2
    [] total10 \in 650..799 -> 3 [] total10 \in 500..649 -> 4 [] OTHER -> 5

OpportunityTier(p) == TierOf(Opportunity10(p))

-----------------------------------------------------------------------------
(* services/intent_engine.py, in tenths                                     *)

Recency30(days) == Larger(0, 30 - days)

\* One signal's points: at most 35, score by freshness by recency.
SignalPoints10(p) ==
  Smaller(350, RoundDiv(10 * SignalScore(p) * Freshness(p.days) * Recency30(p.days), 100 * 30))

\* The points of the event that came with it, which is left out after 30 days.
EventPoints10(p) == IF p.days <= 30 THEN RoundDiv(10 * 35 * Recency30(p.days), 30) ELSE 0

Contributions(p) == (IF Active(p) THEN 1 ELSE 0) + (IF p.days <= 30 THEN 1 ELSE 0)

\* reevaluate_lead: p.rest stands for ten times the lead score.
IntentTotal(p) ==
  Percent(RoundDiv(10 * p.rest + (IF Active(p) THEN SignalPoints10(p) ELSE 0) + EventPoints10(p)
                     + (IF Contributions(p) >= 2 THEN 50 ELSE 0), 10))

\* P1 only with something of the last week.
IntentPriority(p) ==
  CASE IntentTotal(p) >= 70 /\ p.days <= 7 -> 1
    [] IntentTotal(p) >= 50 /\ ~(IntentTotal(p) >= 70 /\ p.days <= 7) -> 2
    [] OTHER -> 3

-----------------------------------------------------------------------------
(* services/mailbox_health.py                                               *)

\* compute_health_score, over 100 * m.total.  Only a message of status 'sent'
\* counts as delivered, a status that nothing in src/ writes.
HealthScore(m) ==
  LET bounce == Larger(0, 100 * m.total - 500 * m.bounces)
      complaint == Larger(0, 100 * m.total - 10000 * m.complaints)
      delivery == 0
      failure == m.total * Larger(0, 100 - 10 * m.failures)
  IN  Percent(RoundDiv(40 * bounce + 30 * complaint + 15 * delivery
                         + 10 * m.steady * m.total + 5 * failure, 100 * m.total))

\* map_score_to_state, the best first.
HealthRank(n) ==
  CASE n >= 90 -> 1 [] n \in 75..89 -> 2 [] n \in 60..74 -> 3 [] n \in 40..59 -> 4 [] OTHER -> 5

-----------------------------------------------------------------------------
(* next_available_slot: a week from Monday on, by the clock of now, which is   *)
(* UTC: the mailbox's timezone is looked up and never used.  The window begins *)
(* and ends on a minute, and ends after it begins, which nobody checks.        *)

Day(t) == t \div DayLength
BusinessDay(d) == d % 7 < 5

\* Variant: the day after, whatever it is.
NextDayAlways(d) == d + 1

NextBusinessDay(d) == IF d % 7 >= 4 THEN d + 7 - (d % 7) ELSE d + 1

At(d, t) == d * DayLength + t

\* A minute of the window of day d, its last one included, and up to 59 seconds:
\* the end may be passed by as many.
WholeWindow(d) == At(d, WindowStart)..(At(d, WindowEnd) + Minute - 1)

\* What is left of the window, where a draw beyond the end is brought back to it;
\* with less than a minute left, at once.
RestOfWindow(base, end) == IF end - base < Minute THEN {base} ELSE base..end

\* The slots it may draw.
SlotsFrom(now) ==
  LET candidate == IF BusinessDay(Day(now)) THEN now ELSE At(NextBusinessDay(Day(now)), WindowStart)
      d == Day(candidate)
      base == Larger(candidate + Gap, At(d, WindowStart))
      dayEnd == At(d, WindowEnd)
  IN  IF candidate >= dayEnd \/ base >= dayEnd
        THEN WholeWindow(NextBusinessDay(d))
        ELSE RestOfWindow(base, dayEnd)

-----------------------------------------------------------------------------
(* What is known, and what changes it                                       *)

Posting == [of : {"posting"}, role : RolesSeen, intents : IntentsSeen, features : FeaturesSeen,
            days : 0..MaxAge, rest : ScoreRest]
Lead == [of : {"lead"}, signs : SUBSET SignsSeen, phone : BOOLEAN, unclear : BOOLEAN]
Mail == [of : {"mail"}, total : MailTotals, bounces : 0..MaxBad, complaints : 0..MaxBad,
         failures : 0..MaxBad, steady : {0, 100}]
Week == 0..(7 * DayLength - 1)

ScoringInit ==
  \/ sample \in [of : {"posting"}, role : RolesSeen, intents : IntentsSeen,
                 features : FeaturesSeen, days : {0}, rest : ScoreRest]
  \/ sample \in [of : {"lead"}, signs : {{}}, phone : BOOLEAN, unclear : BOOLEAN]
  \/ sample \in [of : {"mail"}, total : MailTotals, bounces : {0}, complaints : {0},
                 failures : {0}, steady : {0, 100}]
  \/ sample \in [of : {"slot"}, now : Week, slot : {0}]

DayPasses ==
  /\ sample.of = "posting" /\ sample.days < MaxAge
  /\ sample' = [sample EXCEPT !.days = @ + 1]

SignSeen(x) ==
  /\ sample.of = "lead" /\ x \notin sample.signs
  /\ sample' = [sample EXCEPT !.signs = @ \union {x}]

BadEvent(kind) ==
  /\ sample.of = "mail" /\ sample[kind] < MaxBad
  /\ sample' = [sample EXCEPT ![kind] = @ + 1]

PickSlot ==
  /\ sample.of = "slot" /\ sample.slot = 0
  /\ \E s \in SlotsFrom(sample.now) : sample' = [sample EXCEPT !.slot = s]

ScoringNext ==
  \/ DayPasses
  \/ \E x \in SignsSeen : SignSeen(x)
  \/ \E kind \in {"bounces", "complaints", "failures"} : BadEvent(kind)
  \/ PickSlot

ScoringSpec == ScoringInit /\ [][ScoringNext]_sample

-----------------------------------------------------------------------------
(* Properties                                                               *)

ScoringTypeOK ==
  \/ sample \in Posting \/ sample \in Lead \/ sample \in Mail
  \/ sample.of = "slot" /\ sample.now \in Week /\ sample.slot \in Nat

\* The posting q is worth no more than p: not its own score, not the opportunity
\* nor its tier, not the priority of its lead.
PostingNoBetter(p, q) ==
  /\ SignalScore(q) <= SignalScore(p)
  /\ HiringIntent(q.intents, q.days) <= HiringIntent(p.intents, p.days)
  /\ Opportunity10(q) <= Opportunity10(p) /\ OpportunityTier(q) >= OpportunityTier(p)
  /\ IntentTotal(q) <= IntentTotal(p) /\ IntentPriority(q) >= IntentPriority(p)

\* The mailbox n has no better score or state than m.
MailNoBetter(m, n) ==
  /\ HealthScore(n) <= HealthScore(m)
  /\ HealthRank(HealthScore(n)) >= HealthRank(HealthScore(m))

\* The lead n has no more fit or priority than m, and does not qualify where m did not.
LeadNoBetter(m, n) ==
  /\ FitPriority(n.signs, n.phone) <= FitPriority(m.signs, m.phone)
  /\ PriorityTier(FitPriority(n.signs, n.phone)) >= PriorityTier(FitPriority(m.signs, m.phone))
  /\ FitStatus(n.signs, n.unclear) = "qualified" => FitStatus(m.signs, m.unclear) = "qualified"

\* A posting, scored anew every day, is never worth more for being older.
\* A bounce, a complaint or a failure never raises a mailbox's score or state.
\* A sign against a lead never raises its fit or priority, nor qualifies it.
BadNewsNeverPays ==
  [][/\ sample.of = "posting" => PostingNoBetter(sample, sample')
     /\ sample.of = "mail" => MailNoBetter(sample, sample')
     /\ (sample.of = "lead" /\ \E x \in SignsSeen : SignSeen(x) /\ IcpWeight[x] < 0)
          => LeadNoBetter(sample, sample')]_sample

\* Whenever a message is scheduled, on a weekend, before, in or after the window,
\* its slot lies on a business day, a gap ahead, and within the window: to the
\* second on the day it is scheduled, and on a later day to the last minute, which
\* it may pass by some seconds.  All this by UTC, not in the mailbox's timezone.
SlotsInWindow ==
  (sample.of = "slot" /\ sample.slot # 0) =>
    /\ BusinessDay(Day(sample.slot))
    /\ sample.slot % DayLength \in WindowStart..(WindowEnd + Minute - 1)
    /\ Day(sample.slot) = Day(sample.now) => sample.slot % DayLength <= WindowEnd
    /\ sample.slot >= sample.now + Gap

=============================================================================
