------------------------------ MODULE Research ------------------------------
(* Research and scoring of one company: its hiring signals                     *)
(* (services/hiring_signals.py and their jobs), the research report with its   *)
(* quality gate (services/research.py), and the opportunity score              *)
(* (services/opportunity.py).  Research reads the evidence, asks a model that  *)
(* answers seconds later, has its claims checked, asks once more, and stores;  *)
(* a score is put together from several reads.  Meanwhile signals come, age    *)
(* and expire, and what is known of the company changes.                       *)
EXTENDS Scoring

CONSTANTS Postings,          \* the company's hiring signals
          DaysSeen,          \* ages a posting is looked at, in days
          ScoresSeen,        \* scores a posting may get
          ProblemsSeen,      \* severities of the problems that models and signals name
          Analysts,          \* jobs and requests that run research
          MaxMeetings        \* bound: meetings held or booked

ASSUME ResearchAssumption ==
  /\ DaysSeen \subseteq Nat /\ ScoresSeen \subseteq 0..100 /\ MaxMeetings \in Nat
  /\ 0 \in DaysSeen /\ ProblemsSeen \subseteq {"low", "medium", "high"}

VARIABLES hiring,    \* of every posting: status, score, freshness in hundredths, age
          company,   \* what is known of the company
          study,     \* what each researcher is at
          report,    \* how severe the problem of the latest research report is
          scorer,    \* a request for a score under way
          scored     \* the latest opportunity score

researchVars == <<hiring, company, study, report, scorer, scored>>

\* What compute_opportunity_score reads of the company and its contacts.
Facts == {"single_location", "owner_visible", "residential_focus", "direct_phone",
          "verified_email"}

NoScore == [tier |-> 5, first |-> FALSE, late |-> FALSE]
NoStudy == [at |-> "idle", hires |-> FALSE, listed |-> FALSE, problem |-> "none"]
NotScoring == [at |-> "idle", points |-> 0, hires |-> FALSE]

-----------------------------------------------------------------------------
(* Hiring signals                                                           *)

Live == {p \in Postings : hiring[p].status = "active"}

\* Tech signals that are a list, as Apollo returns them, have no get(): the score of a
\* posting cannot be computed.
Scorable == ~company.listed

\* handle_job_discovery, upsert_hiring_signal: one posting of a search.
Upsert(p) ==
  /\ Scorable
  /\ \E n \in ScoresSeen, d \in DaysSeen :
       /\ hiring[p].status # "unseen" => d = hiring[p].days
       /\ hiring' = [hiring EXCEPT ![p] =
            [status |-> "active", score |-> n, fresh |-> Freshness(d), days |-> d]]
  /\ UNCHANGED <<company, study, report, scorer, scored>>

\* apply_expiry.
Expired(h) ==
  [p \in Postings |-> IF h[p].status = "active" /\ h[p].days > 60
                        THEN [h[p] EXCEPT !.status = "expired"] ELSE h[p]]

\* handle_signal_scoring: the score anew, whatever the status, then expiry.
Rescore(p) ==
  /\ hiring[p].status # "unseen" /\ Scorable
  /\ \E n \in ScoresSeen :
       hiring' = Expired([hiring EXCEPT ![p] =
                   [hiring[p] EXCEPT !.score = n, !.fresh = Freshness(hiring[p].days)]])
  /\ UNCHANGED <<company, study, report, scorer, scored>>

\* Time passes.
GrowsOld(p) ==
  /\ hiring[p].status # "unseen"
  /\ \E d \in DaysSeen :
       d > hiring[p].days /\ hiring' = [hiring EXCEPT ![p].days = d]
  /\ UNCHANGED <<company, study, report, scorer, scored>>

-----------------------------------------------------------------------------
(* The company                                                              *)

\* Website intelligence or enrichment writes the company's row or its contacts.
Learn ==
  /\ \E known \in SUBSET Facts, listed \in BOOLEAN :
       company' = [company EXCEPT !.known = known, !.listed = listed]
  /\ UNCHANGED <<hiring, study, report, scorer, scored>>

\* A meeting is booked; a customer won is worth two of them in the history.
MeetingHeld ==
  /\ company.lead
  /\ \E n \in {1, 2} :
       /\ company.meetings + n <= MaxMeetings
       /\ company' = [company EXCEPT !.meetings = @ + n]
  /\ UNCHANGED <<hiring, study, report, scorer, scored>>

-----------------------------------------------------------------------------
(* services/research.py.  The claims of a report are left out: whether a word  *)
(* of each is found in its source, the gate's test, is open, for the model's   *)
(* claims as for the fallback's.  The table keeps no verdict.                  *)

\* _assemble_evidence, of which the fallback tells hiring signals and a list.
Assemble(r) ==
  /\ study[r].at = "idle"
  /\ study' = [study EXCEPT ![r] = [at |-> "ask", hires |-> Live # {}, listed |-> company.listed,
                                    problem |-> "none"]]
  /\ UNCHANGED <<hiring, company, report, scorer, scored>>

\* A first draft and _validate_research_report: to the table, or to the model again.
Drafted(r, problem) ==
  /\ study[r].at = "ask"
  /\ \E next \in {"store", "repair"} :
       study' = [study EXCEPT ![r].problem = problem, ![r].at = next]
  /\ UNCHANGED <<hiring, company, report, scorer, scored>>

ModelAnswers(r) == \E problem \in ProblemsSeen : Drafted(r, problem)

\* _fallback_research: no model, an exception, or no JSON.  Its problem is that of a
\* signal, or the default one, which overwhelms.  items() of a list raises.
FallsBack(r) ==
  /\ ~study[r].listed
  /\ \E problem \in {"high"} \union (IF study[r].hires THEN ProblemsSeen ELSE {}) :
       Drafted(r, problem)

\* The fallback raises over a list; the gate over a decimal in the evidence and over
\* claims of the wrong shape; the statement over a text that is none.
Raises(r) ==
  /\ study[r].at # "idle"
  /\ study' = [study EXCEPT ![r] = NoStudy]
  /\ UNCHANGED <<hiring, company, report, scorer, scored>>

\* _repair_research_report: a second draft, or the first one kept.
Repair(r) ==
  /\ study[r].at = "repair"
  /\ \E problem \in ProblemsSeen \union {study[r].problem} :
       study' = [study EXCEPT ![r].problem = problem, ![r].at = "store"]
  /\ UNCHANGED <<hiring, company, report, scorer, scored>>

\* Stored whether it passed or not.
StoreReport(r) ==
  /\ study[r].at = "store"
  /\ report' = study[r].problem
  /\ study' = [study EXCEPT ![r] = NoStudy]
  /\ UNCHANGED <<hiring, company, scorer, scored>>

-----------------------------------------------------------------------------
(* services/opportunity.py, with the default weights                        *)

\* The signs that compute_opportunity_score sets by itself, with those known.
IcpSignals ==
  (company.known \ {"verified_email"}) \union {"simple_site", "local_service_area"}
    \union (IF "single_location" \in company.known THEN {} ELSE {"multi_location"})

FitPoints == RoundDiv(25 * IcpFit(IcpSignals), 10)

\* The points of the highest score of some signals.
TopPoints(S) ==
  IF S = {} THEN 0
  ELSE LET top == Max({hiring[p].score : p \in S})
       IN  IF IntentCategory(top) \in {"high_value", "medium_value"}
             THEN Smaller(30, RoundDiv(3 * top, 10)) ELSE 0

\* Variant: of any status.
IntentOfAny == TopPoints({p \in Postings : hiring[p].status # "unseen"})

\* Of the active signals.
IntentPoints == TopPoints(Live)

\* _compute_severity, of the latest report's problem, and no report.
Severity == [none |-> 0, low |-> 5, medium |-> 12, high |-> 20]

\* _get_contactability.
Contact ==
  IF "verified_email" \in company.known THEN 10
  ELSE (IF "owner_visible" \in company.known THEN 5 ELSE 0)
         + (IF "direct_phone" \in company.known THEN 3 ELSE 0)

\* _compute_recency, in tenths, from the freshness last stored.
RecencyPoints10 == IF Live = {} THEN 0 ELSE Max({hiring[p].fresh : p \in Live})

\* _compute_history: at most 5.
History == IF company.lead THEN Smaller(5, RoundDiv(15 * company.meetings, 10)) ELSE 0

\* Company, lead and signals are read.
ScoreSignals ==
  /\ scorer.at = "idle"
  /\ scorer' = [at |-> "problem", points |-> FitPoints + IntentPoints, hires |-> Live # {}]
  /\ UNCHANGED <<hiring, company, study, report, scored>>

\* Then the latest report and the contacts.
ScoreProblem ==
  /\ scorer.at = "problem"
  /\ scorer' = [scorer EXCEPT !.at = "write", !.points = @ + Severity[report] + Contact]
  /\ UNCHANGED <<hiring, company, study, report, scored>>

\* Then the signals again, for the recency, and the meetings; a row for the lead.
\* The pitch it recommends is left out.
ScoreWrite ==
  /\ scorer.at = "write"
  /\ LET total10 == Larger(0, Smaller(1000, 10 * (scorer.points + History) + RecencyPoints10))
     IN  scored' = IF company.lead
                     THEN [tier |-> TierOf(total10), first |-> scorer.hires, late |-> Live # {}]
                     ELSE scored
  /\ scorer' = NotScoring
  /\ UNCHANGED <<hiring, company, study, report>>

-----------------------------------------------------------------------------
ResearchInit ==
  /\ hiring = [p \in Postings |-> [status |-> "unseen", score |-> 0, fresh |-> 100, days |-> 0]]
  /\ company \in [listed : BOOLEAN, known : SUBSET Facts, lead : BOOLEAN, meetings : {0}]
  /\ study = [r \in Analysts |-> NoStudy]
  /\ report = "none" /\ scorer = NotScoring /\ scored = NoScore

ResearchNext ==
  \/ \E p \in Postings : Upsert(p) \/ Rescore(p) \/ GrowsOld(p)
  \/ Learn \/ MeetingHeld
  \/ \E r \in Analysts :
       Assemble(r) \/ ModelAnswers(r) \/ FallsBack(r) \/ Raises(r) \/ Repair(r) \/ StoreReport(r)
  \/ ScoreSignals \/ ScoreProblem \/ ScoreWrite

ResearchSpec == ResearchInit /\ [][ResearchNext]_researchVars

-----------------------------------------------------------------------------
(* Properties                                                               *)

ResearchTypeOK ==
  /\ hiring \in [Postings -> [status : {"unseen", "active", "expired"}, score : 0..100,
                              fresh : {10, 40, 70, 90, 100}, days : DaysSeen]]
  /\ company \in [listed : BOOLEAN, known : SUBSET Facts, lead : BOOLEAN,
                  meetings : 0..MaxMeetings]
  /\ study \in [Analysts -> [at : {"idle", "ask", "repair", "store"}, hires : BOOLEAN,
                             listed : BOOLEAN, problem : DOMAIN Severity]]
  /\ report \in DOMAIN Severity
  /\ scorer.at \in {"idle", "problem", "write"}
  /\ scored \in [tier : 1..5, first : BOOLEAN, late : BOOLEAN]

\* No company gets a tier that has it called (A+, A or B) unless it had an active
\* hiring signal when its signals were first read, nor A+ unless it had one again when
\* they were read for the recency: though a score is put together from several reads,
\* between which a signal may expire or come, the report be replaced, and the
\* company and its contacts be written anew.
CalledWasHiring ==
  /\ scored.tier <= 3 => scored.first
  /\ scored.tier = 1 => scored.late

=============================================================================
