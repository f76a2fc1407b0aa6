------------------------------ MODULE MCParts ------------------------------
(* One instance of each of the smaller components, side by side: a behaviour   *)
(* runs one of them, part, and leaves the variables of the others alone.  They *)
(* share the model values below; their assumptions are evaluated together.     *)
(* Four components have two parts: of IntentEvents, "intent" has events, one    *)
(* ticker and two due times, "schedule" signals and two tickers; of Enrichment, *)
(* "enrichment" has one worker for everything, "verification" two that verify   *)
(* while addresses come in, and no breaker opens; of OutboundScheduler,         *)
(* "outbound" has sequences, modes, the health of mailboxes and the flags that  *)
(* no tick reads, "switches" two operators, of whom the second pauses a         *)
(* campaign; of Pipeline, "pipeline" has one run of a lead in which everything  *)
(* may be lost, "reruns" two in which nothing is.  "scores" is Research up to a *)
(* first score, of a company of which nothing or everything is known.  Of       *)
(* AppProcess, one process gets requests.                                       *)
EXTENDS LeadLine, OutboundScheduler, IntentEvents, Pipeline, Enrichment, Research, AppProcess

CONSTANTS l1, l2, co1, n1, n2, s1, s2, s3, k1, \* leads, a company, numbers, a call
          w1, w2,                              \* whatever runs a component's steps
          m1, f1, m2, b1, b2, dom, camp1, camp2, \* messages, mailboxes, domain, campaigns
          e1, e2, g1, t1, t2, t3,              \* events, a signal, times
          pain1, pain2, offer1, offer2,
          a1, a2, ver1, ver2, res1, col1, col2, \* addresses, providers, columns
          j1, j2               \* postings

\* Two leads of one company, whose number can be written in two ways.
MCCompanyOf == [l \in Leads |-> co1]
MCPhoneOf == [c \in Companies |-> n1]
MCCanonical == (s1 :> n1 @@ s2 :> n1 @@ s3 :> n2)

\* Two mailboxes of one domain, one of which has sent a message today.
MCByPriority == <<m1, f1, m2>>
MCOutLeadOf == (m1 :> l1 @@ f1 :> l1 @@ m2 :> l2)
MCCampaignOf == (m1 :> camp1 @@ f1 :> camp1 @@ m2 :> camp2)
MCDomainOf == [b \in Boxes |-> dom]
MCDailyLimit == [b \in Boxes |-> 2]
MCSentToday == (b1 :> 1 @@ b2 :> 0)
MCDomainCap == (dom :> 3)

MCEventLead == [e \in Events |-> l1]
MCSignalLead == [s \in Signals |-> l1]

\* One pain that asks for one offer, one that takes any; all stages hang on the
\* event of the first, as in the workflow's file.
MCPainToOffer == (pain1 :> offer1 @@ pain2 :> AnyOffer)
MCBranch == [s \in Stages |->
  IF s = "qualification" THEN <<"qualification", "enrichment", "audit", "offer", "draft">>
                         ELSE <<>>]

MCVerifiers == <<ver1, ver2>>
MCResearchers == <<res1>>
MCQuota == [p \in {ver1, ver2, res1} |-> IF p = ver1 THEN 3 ELSE 0]

MCDuties == {"icp_match", "high_volume", "scheduling_duties", "lead_intake", "multiple_openings"}
MCIntentsSeen == {{}, {"icp_match"}, MCDuties, MCDuties \union {"after_hours"}}
MCFeaturesSeen == {{}, {"no_online_booking", "weak_website", "strong_reviews"}}

-----------------------------------------------------------------------------
CONSTANT Parts
VARIABLE part

partsVars == <<part, leadVars, outVars, intentVars, pipeVars, enrichVars, sample, researchVars, appVars>>

PartsInit ==
  /\ part \in Parts
  /\ LeadInit /\ OutInit /\ IntentInit /\ PipeInit /\ EnrichInit /\ ScoringInit /\ ResearchInit /\ AppInit
  /\ part \notin {"intent", "schedule"} => nextRun = t1
  /\ part # "pipeline" => \A l \in Prospects : prospect[l].site
  /\ part # "enrichment" => contact.address = a1
  /\ part # "scoring" => sample.of = "slot" /\ sample.now = 0
  /\ company.known = {} /\ ~company.listed /\ (part # "scores" => company.lead)

PartsNext ==
  /\ part' = part
  /\ \/ /\ part = "leads" /\ LeadNext
        /\ leadStatus'[l2] \in {"absent", "new", "do_not_call"}
        /\ UNCHANGED <<outVars, intentVars, pipeVars, enrichVars, sample, researchVars, appVars>>
     \/ /\ part = "switches" /\ OutNext
        /\ UNCHANGED <<over, health, own, modes>> /\ msg'[f1].status = "absent"
        /\ operator'[w1].target # camp1
        /\ operator'[w2].target = NoTarget \/ (operator'[w2].target = camp1 /\ operator'[w2].on)
        /\ UNCHANGED <<leadVars, intentVars, pipeVars, enrichVars, sample, researchVars, appVars>>
     \/ /\ part = "outbound" /\ OutNext
        /\ UNCHANGED operator /\ (own' = {} \/ (modes' = {} /\ tick'[w1] = Off))
        /\ UNCHANGED <<leadVars, intentVars, pipeVars, enrichVars, sample, researchVars, appVars>>
     \/ /\ part = "schedule" /\ IntentNext
        /\ UNCHANGED event
        /\ UNCHANGED <<leadVars, outVars, pipeVars, enrichVars, sample, researchVars, appVars>>
     \/ /\ part = "intent" /\ IntentNext
        /\ UNCHANGED <<signal, sched[w2]>> /\ nextRun' # t3
        /\ event[e1] = "none" => event'[e2] = "none"
        /\ job'[e2] = "none"
        /\ sched[w1].at = "enqueued" /\ sched'[w1].at = "idle" => nextRun' # nextRun
        /\ UNCHANGED <<leadVars, outVars, pipeVars, enrichVars, sample, researchVars, appVars>>
     \/ /\ part = "reruns" /\ PipeNext
        /\ UNCHANGED lost
        /\ \A l \in Prospects : UNCHANGED prospect[l].reasons
        /\ exec'[w2].tries = 0 /\ Len(outbox') <= 2
        /\ UNCHANGED <<leadVars, outVars, intentVars, enrichVars, sample, researchVars, appVars>>
     \/ /\ part = "pipeline" /\ PipeNext
        /\ UNCHANGED exec[w2]
        /\ \A l \in Prospects : runs'[l] <= 1
        /\ UNCHANGED <<leadVars, outVars, intentVars, enrichVars, sample, researchVars, appVars>>
     \/ /\ part = "verification" /\ EnrichNext
        /\ \A w \in EnrichWorkers : worker'[w].job # "enrich" /\ worker'[w].tries = 0
             /\ worker'[w].answer \in {"none", "valid", "assumed"}
        /\ entering' \subseteq {a2} /\ UNCHANGED <<filled, breaker>>
        /\ UNCHANGED <<leadVars, outVars, intentVars, pipeVars, sample, researchVars, appVars>>
     \/ /\ part = "enrichment" /\ EnrichNext
        /\ UNCHANGED <<worker[w2], entering>>
        /\ UNCHANGED <<leadVars, outVars, intentVars, pipeVars, sample, researchVars, appVars>>
     \/ /\ part = "scoring" /\ ScoringNext
        /\ UNCHANGED <<leadVars, outVars, intentVars, pipeVars, enrichVars, researchVars, appVars>>
     \/ /\ part = "scores" /\ ResearchNext
        /\ scored = NoScore /\ company'.known \in {{}, Facts}
        /\ company'.listed => company'.known = {}
        /\ company'.meetings # 1
        /\ UNCHANGED <<leadVars, outVars, intentVars, pipeVars, enrichVars, sample, appVars>>
     \/ /\ part = "app" /\ AppNext
        /\ UNCHANGED passed[w2]
        /\ UNCHANGED <<leadVars, outVars, intentVars, pipeVars, enrichVars, sample, researchVars>>

\* IntentFairness and PipeFairness, each in the behaviours of its part.
PartsFairness ==
  /\ WF_intentVars(part = "intent" /\ ComesDue)
  /\ \A t \in SchedTickers :
       /\ WF_intentVars(part = "intent" /\ TickRead(t))
       /\ SF_intentVars(part = "intent" /\ TickEnqueue(t))
       /\ SF_intentVars(part = "intent" /\ \E s \in Slots : TickCommit(t, s))
  /\ \A p \in Processors :
       /\ WF_intentVars(part = "intent" /\ ProcStep(p))
       /\ SF_intentVars(part = "intent" /\ \E E \in SUBSET Pending : ClaimEvents(p, E))
  /\ WF_pipeVars(part \in {"pipeline", "reruns"} /\ \E x \in Execs : Notified(x))
  /\ \A x \in Execs : WF_pipeVars(part \in {"pipeline", "reruns"} /\ ExecStep(x))

PartsSpec == PartsInit /\ [][PartsNext]_partsVars /\ PartsFairness

\* Every component keeps its types.

PartsTypeOK ==
  /\ LeadTypeOK /\ OutTypeOK /\ IntentTypeOK /\ PipeTypeOK
  /\ EnrichTypeOK /\ ScoringTypeOK /\ ResearchTypeOK /\ AppTypeOK

=============================================================================
