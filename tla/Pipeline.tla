------------------------------ MODULE Pipeline ------------------------------
(* The lead-intelligence chain: services/pipeline.py, which gates, validates   *)
(* and stores each stage of a lead and asks for the next one through the event *)
(* outbox (services/events.py), and the n8n workflow lead-intelligence, whose  *)
(* executions fetch a stage's context, have a model answer it and post the     *)
(* answer back.  A request of n8n is repeated when it is refused or when its   *)
(* answer is lost.                                                             *)
EXTENDS SequencesExt, FiniteSets, Naturals

CONSTANTS Prospects,            \* leads
          Pains, Offers,        \* pains an audit may name; the offer catalog
          PainToOffer, AnyOffer,\* the offer a pain asks for, or AnyOffer
          None,
          Branch,               \* Branch[e]: the stages event e sets going, in order
          Execs,                \* executions n8n runs at once
          MaxTries,             \* tries of a request
          MaxRuns               \* bound: runs asked for, per lead

Stages == {"qualification", "enrichment", "audit", "offer", "draft"}

\* The next stage's event, which the apply of a stage puts on the outbox.
NextStage == [qualification |-> "enrichment", enrichment |-> "audit",
              audit |-> "offer", offer |-> "draft"]

\* Why a lead is on the review queue.
Reasons == {"no_site", "owner", "email", "no_pain", "astray", "no_offer", "contract", "fails"}

ASSUME PipelineAssumption ==
  /\ PainToOffer \in [Pains -> Offers \union {AnyOffer}]
  /\ None \notin Prospects \union Pains \union Offers \union Reasons
  /\ AnyOffer \notin Offers
  /\ Branch \in [Stages -> Seq(Stages)]
  /\ MaxTries \in Nat \ {0} /\ MaxRuns \in Nat

VARIABLES
  prospect,  \* leads: fit_status, primary_pain, recommended_offer, review_reasons,
             \* and whether the company has a website
  outbox,    \* notifications of event_outbox rows that n8n has not received
  exec,      \* executions: the lead, the stages to go, where they are
  drafts,    \* messages created, with what the model was told when it wrote them
  runs,      \* runs asked for, per lead
  open,      \* history: leads with a run that nobody has been shown an end of
  lost,      \* history: leads of which a notification or an execution was lost
             \* since a run was last asked for
  crossed    \* history: executions whose lead's pain or offer another one has
             \* stored since they last checked an offer

pipeVars == <<prospect, outbox, exec, drafts, runs, open, lost, crossed>>

Unused == [lead |-> None, todo |-> <<>>, at |-> "context", tries |-> 0,
           told |-> [pain |-> None, offer |-> None, crossed |-> FALSE], answer |-> None,
           loaded |-> [pain |-> None, reasons |-> {}]]

PipeInit ==
  /\ prospect \in [Prospects -> [fit : {"pending"}, pain : {None}, offer : {None},
                                 reasons : {{}}, site : BOOLEAN]]
  /\ outbox = <<>>
  /\ exec = [x \in Execs |-> Unused]
  /\ drafts = {} /\ open = {} /\ lost = {} /\ crossed = {}
  /\ runs = [l \in Prospects |-> 0]

Stage(x) == Head(exec[x].todo)

-----------------------------------------------------------------------------
\* POST /pipeline/run, whether or not a run of the lead is under way.
RequestQualification(l) ==
  /\ runs[l] < MaxRuns
  /\ runs' = [runs EXCEPT ![l] = @ + 1]
  /\ outbox' = Append(outbox, [lead |-> l, stage |-> "qualification"])
  /\ open' = open \union {l} /\ lost' = lost \ {l}
  /\ UNCHANGED <<prospect, exec, drafts, crossed>>

\* n8n is notified and fetches the event's row.
Notified(x) ==
  /\ outbox # <<>> /\ exec[x] = Unused
  /\ LET e == Head(outbox) IN
       exec' = [exec EXCEPT ![x] =
                  IF Branch[e.stage] = <<>> THEN Unused
                  ELSE [Unused EXCEPT !.lead = e.lead, !.todo = Branch[e.stage]]]
  /\ outbox' = Tail(outbox)
  /\ UNCHANGED <<prospect, drafts, runs, open, lost, crossed>>

\* n8n is not listening.  The row stays unprocessed, but /events/pending, which
\* would show it, is answered by the route of /events/{event_id}.
Unheard ==
  /\ outbox # <<>>
  /\ outbox' = Tail(outbox)
  /\ lost' = lost \union {Head(outbox).lead}
  /\ UNCHANGED <<prospect, exec, drafts, runs, open, crossed>>

\* n8n is notified, but the row cannot be fetched, or Split Events, which splits
\* the field "items" that the row does not have, passes nothing on.
SplitsNothing(x) == exec[x] = Unused /\ Unheard

\* _flag_review of a lead, which also ends its run for whoever works the queue.
FlagReview(l, reason) ==
  /\ prospect' = [prospect EXCEPT ![l].reasons = @ \union {reason}]
  /\ open' = open \ {l}

\* A request that is refused or gets no answer is repeated as it was, and in the
\* end stops the execution.
Repeated(e, at) ==
  IF e.tries + 1 < MaxTries THEN [e EXCEPT !.at = at, !.tries = e.tries + 1] ELSE Unused

Refuse(x) == exec' = [exec EXCEPT ![x] = Repeated(exec[x], "context")]

RefuseAnswer(x) == exec' = [exec EXCEPT ![x] = Repeated(exec[x], "apply")]

\* The execution stops and shows nobody: the step that says so, once exec' is known.
StopsUnseen(x) ==
  lost' = IF exec'[x] = Unused THEN lost \union {exec[x].lead} ELSE lost

-----------------------------------------------------------------------------
(* Context                                                                  *)

\* What a model may answer, by stage: the fit its signals come to, what the
\* pages did not show, the pain it names ("astray": one not on its own list),
\* the offer, and whether the copy passes the checks.
Answers(s) ==
  CASE s = "qualification" -> {"qualified", "not_relevant"}
    [] s = "enrichment" -> SUBSET {"owner", "email"}
    [] s = "audit" -> Pains \union {"no_pain", "astray"}
    [] s = "offer" -> Offers \union {"no_offer"}
    [] s = "draft" -> {"passes", "fails"}

\* The conditions under which stage_context and the applies go on.
Gate(l, s) ==
  CASE s = "qualification" -> TRUE
    [] s = "enrichment" -> prospect[l].fit = "qualified"
    [] s = "audit" -> TRUE
    [] s = "offer" -> prospect[l].pain # None
    [] s = "draft" -> prospect[l].pain # None /\ prospect[l].offer # None

NeedsSite == {"enrichment", "audit"}

\* stage_context is served, scraping goes on whatever it finds, and the model
\* answers.
Context(x) ==
  LET l == exec[x].lead IN
  /\ l # None /\ exec[x].at = "context"
  /\ Gate(l, Stage(x)) /\ (Stage(x) \in NeedsSite => prospect[l].site)
  /\ \E a \in Answers(Stage(x)) :
       exec' = [exec EXCEPT ![x] =
                 [exec[x] EXCEPT !.at = "apply", !.tries = 0, !.answer = a,
                                 !.told = [pain |-> prospect[l].pain, offer |-> prospect[l].offer,
                                           crossed |-> x \in crossed]]]
  /\ UNCHANGED <<prospect, outbox, drafts, runs, open, lost, crossed>>

\* The backend or the model does not answer in the tries there are, or the answer
\* has no JSON for the Parse node: a node throws, and the execution stops.
ModelFails(x) ==
  /\ exec[x].lead # None /\ exec[x].at = "context"
  /\ exec' = [exec EXCEPT ![x] = Unused]
  /\ StopsUnseen(x)
  /\ UNCHANGED <<prospect, outbox, drafts, runs, open, crossed>>

ContextRefused(x) ==
  LET l == exec[x].lead IN
  /\ l # None /\ exec[x].at = "context"
  /\ \/ ~Gate(l, Stage(x)) /\ UNCHANGED <<prospect, open>>
     \/ /\ Gate(l, Stage(x)) /\ Stage(x) \in NeedsSite /\ ~prospect[l].site
        /\ FlagReview(l, "no_site")
  /\ Refuse(x)
  /\ UNCHANGED <<outbox, drafts, runs, lost, crossed>>

-----------------------------------------------------------------------------
(* Apply: the lead is loaded and the answer checked against it, then the     *)
(* result is stored and the next stage asked for.                            *)

\* Variant: hard rule 4 is not asked.
FaultAnyOffer(s, l, a) ==
  CASE s = "audit" /\ a \notin Pains -> a
    [] s = "offer" /\ a \notin Offers -> a
    [] s = "draft" /\ a = "fails" -> a
    [] OTHER -> None

\* Variant: an audit may name anything.
FaultAnyPain(s, l, a) ==
  CASE s = "offer" /\ a \notin Offers -> a
    [] s = "offer" /\ PainToOffer[prospect[l].pain] \notin {AnyOffer, a} -> "contract"
    [] s = "draft" /\ a = "fails" -> a
    [] OTHER -> None

\* Why an answer is routed to review and refused; None if it is stored.
Fault(s, l, a) ==
  CASE s = "audit" /\ a \notin Pains -> a
    [] s = "offer" /\ a \notin Offers -> a
    [] s = "offer" /\ PainToOffer[prospect[l].pain] \notin {AnyOffer, a} -> "contract"
    [] s = "draft" /\ a = "fails" -> a
    [] OTHER -> None

Load(x) ==
  LET l == exec[x].lead  s == Stage(x) IN
  /\ l # None /\ exec[x].at = "apply"
  /\ Gate(l, s) /\ Fault(s, l, exec[x].answer) = None
  /\ exec' = [exec EXCEPT ![x] =
                [exec[x] EXCEPT !.at = "store",
                                !.loaded = [pain |-> prospect[l].pain, reasons |-> prospect[l].reasons]]]
  /\ crossed' = IF s = "offer" THEN crossed \ {x} ELSE crossed
  /\ UNCHANGED <<prospect, outbox, drafts, runs, open, lost>>

\* Variant: an audit that found nothing is refused and no more.
LoadRefusedQuietly(x) ==
  LET l == exec[x].lead  s == Stage(x) IN
  /\ l # None /\ exec[x].at = "apply"
  /\ \/ ~Gate(l, s) /\ UNCHANGED <<prospect, open>>
     \/ /\ Gate(l, s) /\ Fault(s, l, exec[x].answer) # None
        /\ IF s = "audit" THEN UNCHANGED <<prospect, open>>
                          ELSE FlagReview(l, Fault(s, l, exec[x].answer))
  /\ RefuseAnswer(x)
  /\ UNCHANGED <<outbox, drafts, runs, lost, crossed>>

LoadRefused(x) ==
  LET l == exec[x].lead  s == Stage(x) IN
  /\ l # None /\ exec[x].at = "apply"
  /\ \/ ~Gate(l, s) /\ UNCHANGED <<prospect, open>>
     \/ /\ Gate(l, s) /\ Fault(s, l, exec[x].answer) # None
        /\ FlagReview(l, Fault(s, l, exec[x].answer))
  /\ RefuseAnswer(x)
  /\ UNCHANGED <<outbox, drafts, runs, lost, crossed>>

\* The handler raises something else than PipelineError before it has written
\* anything (a confidence that is null, a database that is away): apply_stage does
\* not catch it, the answer is 500 and nothing is put on the review queue.
LoadRaises(x) ==
  /\ exec[x].lead # None /\ exec[x].at = "apply"
  /\ RefuseAnswer(x) /\ StopsUnseen(x)
  /\ UNCHANGED <<prospect, outbox, drafts, runs, open, crossed>>

\* _update_lead.  The reasons an enrichment adds are added to those it loaded.
Stored1(p, s, a, loaded) ==
  CASE s = "qualification" -> [p EXCEPT !.fit = a]
    [] s = "enrichment" -> IF a = {} THEN p ELSE [p EXCEPT !.reasons = loaded.reasons \union a]
    [] s = "audit" -> [p EXCEPT !.pain = a]
    [] s = "offer" -> [p EXCEPT !.offer = a]
    [] OTHER -> p

\* create_draft_message; the message's life is in modules EmailSend and CopyQA.
WithDraft(x, s) ==
  IF s = "draft" THEN drafts \union {[lead |-> exec[x].lead, told |-> exec[x].told]} ELSE drafts

\* Emitted unless the stage is the last or the lead does not qualify.
Emits(s, a) == s # "draft" /\ ~(s = "qualification" /\ a # "qualified")

\* What shows a run's end: a draft, a lead that does not qualify, a reason.
ShowsEnd(s, a) ==
  \/ s = "draft"
  \/ s = "qualification" /\ a # "qualified"
  \/ s = "enrichment" /\ a # {}

\* Whether another execution works on what x is about to store.
Crossing(x) ==
  IF Stage(x) \in {"audit", "offer"}
    THEN crossed \union {y \in Execs \ {x} : exec[y].lead = exec[x].lead}
    ELSE crossed

\* Answered: the execution goes to its next stage.  Not answered: it repeats the
\* request, and gives up after the last try.
Went(x, outcome) ==
  LET e == exec[x] IN
  IF outcome = "answered"
    THEN IF Len(e.todo) = 1 THEN Unused
         ELSE [Unused EXCEPT !.lead = e.lead, !.todo = Tail(e.todo)]
    ELSE Repeated(e, "apply")

\* The lead is written, then the draft or the event.  "unheard": the answer is
\* lost.  "broken": the handler raises between the two (the lead's status is no
\* longer what the transition expects, the connection is gone).
Store(x, outcome) ==
  LET l == exec[x].lead  s == Stage(x)  a == exec[x].answer
      done == outcome # "broken" IN
  /\ l # None /\ exec[x].at = "store"
  /\ prospect' = [prospect EXCEPT ![l] = Stored1(@, s, a, exec[x].loaded)]
  /\ drafts' = IF done THEN WithDraft(x, s) ELSE drafts
  /\ outbox' = IF done /\ Emits(s, a)
                 THEN Append(outbox, [lead |-> l, stage |-> NextStage[s]]) ELSE outbox
  /\ open' = IF ShowsEnd(s, a) /\ (s = "draft" => done) THEN open \ {l} ELSE open
  /\ exec' = [exec EXCEPT ![x] = Went(x, outcome)]
  /\ IF outcome = "answered" THEN UNCHANGED lost ELSE StopsUnseen(x)
  /\ crossed' = Crossing(x)
  /\ UNCHANGED runs

\* clear_review: a person takes the lead off the queue.
ClearReview(l) ==
  /\ prospect[l].reasons # {}
  /\ prospect' = [prospect EXCEPT ![l].reasons = {}]
  /\ UNCHANGED <<outbox, exec, drafts, runs, open, lost, crossed>>

-----------------------------------------------------------------------------
ExecStep(x) ==
  \/ Context(x) \/ ContextRefused(x) \/ ModelFails(x)
  \/ Load(x) \/ LoadRefused(x) \/ LoadRaises(x)
  \/ \E outcome \in {"answered", "unheard", "broken"} : Store(x, outcome)

PipeNext ==
  \/ \E l \in Prospects : RequestQualification(l) \/ ClearReview(l)
  \/ Unheard
  \/ \E x \in Execs : Notified(x) \/ SplitsNothing(x) \/ ExecStep(x)

\* n8n runs what it was notified of; tries are bounded.
PipeFairness ==
  /\ WF_pipeVars(\E x \in Execs : Notified(x))
  /\ \A x \in Execs : WF_pipeVars(ExecStep(x))

PipeSpec == PipeInit /\ [][PipeNext]_pipeVars /\ PipeFairness

-----------------------------------------------------------------------------
(* Properties                                                               *)

PipeTypeOK ==
  /\ prospect \in [Prospects -> [fit : {"pending", "qualified", "not_relevant"},
                                 pain : Pains \union {None}, offer : Offers \union {None},
                                 reasons : SUBSET Reasons, site : BOOLEAN]]
  /\ outbox \in Seq([lead : Prospects, stage : Stages])
  /\ \A x \in Execs : exec[x] = Unused \/ (exec[x].lead \in Prospects /\ exec[x].todo # <<>>)
  /\ \A d \in drafts : d.lead \in Prospects
  /\ runs \in [Prospects -> 0..MaxRuns]
  /\ open \subseteq Prospects /\ lost \subseteq Prospects /\ crossed \subseteq Execs

\* Hard rule 4, at the end of the chain: a draft is written from an offer that
\* answers the pain it was written from.  The check is made when the offer is
\* applied and the draft reads both later; answers lost, requests repeated and
\* handlers that break between them do not part the two.  Only one thing does: a
\* second run of the lead that stores its own pain or offer in between.
DraftFits ==
  \A d \in drafts :
    d.told.crossed \/ PainToOffer[d.told.pain] \in {AnyOffer, d.told.offer}

\* "Failures route the lead to review": a run that is asked for ends where
\* somebody can see it, in a draft, in a lead that does not qualify or on the
\* review queue, or it was lost in one of the ways that nothing notices: its
\* notification went unheard or was split into nothing, a model or a Parse node
\* threw, a handler raised or went unanswered at the last try.  In particular no
\* answer that an apply turns down is among them.
RunEnds == \A l \in Prospects : l \in open ~> (l \notin open \/ l \in lost)

=============================================================================
