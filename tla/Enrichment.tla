----------------------------- MODULE Enrichment -----------------------------
(* The provider waterfalls (services/enrichment.py): workers that verify a     *)
(* contact's address and that fill a company's fields, asking providers in     *)
(* their order of priority, within quotas; the adapters they ask               *)
(* (providers/email_verification.py, providers/enrichment.py) with their       *)
(* retries, their circuit breakers (providers/resilience.py) and the fixture   *)
(* that answers when a provider does not.                                      *)
EXTENDS Naturals, Sequences, FiniteSets

CONSTANTS Addresses, Sound,       \* e-mail addresses; those the local checks pass
          Fields, Guess,          \* columns of a company; those the fixture makes up
          Verifiers, Researchers, \* providers of either kind, by priority
          Quota, Reserve,         \* provider_usage.quota (0: none), reserve_threshold
          EnrichWorkers,
          Threshold, ResetAfter,  \* of the breakers: failures, clock ticks
          Attempts,               \* of retry_with_backoff_sync
          NoAddress,
          Keyless,                \* providers whose API key is not set
          MaxUncounted            \* bound: uses of a provider that the count may miss

Elems(s) == {s[i] : i \in DOMAIN s}
Providers == Elems(Verifiers) \union Elems(Researchers)

ASSUME EnrichmentAssumption ==
  /\ Sound \subseteq Addresses /\ NoAddress \notin Addresses
  /\ Guess \subseteq Fields /\ IsFiniteSet(Fields)
  /\ {Verifiers, Researchers} \subseteq Seq(Providers)
  /\ Elems(Verifiers) \intersect Elems(Researchers) = {}
  /\ Quota \in [Providers -> Nat] /\ Reserve \in Nat
  /\ {Threshold, ResetAfter, Attempts} \subseteq Nat \ {0}
  /\ Keyless \subseteq Providers /\ MaxUncounted \in Nat

VARIABLES
  contact,   \* the contact's address, email_verification_status and the answer that
             \* verified it (its confidence: 90 for "valid", 95 for "assumed")
  entering,  \* addresses of verify_email requests past their look at the status
  filled,    \* columns of the company that hold a value
  used,      \* provider_usage.used of the month, up to the quota
  breaker,   \* state, failures up to the threshold, time since opened_at;
             \* history: time since it was last not open
  worker,    \* workers: what they do, the providers left, what they have read
  judged,    \* history: addresses and what they were found to be: "valid" by a
             \* provider, "assumed" valid by the fixture that stands in for one
  slipped,   \* history: the address came in while another was being verified
  calls,     \* history: uses let through to a provider that has a quota
  uncounted  \* history: uses that a later write of the count has left out

contactVars == <<contact, entering, slipped>>
countVars == <<used, calls, uncounted>>
enrichVars == <<contactVars, filled, countVars, breaker, worker, judged>>

Asleep == [job |-> "none", at |-> "next", left |-> <<>>, address |-> NoAddress,
           known |-> {}, seen |-> 0, tries |-> 0, answer |-> "none", gives |-> {}]

EnrichInit ==
  /\ contact \in [address : Addresses, status : {"unknown"}, from : {"none"}]
  /\ entering = {} /\ slipped = FALSE
  /\ filled = {}
  /\ used = [p \in Providers |-> 0]
  /\ breaker = [p \in Providers |-> [state |-> "closed", failures |-> 0, age |-> 0, down |-> 0]]
  /\ worker = [w \in EnrichWorkers |-> Asleep]
  /\ judged = {}
  /\ calls = [p \in Providers |-> 0] /\ uncounted = calls

Asked(w) == Head(worker[w].left)
Verifying(a) == \E w \in EnrichWorkers : worker[w].job = "verify" /\ worker[w].address = a

-----------------------------------------------------------------------------
(* The beginning of a waterfall                                             *)

\* An address that fails the local checks is answered at once, with no effect.
StartVerify(w) ==
  /\ worker[w] = Asleep /\ contact.address \in Sound
  /\ worker' = [worker EXCEPT ![w] =
       [Asleep EXCEPT !.job = "verify", !.left = Verifiers, !.address = contact.address]]
  /\ UNCHANGED <<contactVars, filled, countVars, breaker, judged>>

StartEnrich(w) ==
  /\ worker[w] = Asleep
  /\ worker' = [worker EXCEPT ![w] =
       [Asleep EXCEPT !.job = "enrich", !.left = Researchers, !.known = filled]]
  /\ UNCHANGED <<contactVars, filled, countVars, breaker, judged>>

\* No provider is left.
GiveUp(w) ==
  /\ worker[w].job # "none" /\ worker[w].left = <<>>
  /\ worker' = [worker EXCEPT ![w] = Asleep]
  /\ UNCHANGED <<contactVars, filled, countVars, breaker, judged>>

-----------------------------------------------------------------------------
(* track_provider_usage: SELECT, then UPDATE to the number it works out      *)

QuotaRead(w) ==
  /\ worker[w].at = "next" /\ worker[w].left # <<>>
  /\ worker' = [worker EXCEPT ![w].at = "quota", ![w].seen = used[Asked(w)]]
  /\ UNCHANGED <<contactVars, filled, countVars, breaker, judged>>

\* Variant: the reserve is forgotten.
WithinAll(p, n) == Quota[p] = 0 \/ n < Quota[p]

\* A row that this code inserts has no quota.
Within(p, n) == Quota[p] = 0 \/ n + Reserve < Quota[p]

\* The use is counted, whether or not the provider is then asked.  A count that
\* another worker has moved on since it was read is set back.
QuotaWrite(w) ==
  LET p == Asked(w)  n == worker[w].seen + 1 IN
  /\ worker[w].at = "quota"
  /\ used' = [used EXCEPT ![p] = IF n > Quota[p] THEN Quota[p] ELSE n]
  /\ worker' = [worker EXCEPT ![w] =
       IF Within(p, n) THEN [worker[w] EXCEPT !.at = "call", !.tries = 0]
                       ELSE [worker[w] EXCEPT !.at = "next", !.left = Tail(worker[w].left)]]
  /\ calls' = IF Quota[p] > 0 /\ Within(p, n) THEN [calls EXCEPT ![p] = @ + 1] ELSE calls
  /\ uncounted' = [uncounted EXCEPT ![p] = IF used[p] >= n THEN @ + used[p] + 1 - n ELSE @]
  /\ uncounted'[p] <= MaxUncounted
  /\ UNCHANGED <<contactVars, filled, breaker, judged>>

-----------------------------------------------------------------------------
(* An adapter: the breaker is asked at every try; success and failure are    *)
(* reported once, after the last one.                                        *)

\* CircuitBreaker.allow: half-open admits everybody.
Allows(b) == b.state # "open" \/ b.age >= ResetAfter

RecordSuccess(b) == [state |-> "closed", failures |-> 0, age |-> 0, down |-> 0]

RecordFailure(b) ==
  LET n == IF b.failures < Threshold THEN b.failures + 1 ELSE b.failures IN
  IF b.state = "half-open" \/ n >= Threshold
    THEN [state |-> "open", failures |-> n, age |-> 0, down |-> IF b.state = "open" THEN b.down ELSE 0]
    ELSE [b EXCEPT !.failures = n]

Admitted(w) ==
  LET p == Asked(w) IN
  /\ worker[w].at = "call" /\ p \notin Keyless /\ Allows(breaker[p])
  /\ breaker' = [breaker EXCEPT ![p].state = IF @ = "open" THEN "half-open" ELSE @, ![p].down = 0]
  /\ worker' = [worker EXCEPT ![w].at = "calling"]
  /\ UNCHANGED <<contactVars, filled, countVars, judged>>

Returns(w, answer, gives) ==
  worker' = [worker EXCEPT ![w].at = "answered", ![w].answer = answer, ![w].gives = gives]

\* What the fixture makes up: "valid", with a confidence of 0.95, or all that
\* was known of the company and Guess.
StandIn(w) ==
  IF worker[w].job = "verify"
    THEN /\ judged' = judged \union {<<worker[w].address, "assumed">>}
         /\ Returns(w, "assumed", {})
    ELSE /\ Returns(w, "fixture", worker[w].known \union Guess)
         /\ UNCHANGED judged

\* One try failed; after the last one the failure is recorded and the fixture
\* answers.
Failed(w) ==
  IF worker[w].tries + 1 < Attempts
    THEN /\ worker' = [worker EXCEPT ![w].at = "call", ![w].tries = @ + 1]
         /\ UNCHANGED <<breaker, judged>>
    ELSE /\ breaker' = [breaker EXCEPT ![Asked(w)] = RecordFailure(@)]
         /\ StandIn(w)

\* Without a key the fixture answers at once.
NotAsked(w) ==
  /\ worker[w].at = "call" /\ Asked(w) \in Keyless
  /\ StandIn(w)
  /\ UNCHANGED <<contactVars, filled, countVars, breaker>>

\* An open breaker counts as a failed try, and reports as one.
Rejected(w) ==
  /\ worker[w].at = "call" /\ Asked(w) \notin Keyless /\ ~Allows(breaker[Asked(w)])
  /\ Failed(w)
  /\ UNCHANGED <<contactVars, filled, countVars>>

ProviderFails(w) ==
  /\ worker[w].at = "calling"
  /\ Failed(w)
  /\ UNCHANGED <<contactVars, filled, countVars>>

\* "invalid" stands for every answer that says no, or that says nothing.
VerifierAnswers(w, answer) ==
  /\ worker[w].at = "calling" /\ worker[w].job = "verify"
  /\ breaker' = [breaker EXCEPT ![Asked(w)] = RecordSuccess(@)]
  /\ judged' = IF answer = "valid" THEN judged \union {<<worker[w].address, answer>>} ELSE judged
  /\ Returns(w, answer, {})
  /\ UNCHANGED <<contactVars, filled, countVars>>

ResearcherAnswers(w, G) ==
  /\ worker[w].at = "calling" /\ worker[w].job = "enrich"
  /\ breaker' = [breaker EXCEPT ![Asked(w)] = RecordSuccess(@)]
  /\ Returns(w, "found", G)
  /\ UNCHANGED <<contactVars, filled, countVars, judged>>

-----------------------------------------------------------------------------
(* The end of a waterfall                                                   *)

\* Variant: a domain that accepts every address is taken for an answer.
ConvincingAny(answer) == answer \in {"valid", "accept_all", "assumed"}

\* result == "valid" with a confidence of 0.9 and more.
Convincing(answer) == answer \in {"valid", "assumed"}

\* mark_provider_verified writes by lead and contact; the address it was for is
\* not compared.  The first answer ends the waterfall.
Judge(w) ==
  LET r == worker[w] IN
  /\ r.at = "answered" /\ r.job = "verify"
  /\ contact' = IF Convincing(r.answer) THEN [contact EXCEPT !.status = "verified", !.from = r.answer]
                                        ELSE contact
  /\ worker' = [worker EXCEPT ![w] = Asleep]
  /\ UNCHANGED <<entering, slipped, filled, countVars, breaker, judged>>

\* _update_company.  A provider's answer holds values only; the fixture's holds
\* every column as it was read: what another wrote meanwhile is emptied again.
Written(r) == IF r.answer = "fixture" THEN r.gives ELSE filled \union r.gives

\* Enough fields, or nothing new: the waterfall ends; else the next provider.
Weigh(w) ==
  LET r == worker[w]  all == r.known \union r.gives IN
  /\ r.at = "answered" /\ r.job = "enrich"
  /\ filled' = Written(r)
  /\ worker' = [worker EXCEPT ![w] =
       IF all = Fields \/ Cardinality(all) = Cardinality(r.known) THEN Asleep
       ELSE [Asleep EXCEPT !.job = "enrich", !.left = Tail(r.left), !.known = all]]
  /\ UNCHANGED <<contactVars, countVars, breaker, judged>>

-----------------------------------------------------------------------------
(* Other writers, and time                                                  *)

\* verify_email: a request finds the contact not verified, and then writes the
\* address it came with.
AskToEnter(a) ==
  /\ contact.status # "verified"
  /\ entering' = entering \union {a}
  /\ UNCHANGED <<contact, slipped, filled, countVars, breaker, worker, judged>>

EnterAddress(a) ==
  /\ a \in entering
  /\ entering' = entering \ {a}
  /\ contact' = [address |-> a, status |-> IF a \in Sound THEN "dns_ok" ELSE "failed", from |-> "none"]
  /\ slipped' = \E b \in Addresses \ {a} : Verifying(b)
  /\ UNCHANGED <<filled, countVars, breaker, worker, judged>>

\* An operator or the enrichment stage of the pipeline fills a column.
EnterField(f) ==
  /\ f \notin filled
  /\ filled' = filled \union {f}
  /\ UNCHANGED <<contactVars, countVars, breaker, worker, judged>>

\* Time only matters to a breaker that is open.
TimePasses(p) ==
  /\ breaker[p].state = "open" /\ breaker[p].down < 2 * ResetAfter
  /\ breaker' = [breaker EXCEPT ![p].age = IF @ < ResetAfter THEN @ + 1 ELSE @,
                                ![p].down = @ + 1]
  /\ UNCHANGED <<contactVars, filled, countVars, worker, judged>>

-----------------------------------------------------------------------------
EnrichStep(w) ==
  \/ StartVerify(w) \/ StartEnrich(w) \/ GiveUp(w)
  \/ QuotaRead(w) \/ QuotaWrite(w)
  \/ NotAsked(w) \/ Admitted(w) \/ Rejected(w) \/ ProviderFails(w)
  \/ \E answer \in {"valid", "accept_all", "invalid"} : VerifierAnswers(w, answer)
  \/ \E G \in SUBSET Fields : ResearcherAnswers(w, G)
  \/ Judge(w) \/ Weigh(w)

EnrichNext ==
  \/ \E w \in EnrichWorkers : EnrichStep(w)
  \/ \E a \in Addresses : AskToEnter(a) \/ EnterAddress(a)
  \/ \E f \in Fields : EnterField(f)
  \/ \E p \in Providers : TimePasses(p)

EnrichSpec == EnrichInit /\ [][EnrichNext]_enrichVars

-----------------------------------------------------------------------------
(* Properties                                                               *)

EnrichTypeOK ==
  /\ contact \in [address : Addresses, status : {"unknown", "failed", "dns_ok", "verified"},
                   from : {"none", "valid", "assumed"}]
  /\ entering \subseteq Addresses /\ filled \subseteq Fields /\ slipped \in BOOLEAN
  /\ judged \subseteq Addresses \X {"valid", "assumed"}
  /\ {used, calls, uncounted} \subseteq [Providers -> Nat]
  /\ breaker \in [Providers -> [state : {"closed", "open", "half-open"}, failures : 0..Threshold,
                                age : 0..ResetAfter, down : 0..(2 * ResetAfter)]]
  /\ \A w \in EnrichWorkers :
       /\ worker[w].job \in {"none", "verify", "enrich"}
       /\ worker[w].at \in {"next", "quota", "call", "calling", "answered"}
       /\ worker[w].known \subseteq Fields /\ worker[w].tries < Attempts

\* A contact that is verified holds an address that was judged as its row says:
\* by a provider (a confidence of 90), or by the fixture in its place (95).  A
\* domain that accepts every address does not do, and no order of workers and of
\* requests with other addresses leaves an address verified that was not, but for
\* one that came in while a worker was verifying another: the mark is set by
\* contact, not by address.
VerifiedAddress ==
  contact.status = "verified" => slipped \/ <<contact.address, contact.from>> \in judged

\* A provider with a quota is used until only its reserve is left, and not after
\* that, but for the uses that the count has lost to workers that counted at the
\* same time: each of those is paid for once, whatever the order of reads and
\* writes.
QuotaReserve ==
  \A p \in Providers : calls[p] > 0 => calls[p] + Reserve < Quota[p] + uncounted[p]

\* What providers/resilience.py:22 says of the breaker: reset_timeout after it
\* opened it is half-open and lets a call through.
HalfOpens ==
  [][\A w \in EnrichWorkers : Rejected(w) => breaker[Asked(w)].down < ResetAfter]_enrichVars

=============================================================================
