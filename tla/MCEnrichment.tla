---------------------------- MODULE MCEnrichment ----------------------------
(* An instance of Enrichment in which one worker asks two verifiers, with      *)
(* retries, and time passes in two ticks until a breaker may half-open.        *)
EXTENDS Enrichment, TLC

CONSTANTS a1, col1, ver1, ver2, res1, w1

MCVerifiers == <<ver1, ver2>>
MCResearchers == <<res1>>
MCQuota == [p \in {ver1, ver2, res1} |-> 0]

=============================================================================
