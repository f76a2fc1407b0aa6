---------------------------- MODULE PartsProofs ----------------------------
(***************************************************************************)
(* What TLC sees of the components in MCParts, next to each other and with *)
(* a side of some held still, are behaviours of the components: whatever   *)
(* is proved of one of them without its fairness holds in that run, too.   *)
(***************************************************************************)
EXTENDS MCParts, LeadProofs, SchedulerProofs, ScoringProofs, AppProcessProofs

\* A step of the composition is a step of each component, or none for it: a part
\* leaves alone what is not its component's.
LEMMA PartsStep ==
  ASSUME [PartsNext]_partsVars
  PROVE  /\ [LeadNext]_leadVars /\ [OutNext]_outVars /\ [IntentNext]_intentVars
         /\ [PipeNext]_pipeVars /\ [EnrichNext]_enrichVars /\ [ScoringNext]_sample
         /\ [ResearchNext]_researchVars /\ [AppNext]_appVars
  BY DEF PartsNext, partsVars

\* A behaviour of the composition is one of every component (IntentEvents and
\* Pipeline without the fairness of their specifications, which the composition
\* has in their parts only).
THEOREM PartsAreWhole ==
  PartsSpec => /\ LeadSpec /\ OutSpec /\ EnrichSpec /\ ScoringSpec /\ ResearchSpec /\ AppSpec
               /\ IntentInit /\ [][IntentNext]_intentVars
               /\ PipeInit /\ [][PipeNext]_pipeVars
<1>1. PartsInit => /\ LeadInit /\ OutInit /\ IntentInit /\ PipeInit
                   /\ EnrichInit /\ ScoringInit /\ ResearchInit /\ AppInit
  BY DEF PartsInit
<1>2. [PartsNext]_partsVars =>
        /\ [LeadNext]_leadVars /\ [OutNext]_outVars /\ [IntentNext]_intentVars
        /\ [PipeNext]_pipeVars /\ [EnrichNext]_enrichVars /\ [ScoringNext]_sample
        /\ [ResearchNext]_researchVars /\ [AppNext]_appVars
  BY PartsStep
<1> QED
  BY <1>1, <1>2, PTL DEF PartsSpec, LeadSpec, OutSpec, EnrichSpec, ScoringSpec, ResearchSpec,
     AppSpec

\* Every component keeps its types next to the others, whichever part runs.
THEOREM PartsTypeCorrect == PartsSpec => []PartsTypeOK
<1>1. LeadTypeOK /\ OutTypeOK /\ IntentTypeOK /\ PipeTypeOK /\ EnrichTypeOK
        /\ ScoringTypeOK /\ ResearchTypeOK /\ AppTypeOK => PartsTypeOK
  BY DEF PartsTypeOK
<1>2. Schedule => IntentTypeOK
  BY DEF Schedule
<1> QED
  BY <1>1, <1>2, PartsAreWhole, LeadTypeCorrect, OutTypeCorrect, ScheduleHolds, PipeTypesHold,
     PipeTypesTell, EnrichTypeCorrect, ScoringTypeCorrect, ResearchTypeCorrect,
     AppTypeCorrect, PTL

=============================================================================
