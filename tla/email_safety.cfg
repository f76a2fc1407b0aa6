SPECIFICATION Spec
CONSTANTS
  e1 = e1
  e2 = e2
  r1 = r1
  r2 = r2
  l1 = l1
  l2 = l2
  NoMessage = NoMessage
  Messages <- TwoMessages
  Leads = {l1}
  LeadOf <- OneLead
  Executions = {e1, e2}
  Reviewers = {r1, r2}
  MaxAttempts = 2
  DueLimit = 2
  SerialReview = TRUE
  LostAnswers = {"claim", "sent"}
  Aborts = TRUE
  OtherGates = TRUE
  ErrorOutput = TRUE
SYMMETRY Workers
INVARIANTS TypeOK ReplayIsTruthful AttemptBudget KilledStaysDown
PROPERTY SendsOnce
CHECK_DEADLOCK FALSE
