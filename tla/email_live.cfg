SPECIFICATION FairSpec
CONSTANTS
  e1 = e1
  e2 = e2
  r1 = r1
  r2 = r2
  l1 = l1
  l2 = l2
  NoMessage = NoMessage
  Messages <- TwoMessages
  Leads = {l1}
  LeadOf <- OneLead
  Executions = {e1}
  Reviewers = {r1}
  MaxAttempts = 2
  DueLimit = 1
  SerialReview = TRUE
  LostAnswers = {"claim", "smtp", "sent"}
  Aborts = FALSE
  OtherGates = FALSE
  ErrorOutput = TRUE
PROPERTY ApprovedServed
INVARIANTS ApprovedBeforeSend SentWasDelivered
CHECK_DEADLOCK FALSE
