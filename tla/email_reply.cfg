SPECIFICATION Spec
CONSTANTS
  e1 = e1
  e2 = e2
  r1 = r1
  r2 = r2
  l1 = l1
  l2 = l2
  NoMessage = NoMessage
  Messages <- OneMessage
  Leads = {l1}
  LeadOf <- OneLead
  Executions = {e1}
  Reviewers = {r1}
  MaxAttempts = 3
  DueLimit = 25
  SerialReview = TRUE
  LostAnswers = {}
  Aborts = FALSE
  OtherGates = FALSE
  ErrorOutput = TRUE
PROPERTY NoClaimAfterReply
CHECK_DEADLOCK FALSE
