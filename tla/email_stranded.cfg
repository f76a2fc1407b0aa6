SPECIFICATION FairSpec
CONSTANTS
  e1 = e1
  e2 = e2
  r1 = r1
  r2 = r2
  l1 = l1
  l2 = l2
  NoMessage = NoMessage
  Messages <- OneMessage
  Leads = {l1, l2}
  LeadOf <- TwoLeads
  Executions = {e1}
  Reviewers = {r1}
  MaxAttempts = 2
  DueLimit = 1
  SerialReview = TRUE
  LostAnswers = {}
  Aborts = FALSE
  OtherGates = FALSE
  ErrorOutput = FALSE
PROPERTY SendingResolves
CHECK_DEADLOCK FALSE
