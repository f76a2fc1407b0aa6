SPECIFICATION FairSpec
CONSTANTS
  p1 = p1
  p2 = p2
  j1 = j1
  j2 = j2
  j3 = j3
  ai = ai
  llm = llm
  NoProvider = NoProvider
  NoJob = NoJob
  Jobs = {j1, j2, j3}
  Procs = {p1}
  Pools = {ai}
  PoolOf <- OnePool
  Priority <- Urgency
  Handled = {j1, j2}
  Providers = {llm}
  ProviderOf <- Limited
  Concurrency <- TwoTasks
  ProviderLimit <- OneCall
  MaxAttempts = 2
  Recurring = {j1, j2, j3}
  Exits = TRUE
  DbErrors = TRUE
PROPERTIES TaskEnds ServedWhileAlive
CHECK_DEADLOCK FALSE
