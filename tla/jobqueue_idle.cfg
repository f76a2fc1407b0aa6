SPECIFICATION FairSpec
CONSTANTS
  p1 = p1
  p2 = p2
  j1 = j1
  j2 = j2
  j3 = j3
  ai = ai
  llm = llm
  NoProvider = NoProvider
  NoJob = NoJob
  Jobs = {j1, j3}
  Procs = {p1, p2}
  Pools = {ai}
  PoolOf <- OnePool
  Priority <- Urgency
  Handled = {j1, j3}
  Providers = {llm}
  ProviderOf <- Limited
  Concurrency <- TwoTasks
  ProviderLimit <- OneCall
  MaxAttempts = 2
  Recurring = {}
  Exits = FALSE
  DbErrors = FALSE
PROPERTY QueuedServed
CHECK_DEADLOCK FALSE
