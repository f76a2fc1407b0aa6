SPECIFICATION PartsSpec
CONSTANTS
  l1 = l1   l2 = l2   co1 = co1   n1 = n1   n2 = n2   s1 = s1   s2 = s2   s3 = s3   k1 = k1
  w1 = w1   w2 = w2
  m1 = m1   f1 = f1   m2 = m2   b1 = b1   b2 = b2   dom = dom   camp1 = camp1   camp2 = camp2
  e1 = e1   e2 = e2   g1 = g1   t1 = t1   t2 = t2   t3 = t3
  pain1 = pain1   pain2 = pain2   offer1 = offer1   offer2 = offer2
  a1 = a1   a2 = a2   ver1 = ver1   ver2 = ver2   res1 = res1   col1 = col1   col2 = col2   j1 = j1   j2 = j2
  Parts = {"leads", "outbound", "switches", "schedule", "intent", "pipeline", "reruns", "verification", "enrichment", "scoring", "scores", "app"}

  Leads = {l1, l2}
  Companies = {co1}
  CompanyOf <- MCCompanyOf
  Numbers = {n1, n2}
  PhoneOf <- MCPhoneOf
  Spellings = {s1, s2, s3}
  Canonical <- MCCanonical
  Calls = {k1}
  Desks = {w1, w2}
  NoLead = NoLead

  ByPriority <- MCByPriority
  OutLeadOf <- MCOutLeadOf
  CampaignOf <- MCCampaignOf
  FollowUps = {f1}
  Hot = {m2}
  Boxes = {b1, b2}
  DomainOf <- MCDomainOf
  DailyLimit <- MCDailyLimit
  SentToday <- MCSentToday
  DomainCap <- MCDomainCap
  MinNew = 2
  NewPct = 40
  FollowPct = 30
  Tickers = {w1}
  Operators = {w1, w2}
  NoBox = NoBox
  NoTarget = NoTarget
  Pausable = {b2, camp1, "all"}
  HealthSeen = {"restricted"}
  ModesUsed = {"hybrid", "shadow"}

  Events = {e1, e2}
  EventLead <- MCEventLead
  Signals = {g1}
  SignalLead <- MCSignalLead
  Slots = {t1, t2, t3}
  SchedTickers = {w1, w2}
  Processors = {w1}
  BatchLimit = 1
  NoSlot = NoSlot
  NoJob = NoJob
  QueueFails = TRUE
  TickerDies = TRUE
  PromptTicks = TRUE

  Prospects = {l1}
  Pains = {pain1, pain2}
  Offers = {offer1, offer2}
  PainToOffer <- MCPainToOffer
  AnyOffer = AnyOffer
  None = None
  Branch <- MCBranch
  Execs = {w1, w2}
  MaxTries = 2
  MaxRuns = 2

  Addresses = {a1, a2}
  Sound = {a1, a2}
  Fields = {col1, col2}
  Guess = {col1}
  Verifiers <- MCVerifiers
  Researchers <- MCResearchers
  Quota <- MCQuota
  Reserve = 1
  EnrichWorkers = {w1, w2}
  Threshold = 2
  ResetAfter = 1
  Attempts = 2
  NoAddress = NoAddress
  Keyless = {ver2}
  MaxUncounted = 1

  RolesSeen = {"dispatcher", "receptionist", "other"}
  IntentsSeen <- MCIntentsSeen
  FeaturesSeen <- MCFeaturesSeen
  ScoreRest = {0, 30, 55}
  MaxAge = 62
  SignsSeen = {"single_location", "owner_visible", "residential_focus", "franchise", "careers_page", "enterprise_signals"}
  MailTotals = {1, 7, 20, 150}
  MaxBad = 6
  DayLength = 24
  WindowStart = 8
  WindowEnd = 16
  Gap = 2
  Minute = 2

  Postings = {j1}
  DaysSeen = {0, 61}
  ScoresSeen = {100}
  ProblemsSeen = {"high"}
  Analysts = {w1}
  MaxMeetings = 2

  Files = 1
  Backends = {w1, w2}
  AuthLimit = 1
  GeneralLimit = 2
  Window = 2

INVARIANTS PartsTypeOK DurationAsReported WithinCapacity DraftFits VerifiedAddress QuotaReserve CalledWasHiring SlotsInWindow RateLimited
PROPERTIES LeadEdges DeclinedNotDialed PausesHold CancelledStays ServesEveryTime EventsCount RunEnds BadNewsNeverPays MigratedOnce
CHECK_DEADLOCK FALSE
