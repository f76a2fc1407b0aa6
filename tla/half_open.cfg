SPECIFICATION EnrichSpec
CONSTANTS
  a1 = a1   col1 = col1   ver1 = ver1   ver2 = ver2   res1 = res1   w1 = w1
  Addresses = {a1}
  Sound = {a1}
  Fields = {col1}
  Guess = {col1}
  Verifiers <- MCVerifiers
  Researchers <- MCResearchers
  Quota <- MCQuota
  Reserve = 1
  EnrichWorkers = {w1}
  Threshold = 2
  ResetAfter = 2
  Attempts = 2
  NoAddress = NoAddress
  Keyless = {}
  MaxUncounted = 0
PROPERTIES HalfOpens
CHECK_DEADLOCK FALSE
