SPECIFICATION Spec
CONSTANTS
  c1 = c1
  c2 = c2
  a1 = a1
  a2 = a2
  NoText = NoText
  Checkers = {c1}
  Authors = {a1}
  Ceiling = 3
  MaxText = 3
  MaxRuns = 5
  SerialResubmit = FALSE
INVARIANT ReviewedTextSent
CHECK_DEADLOCK FALSE
