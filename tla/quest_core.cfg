SPECIFICATION Spec
CONSTANTS
  w1 = w1
  w2 = w2
  c1 = c1
  M = 2
  Deps <- Chain
  HighRisk <- FirstOnly
  Workers = {w1, w2}
  Clients = {c1}
  MaxSteps = 4
  MaxReplans = 1
  Threshold = 2
  MayTimeOut = TRUE
  Patient = FALSE
  MaxResumes = 3
  MaxPauses = 2
  MaxModifies = 0
  MaxCrashes = 1
  MaxExpiries = 0
INVARIANT QuietWhenStopped
INVARIANT ApprovedBeforeTool
PROPERTY TerminalStays
PROPERTY CompletedKept
CHECK_DEADLOCK FALSE
