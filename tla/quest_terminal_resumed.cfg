SPECIFICATION Spec
CONSTANTS
  w1 = w1
  w2 = w2
  c1 = c1
  c2 = c2
  M = 1
  Deps <- OneMilestone
  HighRisk <- Nobody
  Workers = {w1, w2}
  Clients = {c1, c2}
  MaxSteps = 3
  MaxReplans = 1
  Threshold = 2
  MayTimeOut = FALSE
  Patient = FALSE
  MaxResumes = 2
  MaxPauses = 1
  MaxModifies = 0
  MaxCrashes = 0
  MaxExpiries = 0
PROPERTY TerminalStays
CHECK_DEADLOCK FALSE
