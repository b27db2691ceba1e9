SPECIFICATION Spec
CONSTANTS
  w1 = w1
  w2 = w2
  c1 = c1
  c2 = c2
  M = 1
  Deps <- OneMilestone
  HighRisk <- FirstOnly
  Workers = {w1, w2}
  Clients = {c1, c2}
  MaxSteps = 2
  MaxReplans = 1
  Threshold = 2
  MayTimeOut = FALSE
  Patient = FALSE
  MaxResumes = 3
  MaxPauses = 1
  MaxModifies = 0
  MaxCrashes = 1
  MaxExpiries = 0
SYMMETRY Symmetry
INVARIANT OneExecutor
CHECK_DEADLOCK FALSE
