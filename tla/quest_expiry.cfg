SPECIFICATION Spec
CONSTANTS
  w1 = w1
  w2 = w2
  c1 = c1
  c2 = c2
  M = 1
  Deps <- OneMilestone
  HighRisk <- Nobody
  Workers = {w1, w2}
  Clients = {c1, c2}
  MaxSteps = 2
  MaxReplans = 1
  Threshold = 2
  MayTimeOut = FALSE
  Patient = FALSE
  MaxResumes = 2
  MaxPauses = 1
  MaxModifies = 1
  MaxCrashes = 0
  MaxExpiries = 1
SYMMETRY Symmetry
INVARIANT BudgetKept
INVARIANT EvidenceComplete
CHECK_DEADLOCK FALSE
