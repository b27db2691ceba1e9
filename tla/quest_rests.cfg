SPECIFICATION FairSpec
CONSTANTS
  w1 = w1
  w2 = w2
  c1 = c1
  M = 2
  Deps <- Chain
  HighRisk <- SecondOnly
  Workers = {w1, w2}
  Clients = {c1}
  MaxSteps = 3
  MaxReplans = 1
  Threshold = 2
  MayTimeOut = FALSE
  Patient = TRUE
  MaxResumes = 3
  MaxPauses = 0
  MaxModifies = 0
  MaxCrashes = 1
  MaxExpiries = 0
PROPERTY ComesToRest
CHECK_DEADLOCK FALSE
