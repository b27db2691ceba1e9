SPECIFICATION Spec
CONSTANTS
  N = 2
  Executors = {e1, e2}
  Resumers = {r1}
  p1 = p1
  A = A
  B = B
  Paths = {p1}
  Contents = {A, B}
  PathOf <- OnePath
  ContentOf <- TwoContent
  Writes = {1}
  NoOverwrite = {}
  LeaseOverlap = TRUE
  LiveEdits = TRUE
  MaxEdits = 1
  MaxCrashes = 1
  MaxFaults = 1
INVARIANT ReceiptLinked
INVARIANT CommittedWasOnDisk
PROPERTY SettledIsFinal
CHECK_DEADLOCK FALSE
