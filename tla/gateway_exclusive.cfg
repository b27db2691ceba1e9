\* One executor and one resume request at a time; the user edits files only
\* while the process is down.
SPECIFICATION FairSpec
CONSTANTS
  N = 2
  Executors = {e1}
  Resumers = {r1}
  p1 = p1
  A = A
  B = B
  Paths = {p1}
  Contents = {A, B}
  PathOf <- OnePath
  ContentOf <- TwoContent
  Writes = {1, 2}
  NoOverwrite = {2}
  LeaseOverlap = FALSE
  LiveEdits = FALSE
  MaxEdits = 2
  MaxCrashes = 2
  MaxFaults = 1
PROPERTY NoBlindRepeat
PROPERTY SettlesOrAsks
PROPERTY ImplementsReceipts
\* A closed Quest has nothing left to do.
CHECK_DEADLOCK FALSE
