SPECIFICATION FairSpec
CONSTANTS
  p1 = p1
  p2 = p2
  apply1 = apply1
  restore1 = restore1
  Procs = {p1, p2}
  ApplyOps = {apply1}
  RestoreOps = {restore1}
  Bases = {"orig", "edited"}
  Original = "orig"
  MaxEdits = 1
  MaxFailures = 1
  MaxCalls = 2
INVARIANT OneBackedUpEffect ReceiptTrue RestoreUndoes NeverRefused
PROPERTY IntentSettles
CHECK_DEADLOCK FALSE
