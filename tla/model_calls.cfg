SPECIFICATION FairSpec
CONSTANTS
  c1 = c1
  c2 = c2
  k1 = k1
  k2 = k2
  Callers = {c1, c2}
  Keys = {k1, k2}
  Inputs = {"brief"}
  Quotes <- MCQuotes
  Usages <- MCUsages
  InputRate = 1
  OutputRate = 2
  ReserveOutputRate = 2
  MaxCall = 3
  MaxTotal = 7
  MaxTokens = 5
  MaxAttempts = 2
  MaxVersion = 2
  MaxCrashes = 1
  MaxRuns = 3
INVARIANT BudgetHeld OneAnswer BilledIsCounted
PROPERTY CurrentWhenAccepted AttemptsClose
CHECK_DEADLOCK FALSE
