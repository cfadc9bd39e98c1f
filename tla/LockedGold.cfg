\* Two terminals on one account, two commands in each.
CONSTANTS
  Clients = {c1, c2}
  Ops = {"lock", "unlock", "withdraw"}
  Values = {2}
  Total = 3
  Fees = {0, 1}
  Period = 1
  MaxTime = 1
  MaxRuns = 2
SPECIFICATION FairSpec
INVARIANT LocksPartlyOnlyForGas
INVARIANT LocksExactly
PROPERTY LockAndUnlockEnd
