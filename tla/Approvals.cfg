CONSTANTS
  Owners = {a, b, c}
  Required = 2
  Proposals = {p1, p2}
  Hotfix = hotfix
  Withdraw = withdraw
  None = none
  a = a
  b = b
  c = c
  p1 = p1
  p2 = p2
  Goals <- MCGoals
  MaxRefunds = 1
  MaxNonce = 1
SPECIFICATION FairSpec
INVARIANT QuorumAsked
INVARIANT OnePendingPerCall
INVARIANT SafeSettled
PROPERTY EventuallyDone
