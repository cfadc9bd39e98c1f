\* Three scenarios of one contract.
CONSTANTS
  Owner = Owner
  Holder = Holder
  Heirs = {h1, h2}
  Groups = {g1, g2}
  Contract = Contract
  Scenarios <- AllScenarios
  Requirement = 1
  Total = 3
  MaxDollars = 1
  MaxTxs = 6
SPECIFICATION FairSpec
CHECK_DEADLOCK FALSE
INVARIANT NoDollarsLost
INVARIANT NeverTurnedBack
INVARIANT OwnerFollowsBeneficiary
PROPERTY Refunded
