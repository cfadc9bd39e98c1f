CONSTANTS
  Nobody = nobody
  Operators = {alice, bob, carol, dave}
  Voter = voter
  Groups = {g1, g2, g3}
  alice = alice
  bob = bob
  carol = carol
  dave = dave
  g1 = g1
  g2 = g2
  g3 = g3
  CommandOf <- MCCommandOf
  Casts <- MCCasts
  Elected <- MCElected
  Chains <- MCChains
  MaxEpoch = 3
  MaxVotes = 1
  MaxLeaves = 1
SPECIFICATION FairSpec
INVARIANT RemainingExact
INVARIANT PaysWhenOrderKept
INVARIANT ActivatesAfterWait
PROPERTY StartedEpochEnds
