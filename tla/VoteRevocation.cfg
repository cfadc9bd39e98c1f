\* Every distribution of votes over three groups, one step of others.
CONSTANTS
  Nobody = Nobody
  Groups = {g1, g2, g3}
  Ops = {"Election.revoke", "ReleaseGold.revoke", "ReleaseGold.revokeAllVotesForGroup", "ReleaseGold.revokeAllVotesForAllGroups"}
  MaxVotes = 2
  MaxTotal = 4
  MaxNoise = 1
  MaxRuns = 1
SPECIFICATION Spec
INVARIANT ElectionRevokeSucceeds
INVARIANT FreshHintsAccepted
INVARIANT RevokesExactly
SYMMETRY GroupsSymmetry
