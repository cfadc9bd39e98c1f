SPECIFICATION ValidatorsFairSpec
CONSTANTS
  Nobody = Nobody
  v1 = v1  v2 = v2  m2 = m2  m3 = m3  g1 = g1  g2 = g2  g3 = g3
  Accounts = {v1, v2, m2, m3, g1, g2, g3}
  Users = {v1, v2, g1, g2}
  Plans <- MCPlans
  Value = 3
  MaxGroupSize = 2
  Duration = 1
PROPERTY ChecksSuffice
PROPERTY ReordersToPlace
PROPERTY GoalsReached
