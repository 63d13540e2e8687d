SPECIFICATION FairExpirySpec
CONSTANTS
  k1 = k1
  k2 = k2
  k3 = k3
  k4 = k4
  Nullopt = Nullopt
  Key = {k1, k2, k3, k4}
  Deadlines = {2, 3}
  StartTime = 1
  MaxTime = 3
  ClockStepsBack = TRUE
  SamplePerRound = 4
INVARIANTS
  IndexExact
  RoundsBounded
PROPERTIES
  ImplementsTable
  OverdueLeaves
