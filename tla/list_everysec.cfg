SPECIFICATION FairSpec
CONSTANTS
  k1 = k1
  k2 = k2
  t1 = t1
  None = None
  Key = {k1, k2}
  Text = {t1}
  MinI64 <- MCMinI64
  MaxI64 <- MCMaxI64
  Cmds <- ListCmds
  Policy = "everysec"
  SyncInterval = 1
  Snapshots <- SomeSnapshots
  ClockStepsBack = FALSE
  MaxTime = 4
  MaxLog = 2
INVARIANTS
  NoEmptyList
  RecoveryExact
PROPERTIES
  FailureStops
