SPECIFICATION Spec
CONSTANTS
  k1 = k1
  k2 = k2
  t1 = t1
  None = None
  Key = {k1}
  Text = {t1}
  MinI64 <- MCMinI64
  MaxI64 <- MCMaxI64
  Cmds <- StringCmds
  Policy = "always"
  SyncInterval = 2
  Snapshots <- NoSnapshot
  ClockStepsBack = FALSE
  MaxTime = 6
  MaxLog = 3
INVARIANTS
  RecoveredView
