SPECIFICATION Spec
CONSTANTS
  k1 = k1
  k2 = k2
  t1 = t1
  None = None
  Key = {k1}
  Text = {t1}
  MinI64 <- MCMinI64
  MaxI64 <- MCMaxI64
  Cmds <- FewCmds
  Policy = "always"
  SyncInterval = 2
  Snapshots <- NoSnapshot
  ClockStepsBack = FALSE
  MaxTime = 5
  MaxLog = 2
INVARIANTS
  RecoversWholeCommands
