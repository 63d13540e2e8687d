SPECIFICATION FairSpec
CONSTANTS
  N = 3
  MaxBatch = 1
  MaxClients = 1
  Wrap = 3
  Unset = Unset
INVARIANT NoLostUpdate
INVARIANT NobodyLeft
INVARIANT StatusTruthful
PROPERTY NoCommandAfterFailure
PROPERTY ShutsDown
