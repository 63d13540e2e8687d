SPECIFICATION FairSyncSpec
CONSTANTS
  Interval = 4
  Period = 2
  MaxLag = 2
INVARIANT WindowBounded
PROPERTY SyncedInTheEnd
INVARIANT NoneForgotten
