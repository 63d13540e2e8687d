SPECIFICATION BootSpec
CONSTANTS
  Streams <- MCStreams
  MaxFrameBytes = 7
  MaxArgs = 3
  MaxInt = 99
  MaxU64 = 15
  MaxPort = 9
  MaxThreads = 3
  MinFrame = 4
  MaxMaxClients = 8
  Policies <- MCPolicies
  Levels <- MCLevels
  Defaults <- MCDefaults
  Empty = Empty
  Base = 4
  W32 = 2
  W64 = 2
  kMagic <- MCMagic
  Boots <- MCBoots
  None = None
  Nullopt = Nullopt
  always = always
  no = no
  info = info
  debug = debug
  path = path
  junk = junk
INVARIANT AcceptedAsTold
