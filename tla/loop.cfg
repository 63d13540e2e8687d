SPECIFICATION FairSpec
CONSTANTS
  c1 = c1
  c2 = c2
  Clients = {c1, c2}
  Fds = {f1, f2}
  Listener = listener
  None = None
  MaxClients = 2
  Chunk = 1
  MaxRead = 2
  MaxOutbuf = 1
  RecvBuffer = 1
  SendBuffer = 1
  Requests <- MCRequests
  Endings <- MCEndings
PROPERTY Served
PROPERTY Delivered
PROPERTY TickFires
PROPERTY Stops
INVARIANT Ownership
INVARIANT RightConnection
INVARIANT OutputWatched
