SPECIFICATION Spec
CONSTANTS
  alice = alice
  bob = bob
  k1 = k1
  k2 = k2
  Keys <- MCKeys
  Empty = Empty
  None = None
  Peers <- MCPeers
  Messages <- MCMessages
  MaxPosts = 2
  MaxCrashes = 0
  MaxDrops = 0
  MaxFailures = 0
INVARIANT SessionStateSaved
CHECK_DEADLOCK FALSE
