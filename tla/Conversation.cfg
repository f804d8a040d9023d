SPECIFICATION FairSpec
CONSTANTS
  alice = alice
  bob = bob
  k1 = k1
  k2 = k2
  Keys <- MCKeys
  Empty = Empty
  None = None
  Peers <- MCPeers
  Messages <- MCMessages
  MaxPosts = 2
  MaxCrashes = 1
  MaxDrops = 1
  MaxFailures = 1
INVARIANTS TypeOK AckedWasHandled ShownOnce RecipientWasShown RecordsAgree DecryptedIsShown ShownFromPinned
PROPERTY InboxDrains
CHECK_DEADLOCK FALSE
