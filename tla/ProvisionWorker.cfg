SPECIFICATION FairSpec
CONSTANTS
  e1 = e1
  e2 = e2
  Envelopes <- MCEnvelopes
  READ_TIMEOUT = 2
  MaxRead = 3
  KEEPALIVE = 5
  DEADLINE = 11
  None = None
INVARIANTS TypeOK PageAccountedFor FirstResultWins NoResultWithheld KeepaliveCadence NothingLeftRunning
PROPERTIES OneShotSpec LinkReturns
