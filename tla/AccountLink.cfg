SPECIFICATION Spec
CONSTANTS
  MaxAttempts = 2
  MaxFailures = 1
  Empty = Empty
  None = None
INVARIANTS TypeOK OnlyAcceptedStored OneLinkOnDisk FlagIsLast LoadedIsOnDisk
PROPERTY DeleteSparesRegistered
