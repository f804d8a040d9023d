SPECIFICATION Spec
CONSTANTS
  MaxAttempts = 2
  MaxFailures = 1
  Empty = Empty
  None = None
INVARIANT AllKeysUsable
