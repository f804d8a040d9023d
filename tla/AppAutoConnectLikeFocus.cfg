SPECIFICATION Spec
CONSTANTS
  MaxPosts = 2
  MaxRuns = 2
  None = None
INVARIANT AutoConnectLikeFocus
CHECK_DEADLOCK FALSE
