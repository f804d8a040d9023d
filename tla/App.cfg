SPECIFICATION Spec
CONSTANTS
  MaxPosts = 2
  MaxRuns = 2
  None = None
INVARIANTS TypeOK AtMostOneWorker WorkerNeedsAccount FocusUntilOnline PostedOnce
CHECK_DEADLOCK FALSE
