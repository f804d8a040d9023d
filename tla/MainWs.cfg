SPECIFICATION Spec
CONSTANTS
  KEEPALIVE_MS = 3
  APP_KEEPALIVE_MS = 5
  RECONNECT_BACKOFF_INITIAL_MS = 2
  RECONNECT_BACKOFF_MAX_MS = 9
  DeviceIds = {0, 1, 127, 128}
  Busy = 2
  MaxRead = 6
  MaxWaits = 5
INVARIANTS TypeOK AttemptsSpaced KeepalivesCurrent
CHECK_DEADLOCK FALSE
