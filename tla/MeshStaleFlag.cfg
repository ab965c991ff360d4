CONSTANTS
  MATRIX_SIZE = 2
  BROADCAST_RADIUS = 1
  CONNECTIONS = 3
  MAX_MESSAGE_DATA = 2
  TTL = 4
  APPS_COUNT = 2
  Requests <- Floods
  Uninitialised = {5}
  Killed = {}
  Pace = "quiet"
  MaxRequests = 4
  MaxResets = 0
  MaxKills = 0
  MaxRevives = 0
SPECIFICATION Spec
INVARIANTS AnsweredWhenQuiet

CHECK_DEADLOCK FALSE
