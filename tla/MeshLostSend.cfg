CONSTANTS
  MATRIX_SIZE = 3
  BROADCAST_RADIUS = 1
  CONNECTIONS = 5
  MAX_MESSAGE_DATA = 4
  TTL = 6
  APPS_COUNT = 2
  Requests <- Corner
  Uninitialised = {5}
  Killed = {7, 8}
  Pace = "free"
  MaxRequests = 1
  MaxResets = 0
  MaxKills = 0
  MaxRevives = 0
SPECIFICATION Spec
INVARIANTS AnsweredWhenQuiet

CHECK_DEADLOCK FALSE
