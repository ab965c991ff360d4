CONSTANTS
  MATRIX_SIZE = 3
  BROADCAST_RADIUS = 1
  CONNECTIONS = 5
  MAX_MESSAGE_DATA = 4
  TTL = 6
  APPS_COUNT = 2
  Requests <- Casts
  Uninitialised = {5}
  Killed = {5}
  Pace = "free"
  MaxRequests = 3
  MaxResets = 0
  MaxKills = 0
  MaxRevives = 0
SPECIFICATION Spec
INVARIANTS OneWinner AnsweredWhenQuiet
PROPERTIES ImplementsService
CHECK_DEADLOCK FALSE
