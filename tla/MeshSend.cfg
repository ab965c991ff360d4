CONSTANTS
  MATRIX_SIZE = 2
  BROADCAST_RADIUS = 1
  CONNECTIONS = 3
  MAX_MESSAGE_DATA = 5
  TTL = 4
  APPS_COUNT = 2
  Requests <- Crossing
  Uninitialised = {5}
  Killed = {}
  Pace = "free"
  MaxRequests = 2
  MaxResets = 0
  MaxKills = 0
  MaxRevives = 0
SPECIFICATION Spec
INVARIANTS NoBlackHole AnsweredWhenQuiet FloodsSpread
PROPERTIES ImplementsService
CHECK_DEADLOCK FALSE
