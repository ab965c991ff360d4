CONSTANTS
  MATRIX_SIZE = 2
  BROADCAST_RADIUS = 1
  CONNECTIONS = 3
  MAX_MESSAGE_DATA = 5
  TTL = 4
  APPS_COUNT = 2
  Requests <- Assorted
  Uninitialised = {5}
  Killed = {}
  Pace = "quiet"
  MaxRequests = 2
  MaxResets = 1
  MaxKills = 0
  MaxRevives = 0
SPECIFICATION FairSpec

PROPERTIES EveryMessageEnds EveryRequestAnswered
CHECK_DEADLOCK FALSE
