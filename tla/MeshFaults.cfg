CONSTANTS
  MATRIX_SIZE = 2
  BROADCAST_RADIUS = 1
  CONNECTIONS = 3
  MAX_MESSAGE_DATA = 1
  TTL = 4
  APPS_COUNT = 2
  Requests <- SendAndUnicast
  Uninitialised = {5}
  Killed = {}
  Pace = "quiet"
  MaxRequests = 2
  MaxResets = 1
  MaxKills = 1
  MaxRevives = 1
SPECIFICATION Spec
INVARIANTS TypeOK LinksCarry HandledByAddressee NextHopIsNeighbour ConnectsToNeighbours
PROPERTIES ImplementsService
CHECK_DEADLOCK FALSE
