CONSTANTS
  Principal = {main}
  Peer = {node}
  CommandLines <- MCCommandLines
  Intent <- MCIntent
  Scripts <- MCScripts
  Number <- MCNumber
  Text <- MCText
  Stray = {0, 1, 3}
  APP_MESSAGE_LEN = 4
  BROADCAST_RADIUS = 3
  CAPACITY = 1
  MaxCapacity = 6
SPECIFICATION Spec
INVARIANTS TypeOK WatchedOnce HandledAsMeant WaitsForTalkersOnly
PROPERTIES EveryRequestHandled
CHECK_DEADLOCK FALSE
