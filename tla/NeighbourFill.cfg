\* The values of common/include/settings.h and node/src/node_essentials.c.
CONSTANTS
  MATRIX_SIZE = 10
  BROADCAST_RADIUS = 3
  CONNECTIONS = 29
SPECIFICATION Spec
INVARIANTS TypeOK FillsNeighbourhood ServerAlsoCounted
CHECK_DEADLOCK FALSE
