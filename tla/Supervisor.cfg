CONSTANTS
  Node = {7, 25}
  MaxProcesses = 4
  MaxCommands = 3
  MaxFaults = 1
SPECIFICATION Spec
INVARIANTS TypeOK TableAgrees ConnectionFits PingTruthful StopEndsNodes
PROPERTIES ResetRestores
CHECK_DEADLOCK FALSE
