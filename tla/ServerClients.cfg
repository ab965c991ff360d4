CONSTANTS
  Clients = {c1, c2, c3, c4}
  Notifiers = {n}
  MAX_CLIENT = 2
  MaxFd = 2
  MaxNotifies = 2
  MaxResets = 1
  Batch = 2
  ResetGap = 2
SPECIFICATION Spec
INVARIANTS TypeOK RightAnswer ResultDelivered
SYMMETRY Symmetry
CHECK_DEADLOCK FALSE
