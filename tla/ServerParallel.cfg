CONSTANTS
  Clients = {c1, c2, c3, c4}
  Notifiers = {n}
  MAX_CLIENT = 2
  MaxFd = 2
  MaxNotifies = 1
  MaxResets = 0
  Batch = 3
  ResetGap = 0
SPECIFICATION Spec
INVARIANTS ResultDelivered

SYMMETRY Symmetry
CHECK_DEADLOCK FALSE
