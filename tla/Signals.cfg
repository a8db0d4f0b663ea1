SPECIFICATION Spec
CONSTANTS
  Signal = {2, 9, 14}
  SIGALRM = 14
  SIGKILL = 9
  MAX_PENDING_SIGNALS = 8
  MaxDepth = 2
INVARIANTS
  NoCompletePanic
CHECK_DEADLOCK FALSE
