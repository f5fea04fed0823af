CONSTANTS
  Workers = {w1, w2, w3}
  Limit = 2
  Window = 2
  MaxTime = 5
  MaxRequests = 5
  MaxFaults = 1
SPECIFICATION Spec
SYMMETRY WorkerSymmetry
INVARIANTS
  TypeOK
  WindowQuota
  NoFalseRefusal
  CounterLifetime
CHECK_DEADLOCK FALSE
