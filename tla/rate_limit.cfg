SPECIFICATION Spec
CONSTANTS
  Clients = {c1, c2}
  Limit = 2
  Window = 2
  MaxTime = 5
INVARIANTS
  NeverOverLimit
  NeverRefusedEarly
CHECK_DEADLOCK FALSE
