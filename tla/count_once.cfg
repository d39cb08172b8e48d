SPECIFICATION Spec
CONSTANTS
  code = code
  None = None
  Events = {e1, e2, e3}
  CodeOf <- OneCode
  MaxCrashes = 2
  MaxFailures = 1
INVARIANTS
  CountedOnce
  AppliedIsCountedUntilFault
  LossDisclosed
PROPERTIES
  CounterSpec
SYMMETRY RequestSymmetry
CHECK_DEADLOCK FALSE
