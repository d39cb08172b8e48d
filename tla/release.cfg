SPECIFICATION Spec
CONSTANTS
  Manifest <- TwoPolicies
  Evaluators = {e1, e2}
  MaxRevisions = 2
  MaxExceptions = 1
  MaxTime = 1
INVARIANTS
  OneOutcome
  RefusedForAReason
  ReadyIsSound
SYMMETRY Interchangeable
CHECK_DEADLOCK FALSE
