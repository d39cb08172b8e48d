SPECIFICATION Spec
CONSTANTS
  first = first
  second = second
  Null = Null
  Stages <- OneStage
  DependsOn <- NoDeps
  FallbackOf <- NoFallback
  Uncertain = {}
  Workers = {w1, w2}
  DispatchWorkers = {w2}
  Sweepers = {z1}
  Operators = {o1, o2}
  MaxStageAttempts = 2
  MaxClaims = 4
  MaxCrashes = 0
INVARIANTS
  RetryBudget
  ClaimsAreLicensed
  AttemptNumberNeverAhead
PROPERTIES
  AbandonedIsFinal
SYMMETRY OperatorSymmetry
CHECK_DEADLOCK FALSE
