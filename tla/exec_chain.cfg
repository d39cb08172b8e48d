SPECIFICATION FairSpec
CONSTANTS
  first = first
  second = second
  Null = Null
  Stages <- ChainStages
  DependsOn <- ChainDeps
  FallbackOf <- ChainFallback
  Uncertain = {second}
  Workers = {w1, w2}
  DispatchWorkers = {w2}
  Sweepers = {z1}
  Operators = {o1}
  MaxStageAttempts = 1
  MaxClaims = 2
  MaxCrashes = 1
INVARIANTS
  RunsAfterDependencies
  RunningHasHolder
PROPERTIES
  RunningResolves
CHECK_DEADLOCK FALSE
