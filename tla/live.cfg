SPECIFICATION FairSpec
CONSTANTS
  t1 = t1
  t2 = t2
  Tickers <- AllTickers
  Settings <- AllSettings
INVARIANTS
  TypeOK
  ExecutedOnce
  OneBranchUntilCrash
  FailBlocksUntilCrash
  RunsAfterParent
PROPERTIES
  DecisionIsFinal
  Settles
  LifecycleSpec
CHECK_DEADLOCK FALSE
