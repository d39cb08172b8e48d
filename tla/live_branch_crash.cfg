SPECIFICATION Spec
CONSTANTS
  t1 = t1
  t2 = t2
  Tickers <- AllTickers
  Settings <- OneCrash
INVARIANTS
  ExactlyOneBranch
CHECK_DEADLOCK FALSE
