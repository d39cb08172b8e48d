SPECIFICATION Spec
CONSTANTS
  t1 = t1
  t2 = t2
  Tickers <- AllTickers
  Settings <- OneCrash
INVARIANTS
  FailBlocks
CHECK_DEADLOCK FALSE
