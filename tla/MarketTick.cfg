SPECIFICATION FairSpec
CONSTANTS
  MaxBar = 3
  Close = {10}
  Rate = {5}
  FallbackRate = 4
  FetchLimit = 2
  MaxFault = 1
  MaxRestart = 1
  Window = 2
  Interval = 1
  Capital = 120
  Inject = 100
  Order = {100}
INVARIANTS LedgerSound RecordsReconcile ScheduledInWindow
 
CHECK_DEADLOCK FALSE
