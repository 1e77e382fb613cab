\* More rows than the query reads: the scheduled buy of the documents (expected to fail).
SPECIFICATION Spec
CONSTANTS
  MaxBar = 4
  Close = {1}
  Rate = {1}
  FallbackRate = 1
  FetchLimit = 2
  MaxFault = 0
  MaxRestart = 0
  Window = 2
  Interval = 2
  Capital = 100
  Inject = 100
  Order = {100}
INVARIANT ScheduledBuy
CHECK_DEADLOCK FALSE
