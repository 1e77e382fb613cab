SPECIFICATION FairSpec
CONSTANTS
  MaxDial = 2
  Command = {m1, m2}
  NoConn = NoConn
INVARIANTS SocketsAccounted TokenComesFirst
PROPERTIES CloseEndsRun ReadersEnd
CHECK_DEADLOCK FALSE
