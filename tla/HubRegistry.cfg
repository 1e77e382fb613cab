SPECIFICATION FairSpec
CONSTANTS
  User = {u1, u2}
  Conn = {c1, c2, c3}
  Sender = {s1, s2}
  NoConn = NoConn
INVARIANTS EntryHasHandler CloseSparesSends NoSocketLeak
PROPERTIES EndedLeaves
CHECK_DEADLOCK FALSE
