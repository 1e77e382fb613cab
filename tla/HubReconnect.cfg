SPECIFICATION Spec
CONSTANTS
  User = {u1}
  Conn = {c1, c2}
  Sender = {s1}
  NoConn = NoConn
PROPERTIES UnregisteredByOwnHandler
CHECK_DEADLOCK FALSE
