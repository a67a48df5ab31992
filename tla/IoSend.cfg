CONSTANTS
  Conns = {c1, c2}
  Fds = {1, 2}
  NoConn = NoConn
  MaxBodies = 2
  Notifies = TRUE
SPECIFICATION Spec
CHECK_DEADLOCK FALSE
INVARIANTS TypeOK NoStrandedBody
 
