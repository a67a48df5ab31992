SPECIFICATION Spec
CONSTANTS
  Conns = {1, 2}
  Fds = {5}
  Keys <- KeyOfEach
  NoConn = 0
  NoKey = "zeros"
CHECK_DEADLOCK FALSE
INVARIANTS TypeOK KeysAgree
PROPERTIES  DisconnectTold
