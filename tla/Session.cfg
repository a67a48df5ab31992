CONSTANTS
  Uids = {"youmenu", "u2"}
  Fds = {3, 4}
  Ops = {"login_token", "token", "logout", "check", "create", "modify_basic", "delete"}
  Accounts <- OneAdmin
  MaxRequests = 3
  MaxSessions = 7
SPECIFICATION Spec
CHECK_DEADLOCK FALSE
INVARIANTS TypeOK  SessionsUnique
PROPERTY HandlersReturn
