CONSTANTS
  Threads = {"t1", "t2"}
  Fds = {3, 4}
  Requests <- AllRequests
  Databases <- NewOrUsed
  MaxRequests = 4
  MaxCrashes = 1
SPECIFICATION Spec
CHECK_DEADLOCK FALSE
INVARIANTS TypeOK ListsWhole
PROPERTIES LastAdminKept  
