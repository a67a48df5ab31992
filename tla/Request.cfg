CONSTANTS
  Callers = {1, 2}
  Category <- OwnCategory
  MaxRequests = 3
SPECIFICATION Spec
CHECK_DEADLOCK FALSE
INVARIANTS TypeOK NoFreedHandleWhileUp WrongAnswerOnlyAfterTimeout
PROPERTY RequestsEnd
