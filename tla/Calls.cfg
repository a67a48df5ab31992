SPECIFICATION Spec
CONSTANTS
  Clients = {"c1", "c2"}
  Uids = {"ann", "bob"}
  Lower <- Names
  Calls <- CallsOf
  Tokens <- BobsToken
  Accounts <- Start
  Stored <- Rows
  MaxCalls = 4
  MaxFaults = 1
CHECK_DEADLOCK FALSE
INVARIANTS TypeOK   ListsParsed
