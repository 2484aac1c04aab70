CONSTANTS
  Client = client
  Server = server
  Calls = {1, 2, 3}
  Limit = 1
  MaxQueued = 1
  MaxDepth = 2
  Timeouts = FALSE
  Ends = TRUE
  Oversize = FALSE
  Starves = FALSE
  Requests = {1}
  Passes = {"nothing", "lent"}
  Answers = {"ok", "object"}
SPECIFICATION Spec
PROPERTY EveryCallReturns
CHECK_DEADLOCK FALSE
