CONSTANTS
  Client = client
  Server = server
  Calls = {1, 2}
  Limit = 1
  MaxQueued = 1
  MaxDepth = 2
  Timeouts = TRUE
  Ends = TRUE
  Oversize = TRUE
  Starves = TRUE
  Requests = {1, 2}
  Passes = {"new", "lent"}
  Answers = {"error", "object"}
SPECIFICATION Spec
INVARIANT EndLeavesNothing
CHECK_DEADLOCK FALSE
