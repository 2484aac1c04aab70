CONSTANTS
  Client = client
  Server = server
  Calls = {1, 2, 3}
  Limit = 1
  MaxQueued = 1
  MaxDepth = 1
  Timeouts = FALSE
  Ends = FALSE
  Oversize = FALSE
  Starves = TRUE
  Requests = {1, 2}
  Passes = {"new", "lent", "back"}
  Answers = {"ok", "object"}
SPECIFICATION Spec
INVARIANTS ObjectsAreKept CallsAreAnswered
CHECK_DEADLOCK FALSE
