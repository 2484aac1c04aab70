CONSTANTS
  Links = {1, 2}
  Libraries = {b}
  Scopes <- MCScopes
  Hosts = {h1, h2}
  Refreshers = {r1, r2}
  Reloads = FALSE
  Opens = {1, 2}
  CallIds = {1}
  None = None
SPECIFICATION Spec
SYMMETRY Symmetry
INVARIANTS ServerEndsLinks OpenedIsServed ClientKeepsOne
CHECK_DEADLOCK FALSE
