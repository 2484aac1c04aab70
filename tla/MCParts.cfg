CONSTANTS
  ClientOptions <- MCClients
  ServerOptions <- MCServers
  Transports <- MCKinds
  ReadAhead = 2
  Names = {a}
  MaxPeers = 3
  MaxLinks = 2
  MaxEdits = 3
  MaxOpens = 2
  Kinds = {"j", "k"}
  Providers = {"p", "q", "r"}
  Own <- MCOwn
  Serves <- MCServes
  Requests = {1, 2}
  PoolThreads = {1, 2}
  Objects = {"a", "b"}
  Calls <- MCCalls
  MaxDepth = 2
  Nobody = 0
  Users = {u1, u2}
  Sizes = {1, 2}
  KEEP_AT_MOST = 3
  MaxGiven = 4
  Waiters = {u1, u2, u3}
  Cores = 2
  CAP = 60
  FIRST = 20
  Waited = {0, 16, 1000}
  TableSlots <- MCSlots
  LendThreads = {1, 2}
  MaxReads = 2
  LayerValues <- MCLayers
  Contexts <- MCContexts
  MaxLayers = 3
  Base = 2
  MaxDigits = 3
  EventKeys <- MCEventKeys
  MaxEvents = 7
  Inputs <- MCInputs
  MaxNesting = 2
  Documents <- MCDocuments
  BuiltDocuments <- MCBuilt
  Subjects <- MCSubjects
  Numerals = {0, 1, 2, 5}
  BUDGET_FACTOR = 1
  BUDGET_FLOOR = 6
  FlatRoots <- MCFlatRoots
  FlatWrites <- MCFlatWrites
  Bare = {"a", "b", "c", "0", "kind", "v", "o", "h", "d", "z"}
  StrayKeys <- MCStrayKeys
  StrayTexts = {"x", "y"}
  MaxStrays = 2
  MaxPosition = 2
  FormRoot <- MCFormRoot
  Forms <- MCForms
  FormFills <- MCFormFills
SPECIFICATION Spec
INVARIANTS
  HandshakeAgrees
  PeersAreKept
  KindsAreKnown
  ObjectsAreGuarded
  SharedIsBounded
  AttributionHolds
  BytesAreTheValue
  SchemaIsMeant
PROPERTIES
  OutageRetiresNothing
CHECK_DEADLOCK FALSE
