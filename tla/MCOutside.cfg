CONSTANTS
  Reaches = {"rdma", "deferred", "quic", "race", "web", "bridge", "engines", "wasm", "ticker", "script", "handing"}
  RING = 4
  Modulus = 8
  CHUNK = 2
  CREDIT_EVERY = 1
  SENDS = 1
  RECVS = 2
  RdmaScopes <- MCScopes
  Closers = {c1, c2}
  Shutter = c2
  HasAbort = TRUE
  Shutters = {t1, t2}
  WriterT = w
  FreeLock = free
  Addresses = {1, 2, 3}
  WebEnders = {e1, e2}
  Stamps = {"s", "t"}
  MaxBuilds = 3
  Absent = "none"
  PinnedEngines = {"a", "b"}
  SharedEngines = {"s"}
  HostThreads = {"h", "i"}
  Callings <- MCCallings
  MaxFrames = 3
  WasmThreads = {1, 2}
  WasmLibraries = {"a", "b"}
  MaxAnswered <- MCAnswered
  MaxEntries = 2
  Unlocked = 0
  GuestCallers = {1, 2}
  Scripts = {"l", "m"}
  HostObjects = {"o"}
  MaxServed = 1
  MaxReactions = 1
  MaxStack = 3
  NoObject = "none"
  HostThings = {"o"}
  TableThings = {"t"}
  MaxHandles = 2
  MaxNest = 4
  MaxObjectArgs = 2
  NoThing = "none"
SPECIFICATION Spec
INVARIANTS
  RdmaIsSound
  DeferredEnds
  QuicEnds
  RaceAnswers
  WebEnds
  BuildsAreFiled
  EngineCallsGoOn
  WasmHolds
  ScriptsAreSound
CHECK_DEADLOCK FALSE
