SPECIFICATION Spec
CONSTANTS
  Frames = {f1, f2, f3, f4}
  Ender = Ender
  Nobody = Nobody
INVARIANTS GateIsExact WireIsInOrder
PROPERTIES AcceptedGoes QuietAfterShutdown ImplementsOutbox
CHECK_DEADLOCK FALSE
