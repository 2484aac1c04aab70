CONSTANTS
  Files = {f1, f2}
  Linked = {l1}
  Candidates = {c1}
  Builds <- MCBuilds
  Contents <- MCContents
  LibraryId <- MCLibraryId
  Version <- MCVersion
  Offers <- MCOffers
  Slot <- MCSlot
  Images = {"image"}
  Image <- MCImage
  Regs = {1, 2}
  MaxHolds = 1
  MaxOpens = 2
  KeyTemplates = {"id", "library"}
  LibraryKeyTemplates = {"id", "id@version"}
  None = None
SPECIFICATION Spec
INVARIANTS HandlesReachCode CountIsTrue IndexIsExact SourceIsTold
