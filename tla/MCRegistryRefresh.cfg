CONSTANTS
  Files = {f1}
  Linked = {l1}
  Candidates = {c1}
  Builds <- MCBuilds
  Contents <- MCContents
  LibraryId <- MCLibraryId
  Version <- MCVersion
  Offers <- MCOffers
  Slot <- MCSlot
  Images = {"image"}
  Image <- MCImage
  Regs = {1, 2, 3}
  MaxHolds = 1
  MaxOpens = 3
  KeyTemplates = {"id", "library"}
  LibraryKeyTemplates = {"id"}
  None = None
SPECIFICATION Spec
PROPERTY ChangedStaysServed
