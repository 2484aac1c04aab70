CONSTANTS
  Byte = {0, 1}
  Ring = 2
  Laps = 2
  Stalls = FALSE
  MaxPart = 2
  MaxLate = 1
SPECIFICATION Spec
INVARIANT RingIsSound
PROPERTIES IsByteStream RingGoesOn
