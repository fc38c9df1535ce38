CONSTANTS
  Receivers = {a, b}
  MaxFrames = 3
  MaxForeign = 1
  MaxEntries = 3
  Impatient = FALSE
  TrainingFields = 1
  None = None
SPECIFICATION Spec
INVARIANTS TrainsAreUniform EndMeansEnd HeardIsDelivered
