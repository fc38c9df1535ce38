CONSTANTS
  Stations = {a, b}
  Foreign = f
  Antennas <- MCAntennas
  SINRs = {1, 2}
  Trainings <- MCTrainings
  ModeFor <- MCModeFor
  MaxFrames = 2
  MaxForeign = 1
  None = None
SPECIFICATION Spec
INVARIANTS AssertionsHold NothingStalls ReservedAsSent
SYMMETRY MCSymmetry
CHECK_DEADLOCK FALSE
