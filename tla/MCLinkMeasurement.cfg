CONSTANTS
  a = a
  b = b
  Stations = {a, b}
  Offset <- MCOffset
  WindowLength = 9
  MaxMissedBeacons = 9
  MaxAccess = 1
  None = None
SPECIFICATION Spec
INVARIANTS EntryIsTimed AdvertisedRateIsPositive SilenceCloses
PROPERTIES LinksComeBack
