\* Temperatures of -10 to 50 degrees and pressures of 750 to 1100 hPa and
\* beyond for both sensors, on a grid.
CONSTANTS
  VoidKinds = {"none"}
  TempStep = 19000
  PressureStep = 17500
  Coldest = 419000
  Hottest = 609000
  Highest = 230000
  Lowest = 580000
SPECIFICATION Spec
INVARIANTS
  KindsRight
PROPERTIES
  Monotone
