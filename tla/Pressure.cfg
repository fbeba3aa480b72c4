\* Three calls per boot; three faults, so that one can undo what another did
\* in the same call or a later one.
CONSTANTS
  MaxFaults = 3
  Cycles = 3
  NoReading = NoReading
  VoidKinds = {"none"}
SPECIFICATION FairSpec
INVARIANTS
  PressureIInv
  AsleepShowsVoid
  CleanCallConfigures
PROPERTIES
  ReturnsUnlessStuck
  ImplementsBarometer
  StoredIsMeasured
