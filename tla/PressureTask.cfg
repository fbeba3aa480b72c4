\* Three faults: one can undo what another did, before or after a boot.
CONSTANTS
  MaxFaults = 3
  Cycles = 1
  NoReading = NoReading
  VoidKinds = {"none"}
SPECIFICATION TaskSpec
INVARIANT
  LoopConfigured
PROPERTY
  StoresUnlessLasting
