\* Three calls, so that a call is preceded by one with failures and followed
\* by one; five faults, more than the four transfers of one call.
CONSTANTS
  Cycles = 3
  MaxFaults = 5
  Indeterminate = Indeterminate
SPECIFICATION Spec
INVARIANTS
  SiIInv
  HumidityMixUpNeedsTwo
  TemperatureFromHumidity
  PairedReadings
PROPERTIES
  ImplementsClimate
