\* Two cycles per boot, so that a cycle can inherit from the one before it, from
\* none, or (after a reset) from another boot; one outage and two other faults,
\* so that a reset, a failed call and the outage can follow each other in one
\* cycle or hit the restart.  Wifi.cfg has more outages.
CONSTANTS
  QueueSize = 4
  MaxOutages = 1
  Cycles = 2
  MaxSockets = 2
  MaxFaults = 2
  Indeterminate = Indeterminate
SPECIFICATION AirFairSpec
INVARIANTS
  AirIInv
  ResourcesBalanced
PROPERTIES
  ReportsAreCurrent
  EveryCycleReports
  CyclesGoOn
  DrivesMeter
  DrivesBarometer
  DrivesClimate
