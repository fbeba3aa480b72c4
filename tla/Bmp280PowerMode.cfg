\* No fault is needed: a register written behind the copy's back, a reset of the
\* sensor or a restart of the host is enough.
CONSTANTS
  MaxFaults = 0
  Oversamplings = {0, 2, 5}
  Standbys = {0}
  Filters = {0}
  Modes = {4}
SPECIFICATION Spec
PROPERTIES
  PowerModeSetsTwoBits
