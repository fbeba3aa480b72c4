\* Skipped and sixteen samples, and those of a work mode; two values for each
\* other field.  One fault is enough to make the copy drift.
CONSTANTS
  MaxFaults = 1
  Oversamplings = {0, 5}
  Modes = {4}
  Standbys = {0, 5}
  Filters = {0, 4}
SPECIFICATION Spec
INVARIANTS
  ApiIInv
  DriftExplained
  KnownIsTrue
