\* Three calls between restarts and five faults: a call can be late, the next
\* one late or lost again, and a third one has to recover.  The parts of
\* a cut answer are three to six bytes, so that two or three can add up to nine.
CONSTANTS
  Cycles = 3
  MaxFaults = 5
  Sizes = {3, 4, 5}
  NoReading = NoReading
SPECIFICATION FairSpec
INVARIANTS
  IInv
  GluedNeedsThreeFaults
  AtMostOneCallOld
  StaleNeedsTwoMisses
PROPERTIES
  ImplementsMeter
