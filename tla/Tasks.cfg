\* Two of the three sensors; ages up to 12.5 s, more than the reporter's
\* period; two faults.
CONSTANTS
  Together = 2
  MaxAge = 5
  MaxFaults = 2
SPECIFICATION Spec
PROPERTIES
  OneRound
  ReportsMoveOn
