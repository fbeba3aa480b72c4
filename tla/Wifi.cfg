\* The queue is as short as it can be without losing an event; four outages,
\* so that one can hit a connection that is itself a reconnection.
CONSTANTS
  QueueSize = 4
  MaxOutages = 4
SPECIFICATION FairSpec
INVARIANTS
  NeverStranded
  BitExplained
PROPERTIES
  NoEventDropped
  StartReturns
  Reconnects
\* Online, with the outages used up, there is nothing left to happen here.
CHECK_DEADLOCK FALSE
