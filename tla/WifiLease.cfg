\* One outage is enough: the lease ends while the station is online, and the
\* timer after it; no event is lost, so the queue's size does not matter.
CONSTANTS
  QueueSize = 4
  MaxOutages = 1
SPECIFICATION Spec
INVARIANT BitAnswers
CHECK_DEADLOCK FALSE
