SPECIFICATION Spec
CONSTANTS
  r1 = r1
  Requests = {r1}
  MessageTimeout = 3
  MessageTtl = 3
  QueueExpiration = 2
  RefreshRate = 1
  PublishTime = 1
  Horizon = 8
PROPERTIES
  FirstEnqueuingCounts
\* The clock stops at Horizon.
CHECK_DEADLOCK FALSE
