\* A slow page is disconnected, never left waiting.
SPECIFICATION FairSpec
CONSTANTS
  p1 = p1
  mirror = mirror
  Pages = {p1}
  Mirror = mirror
  QueueSize = 2
  MergedSize = 1
  MaxEvents = 4
PROPERTY DeliveredOrDropped
CHECK_DEADLOCK FALSE
