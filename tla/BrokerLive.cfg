SPECIFICATION FairSpec
CONSTANTS
  MaxRequests = 5
  Limit <- LiveLoad
  QueueCapacity = 1
  MaxFrames = 2
  MaxBytes = 2
  MaxSeconds = 9
  FrameSizes = {1}
  ScrollWindow = 0
  PointerWindow = 0
  ScrollBound = 2
  RateWindow = 2
  RateLimit = 2
  EventCap = 3
  ChallengeCap = 1
  FinalCounts <- LiveCounts
  MaxTime = 0
  Faults = {"disk"}
PROPERTY AllAnswered
CHECK_DEADLOCK FALSE
