SPECIFICATION HelperSpec
CONSTANTS
  MaxRequests = 6
  Limit <- ScrollLoad
  QueueCapacity = 2
  MaxFrames = 3
  MaxBytes = 4
  MaxSeconds = 9
  FrameSizes = {1}
  ScrollWindow = 0
  PointerWindow = 0
  ScrollBound = 2
  RateWindow = 1
  RateLimit = 3
  EventCap = 3
  ChallengeCap = 1
  FinalCounts <- MCFinalCounts
  MaxTime = 1
  Faults = {}
INVARIANT ScrollsKept
CHECK_DEADLOCK FALSE
