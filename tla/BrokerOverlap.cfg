SPECIFICATION Spec
CONSTANTS
  MaxRequests = 6
  Limit <- OverlapLoad
  QueueCapacity = 1
  MaxFrames = 2
  MaxBytes = 2
  MaxSeconds = 9
  FrameSizes = {1}
  ScrollWindow = 0
  PointerWindow = 0
  ScrollBound = 2
  RateWindow = 1
  RateLimit = 2
  EventCap = 2
  ChallengeCap = 0
  FinalCounts <- MCFinalCounts
  MaxTime = 0
  Faults = {}
INVARIANTS AckedClicksDurable CloseFailsLiveCapture StateFileCurrent
CHECK_DEADLOCK FALSE
