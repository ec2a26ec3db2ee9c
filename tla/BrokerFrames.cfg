SPECIFICATION Spec
CONSTANTS
  MaxRequests = 5
  Limit <- FrameLoad
  QueueCapacity = 2
  MaxFrames = 3
  MaxBytes = 4
  MaxSeconds = 1
  FrameSizes = {1, 2}
  ScrollWindow = 0
  PointerWindow = 0
  ScrollBound = 2
  RateWindow = 1
  RateLimit = 2
  EventCap = 2
  ChallengeCap = 1
  FinalCounts <- MCFinalCounts
  MaxTime = 0
  Faults = {"disk", "clock"}
INVARIANTS AckedFramesDurable StoppedSummaryComplete NoSilentDrop
PROPERTY FailureFinal
CHECK_DEADLOCK FALSE
