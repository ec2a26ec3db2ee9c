SPECIFICATION Spec
CONSTANTS
  MaxRequests = 5
  Limit <- MixedLoad
  QueueCapacity = 1
  MaxFrames = 2
  MaxBytes = 2
  MaxSeconds = 2
  FrameSizes = {1}
  ScrollWindow = 0
  PointerWindow = 0
  ScrollBound = 2
  RateWindow = 2
  RateLimit = 2
  EventCap = 3
  ChallengeCap = 1
  FinalCounts <- MCFinalCounts
  MaxTime = 2
  Faults = {"shape"}
INVARIANTS TypeOK BudgetsRespected LogsReplayable
CHECK_DEADLOCK FALSE
