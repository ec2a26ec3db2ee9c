SPECIFICATION SerialSpec
CONSTANTS
  MaxRequests = 8
  Limit <- MailboxLoad
  QueueCapacity = 2
  MaxFrames = 2
  MaxBytes = 2
  MaxSeconds = 1
  FrameSizes = {1}
  ScrollWindow = 0
  PointerWindow = 0
  ScrollBound = 2
  RateWindow = 2
  RateLimit = 3
  EventCap = 3
  ChallengeCap = 1
  FinalCounts <- MCFinalCounts
  MaxTime = 2
  Faults = {}
INVARIANTS ScrollsKept
CHECK_DEADLOCK FALSE
