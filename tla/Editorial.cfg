SPECIFICATION ComponentsSpec
CONSTANTS
  Servers = {s1, s2}
  Calls = {1, 2, 3, 4}
  None = None
  MaxBrokers = 2
  MaxFrames = 1
  MaxCrashes = 1
  Orderly = TRUE
  Jobs = {1, 2, 3}
  Limit = 1
  DegradeAbove = 1
  FailAbove = 2
  MaxReceived = 5
  SoftOccupancy = 1
  HardOccupancy = 2
  MaxDelivered = 4
  MaxStarts = 2
  Requests = {"r1", "r2"}
  MaxPolls = 3
  Imports = {"i1", "i2"}
  Contents = {"k1"}
  Kinds = {"audio", "visual"}
  Encodings = {"e1", "e2"}
  Creates = {1, 2}
  Updates = {3, 4}
  Ids = {"p1", "p2"}
  MaxProfiles = 1
  Frames = 3
  FrameBytes = 2
  MaxChunk = 5
  MaxCalls = 2
  InOrder = TRUE
  MaxDocuments = 3
  MaxEvents = 2
  MaxFaults = 1
  NoOne = NoOne
  Projects <- ReviewedProjects
  Observations <- Clicks
  Analyses <- StillIntervals
  Shifts <- ByHand
  MaxRevision = 2
  NoProposal = NoProposal
  Inputs <- SampledCaptures
  Unscored = 99
  FullChange = 2
  Second = 12
  Fps = 5
  Plans <- RenderPlans
  Separation = 4
  CadenceGap = 5
  PreWindow = 9
  ResultWindow = 8
  FinalHold = 3
  ChangeThreshold = 2
  Streams <- EventStreams
  Captures <- ReceivedCaptures
  Collation <- AsTexts
  Openings <- OpeningDocuments
  Profiles <- AppliedProfiles
  Clean <- CleanProfile
  Trims = {4, 6, 20}
  MaxRevisions = 2
  NoProject = NoProject
  Parts = {"review"}
INVARIANT OffersAreValid
CHECK_DEADLOCK FALSE
