SPECIFICATION FairSpec
CONSTANTS
  Requests <- AllRequests
  MaxQueue = 2
  Mishaps <- Mischief
INVARIANTS
  RepliesAreAwaited
  StoppedUnlessRunning
  SessionAgreement
  NoStopIsLost
PROPERTIES
  RequestAnswered
  BreakStops
  StopReported
  ClosedReleases
