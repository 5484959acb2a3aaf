SPECIFICATION Spec
CONSTANTS
  Requests     <- MCRequests
  Times        <- MCTimes
  Peaks        <- MCPeaks
  Publications <- MCPublications
  Summaries    <- MCSummaries
  Recorded     <- MCRecorded
  Parts = 4
INVARIANT EvidenceIsWhole BaselineHolds SpeedupIsEarned
PROPERTY FiguresAreHonest
CHECK_DEADLOCK FALSE
