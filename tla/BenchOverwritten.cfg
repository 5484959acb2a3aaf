SPECIFICATION Spec
CONSTANTS
  Requests     <- MCOverwriting
  Times        <- MCSlow
  Peaks        <- MCPeaks
  Publications <- MCPublications
  Summaries    <- MCSummaries
  Recorded     <- MCRecorded
  Parts = 4
INVARIANT HeldToTheBaseline
CHECK_DEADLOCK FALSE
