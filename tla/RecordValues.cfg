CONSTANTS
  Unit = 4
  Quiet = 2
  Sign = 16
  Requests <- Requested
  Fuzzed <- FuzzedPairs
  Quantised <- EveryWord
  Results <- Outcomes
  Bounds <- Limits
  Inputs = 1
  Outputs = 1
  MaxRecords = 2
SPECIFICATION Spec
INVARIANTS StoredIsNearest ErrorIsAsRecorded OnlyTargetsMove NoiseFollowsPosition BoundsKept
CHECK_DEADLOCK FALSE
