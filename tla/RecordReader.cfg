CONSTANTS
  Width = 2
  BufferRecords = 2
  Corpora <- UpToThreeFiles
  Stale = stale
SPECIFICATION FairSpec
INVARIANTS InOrder EndIsEarned
PROPERTY Drained
CHECK_DEADLOCK FALSE
