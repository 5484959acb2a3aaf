CONSTANTS
  Commands = {"sample", "quantise", "fuzz"}
  Corpora <- UpToTwoFiles
  Successors <- Others
  Replacements = 1
  RecordsPerFlush = 2
  MaxRecords = 4
  PrintFails = TRUE
  Run = run
  Previous = previous
  PreviousFiles <- BothWhole
  NoDir = none
  Faults = {"create", "write", "rename", "crash"}
SPECIFICATION FairSpec
INVARIANTS PublishedAsDescribed WholeSourceRead NamedAsRead ExitTells EndsClean RetryIsJustified
PROPERTY Ends
CHECK_DEADLOCK FALSE
