CONSTANTS
  Width = 2
  RecordsPerFlush = 2
  MaxRecords = 5
  MaxFailures = 2
  Retries = FALSE
SPECIFICATION Spec
INVARIANTS FileIsPrefix NothingLostInSilence PanicIsNews
CHECK_DEADLOCK FALSE
