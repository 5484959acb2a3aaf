CONSTANTS
  Runs = {r1, r2, r3}
  Previous = previous
  PreviousFiles <- Unmanifested
  NoDir = nodir
  Serial = FALSE
  Faults = {"create", "write", "rename", "rollback", "remove", "crash"}
SPECIFICATION FairSpec
INVARIANTS LiveIsWhole LatestSurvives
PROPERTIES ImplementsSlot WindowCloses
CHECK_DEADLOCK FALSE
