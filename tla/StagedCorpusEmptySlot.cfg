CONSTANTS
  Runs = {r1}
  Previous = previous
  PreviousFiles <- Unmanifested
  NoDir = nodir
  Serial = TRUE
  Faults = {}
SPECIFICATION Spec
INVARIANT NeverEmptySlot
CHECK_DEADLOCK FALSE
