CONSTANTS
  Configs <- Anything
  Sources <- FourSources
  Requests <- Callers
  MaxBytes = 16
  Run = run
  Previous = previous
  PreviousFiles <- BothWhole
  NoDir = none
  Faults = {"create", "write", "rename", "crash"}
SPECIFICATION Spec
INVARIANTS ShapeIsThreaded PublishedIsTheChain DeclaredIsHonoured RetryIsJustified FigureIsEarned FailureLeavesNothing
CHECK_DEADLOCK FALSE
