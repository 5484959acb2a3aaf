CONSTANTS
  Rounds = 2
  Contents <- ContentSet
  Length <- ContentSize
  Width = 2
  Corpora <- Publishable
  Reference = TRUE
  Others = 1
SPECIFICATION SoakSpec
CHECK_DEADLOCK FALSE
INVARIANTS EvidenceIsTrue ReportIsEarned NoFalseAlarm
