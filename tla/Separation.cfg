CONSTANTS
  a = a
  b = b
  c = c
  Names <- NameSet
  Staging = staging
  Aside = aside
  MaxLinks = 6
  Trees <- MCTrees
  Given <- MCGiven
SPECIFICATION Spec
SYMMETRY Exchanged
INVARIANTS SourceUntouched NothingElseMoves
CHECK_DEADLOCK FALSE
