CONSTANTS
  NA = NA
  MaxBars = 6
  Worlds <- MCWorlds
SPECIFICATION Spec
INVARIANTS
  StateIsDefinition
  AnswersInRange
  PivotsConfirmed
PROPERTIES
  TrailsTrend
CHECK_DEADLOCK FALSE
