SPECIFICATION Spec
CONSTANTS
  Worlds <- MCWorlds
  None = None
  NA = NA
  ChartMs = 4
  Period = 8
  Day = 8
  MaxBack = 0
  MaxLog = 2
  MaxRaises = 1
INVARIANT ExposedAfterClose
CHECK_DEADLOCK FALSE
