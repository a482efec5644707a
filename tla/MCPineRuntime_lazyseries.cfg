SPECIFICATION Spec
CONSTANTS
  Names = {x}
  BarName = "bar"
  NA = NA
  None = None
  FalseValue = no
  BoolValues = {no}
  Values = {no}
  Initials = {NA}
  Dtypes = {"float", "bool", "array"}
  v = v
  Marks = {m}
  Bars <- OneBar
  Ticks = {}
  Interval = 2
  InferClose = FALSE
  Offset = 0
  Careful = TRUE
  MaxBars = 2
  MaxVolume = 1
INVARIANTS RollbackPossible
