SPECIFICATION Spec
CONSTANTS
  Names = {x}
  BarName = "bar"
  NA = NA
  None = None
  FalseValue = no
  BoolValues = {yes, no}
  Values = {v, yes, no}
  Initials = {NA}
  Dtypes = {"float", "bool", "array"}
  v = v
  Marks = {m}
  Bars <- AllBars
  Ticks <- AllTicks
  Interval = 2
  InferClose = TRUE
  Offset = 5
  Careful = TRUE
  MaxBars = 3
  MaxVolume = 1
CONSTRAINT Explored
INVARIANTS TypeOK ReadsCommitted BarsAligned
PROPERTIES CommittedFrozen TicksMonotone ImplementsHistory
