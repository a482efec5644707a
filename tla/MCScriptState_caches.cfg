SPECIFICATION Spec
CONSTANTS
  NA = NA
  Rows <- MCRows
  Length = 2
  Attrs = {red, blue}
  Scripts = {"always", "sometimes", "drawings"}
  Resumes = FALSE
  MaxBars = 3
  MaxKept = 1
  MaxObjects = 3
  Limit = 2
CONSTRAINT Explored
INVARIANTS AnswersFromHistory DrawingsReplay PlotsFollowBars
CHECK_DEADLOCK FALSE
