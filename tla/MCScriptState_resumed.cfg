SPECIFICATION Spec
CONSTANTS
  NA = NA
  Rows <- MCRows
  Length = 2
  Attrs = {red, blue}
  Scripts = {"always"}
  Resumes = TRUE
  MaxBars = 3
  MaxKept = 2
  MaxObjects = 2
  Limit = 2
INVARIANT AnswersFromHistory
CHECK_DEADLOCK FALSE
