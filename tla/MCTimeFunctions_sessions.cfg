CONSTANTS
  NA = NA
  Day = 6
  Scale = 10
  Threshold = 100
  Feeds <- MCFeeds
  Sessions <- MCSessions
  Jumps = {2, 5, 7}
  FirstTimes = {12, 20, 33, 36, 37, 38, 40}
  MaxBars = 5
SPECIFICATION Spec
INVARIANTS
  SessionsDeclared
  BucketsTile
  TimeAndCloseAgree
  
CHECK_DEADLOCK FALSE
