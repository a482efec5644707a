SPECIFICATION FairRunnerSpec
CONSTANTS
  s1 = s1
  v5 = v5
  Series = {s1}
  Profiles = {v5}
  Strict = FALSE
  ContextId <- IdentityOne
  Positions <- BarPositions
  BadPositions = {}
  Origin <- FirstPosition
  Phases = {"BAR_BEGIN", "BAR_COMMIT"}
  InitialPhase = "BAR_COMMIT"
  MaxRecalc = 2
  Commands <- SomeCommands
  Bodies = {b1}
  TheBody = b1
  MaxOrdinal = 0
  MaxCalls = 3
  MaxEvents = 12
  Counts = {}
  MaxOrders = 24
  MaxCommits = 3
  BarName = "bar"
  NA = NA
  None = None
  Interval = 5
  InferClose = TRUE
  Offset <- OneBarBefore
  MaxBars = 6
  MaxVolume = 6
  Feeds <- AllFeeds
  Scripts <- BothScripts
  Settings = {TRUE, FALSE}
  Recoveries = {"retry", "rollback"}
  MaxFailures = 3
INVARIANTS DeliveredExactlyOnce SealedAreEnded BookIsReplay RowsAligned SnapshotsTrue
PROPERTIES Finishes
