SPECIFICATION ContextSpec
CONSTANTS
  s1 = s1
  v5 = v5
  Series = {s1}
  Profiles = {v5}
  Strict = FALSE
  ContextId <- IdentityOne
  Positions = {p0}
  BadPositions = {}
  Origin = p0
  Phases = {"BAR_COMMIT"}
  InitialPhase = "BAR_COMMIT"
  MaxRecalc = 1
  Commands <- AllCommands
  Bodies = {b1}
  MaxOrdinal = 0
  MaxCalls = 1
  MaxEvents = 2
  Counts = {1}
  MaxOrders = 2
  MaxCommits = 1
CONSTRAINT SmallStates
INVARIANTS BookMatchesTape CancelsRecorded ScopeFollowsTape CheckpointRestorable
