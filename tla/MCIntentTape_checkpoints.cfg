SPECIFICATION Spec
CONSTANTS
  s1 = s1
  s2 = s2
  v5 = v5
  v6 = v6
  b1 = b1
  b2 = b2
  c1 = c1
  c2 = c2
  Series = {s1}
  Profiles = {v5, v6}
  Strict = FALSE
  ContextId <- IdentityOne
  Positions = {p0, p1}
  BadPositions = {bad}
  Origin = p0
  Phases = {"BAR_COMMIT"}
  InitialPhase = "BAR_COMMIT"
  MaxRecalc = 0
  Commands = {c1}
  Bodies = {b1}
  MaxOrdinal = 0
  MaxCalls = 2
  MaxEvents = 2
SYMMETRY CallSymmetry
INVARIANTS ExportRestorable OneIdentity
PROPERTIES ImplementsLog
