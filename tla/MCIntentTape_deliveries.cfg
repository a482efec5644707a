SPECIFICATION Spec
CONSTANTS
  s1 = s1
  s2 = s2
  v5 = v5
  v6 = v6
  b1 = b1
  b2 = b2
  c1 = c1
  c2 = c2
  Series = {s1}
  Profiles = {v5}
  Strict = TRUE
  ContextId <- IdentityOne
  Positions = {p0, p1}
  BadPositions = {}
  Origin = p0
  Phases = {"BAR_COMMIT"}
  InitialPhase = "BAR_COMMIT"
  MaxRecalc = 1
  Commands = {c1, c2}
  Bodies = {b1, b2}
  MaxOrdinal = 1
  MaxCalls = 3
  MaxEvents = 3
SYMMETRY CallSymmetry
CONSTRAINT NoExports
INVARIANTS TypeOK IndexFaithful DistinctInvocations
PROPERTIES SealedBarsFrozen AppendOnly
