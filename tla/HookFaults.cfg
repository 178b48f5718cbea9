SPECIFICATION Spec
CONSTANTS
  Deliverers = {w1, w2}
  Deliveries = {d1, d2}
  PerEndpoint = 1
  MaxAttempts = 2
  LateCommits = TRUE
  Removals = TRUE
  MaxFaults = 1
CHECK_DEADLOCK FALSE
SYMMETRY Symmetry
INVARIANTS TypeOK OutcomeHonest
PROPERTIES AttemptsHold
