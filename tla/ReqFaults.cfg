SPECIFICATION Spec
CONSTANTS
  Handlers = {h1}
  Jobs = {j1}
  Pruners = {p1}
  Sessions = {s1, s2}
  NoSession = NoSession
  Free = Free
  WithReview = TRUE
  MaxFaults = 1
CHECK_DEADLOCK FALSE
SYMMETRY Symmetry
INVARIANTS TypeOK DataGone NoOrphans DecisionAuditedOnce
PROPERTIES FollowsLifecycle
