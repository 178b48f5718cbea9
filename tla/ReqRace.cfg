SPECIFICATION Spec
CONSTANTS
  Handlers = {h1, h2}
  Jobs = {}
  Pruners = {p1}
  Sessions = {s1, s2}
  NoSession = NoSession
  Free = Free
  WithReview = TRUE
  MaxFaults = 0
CHECK_DEADLOCK FALSE
SYMMETRY Symmetry
INVARIANTS OutcomeAndEndOnce CancelledNeverApproved
PROPERTIES PurgeIsFinal WebhooksInOrder EndIsTrue
