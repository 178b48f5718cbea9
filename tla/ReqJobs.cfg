SPECIFICATION FairSpec
CONSTANTS
  Handlers = {h1}
  Jobs = {r1}
  Pruners = {r1}
  Sessions = {s1}
  NoSession = NoSession
  Free = Free
  WithReview = TRUE
  MaxFaults = 1
CHECK_DEADLOCK FALSE
PROPERTIES JobsCatchUp
