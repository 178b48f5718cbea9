SPECIFICATION FairSpec
CONSTANTS
  Deliverers = {w1, w2}
  Deliveries = {d1, d2}
  PerEndpoint = 1
  MaxAttempts = 2
  LateCommits = FALSE
  Removals = FALSE
  MaxFaults = 1
CHECK_DEADLOCK FALSE
INVARIANTS EndpointNotFlooded
PROPERTIES EveryDeliveryEnds
