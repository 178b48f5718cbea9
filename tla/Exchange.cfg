SPECIFICATION FairSpec
CONSTANTS
  Orgs = {"a", "b"}
  Messages = {"m1", "m2"}
  Crew = {"w1", "w2"}
  Kinds <- MCKinds
  NoOne = "none"
  Pollers = {"p1", "p2"}
  Replicas = {"r1", "r2"}
  All = "all"
CHECK_DEADLOCK FALSE
INVARIANTS TypeOK
PROPERTIES OffersSettle RevocationHolds ExchangeCompletes
