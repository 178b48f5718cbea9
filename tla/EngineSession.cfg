SPECIFICATION FairSpec
CONSTANTS
  Kinds <- MCKinds
  MaxAttempts = 2
  CreateTTL = 1
  OpenTTL = 1
  MaxLifetime = 2
  GrantTTL = 1
  Retention = 1
  MaxNow = 3
CHECK_DEADLOCK FALSE
INVARIANTS TypeOK EvidenceDecides
PROPERTIES DeviceAccess DeadlineHolds
