SPECIFICATION FairSpec
CONSTANTS
  Calls = {c1, c2, c3}
  Bodies = {b1, b2}
  NoCall = NoCall
  MaxFaults = 2
CHECK_DEADLOCK FALSE
INVARIANTS TypeOK OneRunOneAnswer
PROPERTIES KeyFreed
