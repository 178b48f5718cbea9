SPECIFICATION OrganizationSpec
CONSTANTS
  Users = {"u1", "u2"}
  Calls = {"call1", "call2"}
  Syncs = {"sync", "now"}
  Accounts = {"a1", "a2"}
  Mailbox <- MCMailbox
  Callers = {"m1", "m2"}
  LastDay = 2
  Kinds <- MCKinds
  NoOne = NoOne
CHECK_DEADLOCK FALSE
INVARIANTS TypeOK ReviewsFollowPolicy
PROPERTIES MembersKept MandateChains
