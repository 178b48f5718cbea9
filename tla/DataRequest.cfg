SPECIFICATION FairSpec
CONSTANTS
  Checks = {1, 2}
  Pollers = {"poll1", "poll2"}
  Reviewers = {"rev1", "rev2"}
  Admins = {"admin"}
  Pruners = {"pruner"}
  Subjects = {"subject"}
  Kinds <- MCKinds
  Free = "free"
CHECK_DEADLOCK FALSE
INVARIANTS TypeOK PauseLeavesNone
PROPERTIES AnswerHonest ErasesOnlyAllowed RequestEnds
