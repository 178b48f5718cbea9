SPECIFICATION FairSpec
CONSTANTS
  Signers = {"ann", "bob", "col"}
  Calls = {"c1", "c2", "c3"}
  Kinds <- MCKinds
  NoOne = "none"
CHECK_DEADLOCK FALSE
INVARIANTS TypeOK
PROPERTIES SignersTakeTurns EndIsHonoured CeremonyProceeds
