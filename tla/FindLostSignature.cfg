SPECIFICATION Spec
CONSTANTS
  Signers = {"ann", "bob", "col"}
  Calls = {"c1", "c2", "c3"}
  Kinds <- MCKinds
  NoOne = "none"
CHECK_DEADLOCK FALSE
INVARIANTS SignersSerialised
