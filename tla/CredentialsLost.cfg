SPECIFICATION Spec
CONSTANTS
  u1 = u1
  u2 = u2
  Units <- TwoUnits
  MaxKeys = 6
  DbStates <- FreshOnly
  FailAt = {"commit"}
  MaxFaults = 1
  MaxElections = 0
  MaxSwaps = 0
INVARIANTS
  PasswordKnown
