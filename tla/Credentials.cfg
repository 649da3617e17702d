SPECIFICATION FairSpec
CONSTANTS
  u1 = u1
  u2 = u2
  Units <- TwoUnits
  MaxKeys = 6
  DbStates <- FreshOrOld
  FailAt <- AllSteps
  MaxFaults = 1
  MaxElections = 1
  MaxSwaps = 1
INVARIANTS
  TypeOK
  PublishedTokenAccepted
PROPERTIES
  Converges
