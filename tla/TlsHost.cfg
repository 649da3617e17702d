SPECIFICATION FairSpec
CONSTANTS
  b1 = b1
  b2 = b2
  NoBundle = NoBundle
  Bundles <- TwoBundles
  Targets <- AnyBundle
  Cuts = {"compare", "push", "oauth", "plan"}
  MaxEdits = 2
  MaxCuts = 2
  MaxRefusals = 2
  MaxRestarts = 1
  MaxChurns = 1
INVARIANTS
  TypeOK
  FileMeansMerged
PROPERTIES
  HostMerged
  TrustedUnlessHarmed
  PlannedMeansTrusted
