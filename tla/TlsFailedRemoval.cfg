SPECIFICATION FairSpec
CONSTANTS
  b1 = b1
  b2 = b2
  NoBundle = NoBundle
  Bundles <- TwoBundles
  Targets <- OneOrNone
  Cuts = {}
  MaxEdits = 1
  MaxCuts = 0
  MaxRefusals = 1
  MaxRestarts = 0
  MaxChurns = 0
PROPERTIES
  BundleTrusted
