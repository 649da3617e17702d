SPECIFICATION FairSpec
CONSTANTS
  c1 = c1
  c2 = c2
  Down = Down
  Confs <- TwoConfs
  Conflicts = {}
  MaxEdits = 2
  MaxFaults = 1
  MaxElections = 1
  MaxRestarts = 1
INVARIANTS
  TypeOK
  StoppedWithoutDatabase
PROPERTIES
  ActiveMeansCurrent
  Settles
