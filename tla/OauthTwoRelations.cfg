SPECIFICATION Spec
CONSTANTS
  c1 = c1
  c2 = c2
  Relations = {1, 2}
  Confs <- TwoConfs
  NoConf = NoConf
  Units = {u1}
  Unsupported = {c2}
  LegacyStates = {"none", "owned", "foreign"}
  Overlap = FALSE
  NoRetry = TRUE
  MaxPk = 3
  MaxCred = 6
  MaxFlow = 1
  MaxLate = 0
  MaxFaults = 1
  MaxEdits = 0
  MaxTampers = 0
INVARIANTS
  OneProviderPerRelation
  SkippedMeansSynchronized
PROPERTIES
  ActiveNeverCollected
  TrackedUntilDeleted
