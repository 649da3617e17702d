SPECIFICATION FairSpec
CONSTANTS
  c1 = c1
  c2 = c2
  Units = {u1, u2}
  Relations = {1}
  Confs <- OneConf
  Unsupported = {}
  NoConf = NoConf
  LegacyStates = {"foreign"}
  Overlap = TRUE
  NoRetry = FALSE
  MaxPk = 3
  MaxCred = 6
  MaxFlow = 2
  MaxLate = 1
  MaxFaults = 1
  MaxEdits = 0
  MaxTampers = 2
INVARIANTS
  OnlyOwnHeld
PROPERTIES
  ForeignUntouched
  GoneCollected
