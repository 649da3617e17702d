SPECIFICATION FairSpec
CONSTANTS
  c1 = c1
  c2 = c2
  Relations = {1}
  Confs <- TwoConfs
  NoConf = NoConf
  Units = {u1}
  Unsupported = {}
  LegacyStates = {"none"}
  Overlap = FALSE
  NoRetry = FALSE
  MaxPk = 3
  MaxCred = 6
  MaxFlow = 1
  MaxLate = 0
  MaxFaults = 0
  MaxEdits = 1
  MaxTampers = 1
PROPERTIES
  ActiveProvisioned
