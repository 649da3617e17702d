SPECIFICATION Spec
CONSTANTS
  c1 = c1
  c2 = c2
  Clients <- TwoClients
  Pks <- TwoPks
  Confs <- TwoConfs
  Slots <- OneSlot
  NoConf = "none"
  NoApp = 9
  MaxAttempts = 2
INVARIANTS
  TypeOK
  NoDuplicates
PROPERTIES
  KeepsPromise
  CreatedAsAsked
