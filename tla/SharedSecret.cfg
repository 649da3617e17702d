SPECIFICATION FairSpec
CONSTANTS
  u1 = u1
  u2 = u2
  Units <- TwoUnits
  First = u1
  Relations <- TwoRelations
  MaxEdits = 1
  MaxRelates = 2
  MaxTroubles = 1
INVARIANTS
  TypeOK
  PublishedReadable
PROPERTIES
  NeverOlder
  Converges
  ReadableInTheEnd
  RemovedWithLast

