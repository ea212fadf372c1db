SPECIFICATION FairSpec
CONSTANTS
  Cells = {"cell"}
  Namespaces = {"cell"}
  ServiceNames = {"web"}
  Specs <- MCSpecs
  TouchedKeys <- MCTouchedKeys
  MaxEndpoints = 1
  Disturbances = {"cell", "endpoints", "object", "namespace", "fault", "restart"}
  MaxDisturbances = 3
  NoObject = NoObject
  NoOwner = NoOwner
INVARIANTS
  TypeOK
  FinalizerPinsPass
  OwnedImpliesFinalizer
  ReadyMatchesGeneration
PROPERTIES
  Converges
  Quiesces
CHECK_DEADLOCK FALSE
