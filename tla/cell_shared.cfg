SPECIFICATION FairSpec
CONSTANTS
  Cells = {"a", "b"}
  Namespaces = {"a", "b"}
  ServiceNames = {"web"}
  Specs <- MCSpecs
  TouchedKeys = {}
  MaxEndpoints = 1
  Disturbances = {"cell"}
  MaxDisturbances = 3
  NoObject = NoObject
  NoOwner = NoOwner
PROPERTIES
  ImplementsOwnership
  NoOwnershipTheft
  Converges
CHECK_DEADLOCK FALSE
