SPECIFICATION Spec
CONSTANTS
  Cells = {"cell"}
  Namespaces = {"cell"}
  ServiceNames = {"web"}
  Specs <- MCSpecs
  TouchedKeys <- MCTouchedKeys
  MaxEndpoints = 1
  Disturbances = {"cell"}
  MaxDisturbances = 2
  NoObject = NoObject
  NoOwner = NoOwner
INVARIANT
  TearDownComplete
CHECK_DEADLOCK FALSE
