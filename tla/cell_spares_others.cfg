SPECIFICATION Spec
CONSTANTS
  Cells = {"a", "b"}
  Namespaces = {"a", "b"}
  ServiceNames = {"web"}
  Specs <- MCSpecs
  TouchedKeys <- MCTouchedKeys
  MaxEndpoints = 1
  Disturbances = {"cell", "object"}
  MaxDisturbances = 3
  NoObject = NoObject
  NoOwner = NoOwner
INVARIANT
  FinalizationSparesOthers
CHECK_DEADLOCK FALSE
