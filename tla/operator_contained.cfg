SPECIFICATION Spec
CONSTANTS
  Cells = {"c", "d"}
  Namespaces = {"c", "d"}
  ServiceNames = {"web", "api"}
  MaxEndpoints = 1
  Routers = {"r"}
  RouteNames = {"shop"}
  GatewayNamespaces = {"gw"}
  GrantHash <- MCGrantHash
  Scenarios <- MCContainedScenarios
  DisturbedCells = {"c"}
  States = {}
  Disturbances = {"cell", "endpoints", "fault", "restart"}
  MaxDisturbances = 3
  NoObject = NoObject
  NoOwner = NoOwner
INVARIANTS
  RouteSurvives
  FailuresContained
CHECK_DEADLOCK FALSE
