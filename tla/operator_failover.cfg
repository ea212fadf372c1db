SPECIFICATION FairSpec
CONSTANTS
  Cells = {"c", "d"}
  Namespaces = {"c", "d"}
  ServiceNames = {"web"}
  MaxEndpoints = 1
  Routers = {"r"}
  RouteNames = {"shop"}
  GatewayNamespaces = {"gw"}
  GrantHash <- MCGrantHash
  Scenarios <- MCScenarios
  DisturbedCells = {"c"}
  States = {"Draining"}
  Disturbances = {"cell", "endpoints", "restart"}
  MaxDisturbances = 1
  NoObject = NoObject
  NoOwner = NoOwner
INVARIANTS
  RouteSurvives
PROPERTIES
  TrafficFollowsCells
CHECK_DEADLOCK FALSE
