SPECIFICATION FairSpec
CONSTANTS
  Routers = {"r"}
  RouteNames = {"p", "web"}
  Placements = {"p"}
  Cells = {"c", "d"}
  Services = {"s"}
  GatewayNamespaces = {"gw"}
  RouterSpecs <- MCEdited
  PlacementSpecs <- MCPlacementSpecs
  CellViews <- MCCellViews
  GrantHash <- MCGrantHash
  Disturbances = {"router", "routerSpec", "placement", "cell", "object", "fault", "restart"}
  MaxDisturbances = 1
  NoObject = NoObject
INVARIANTS
  TypeOK
  FinalizerPinsPass
PROPERTIES
  ImplementsOwnership
  Converges
CHECK_DEADLOCK FALSE
