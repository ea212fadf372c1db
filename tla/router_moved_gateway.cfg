SPECIFICATION FairSpec
CONSTANTS
  Routers = {"r"}
  RouteNames = {"web"}
  Placements = {}
  Cells = {"c"}
  Services = {"s"}
  GatewayNamespaces = {"gw", "hw"}
  RouterSpecs <- MCMoved
  PlacementSpecs <- MCPlacementSpecs
  CellViews <- MCOneView
  GrantHash <- MCGrantHash
  Disturbances = {"routerSpec"}
  MaxDisturbances = 1
  NoObject = NoObject
PROPERTIES
  StaleRoutesRemoved
CHECK_DEADLOCK FALSE
