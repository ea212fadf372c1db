SPECIFICATION FairSpec
CONSTANTS
  Routers = {"r"}
  RouteNames = {"web"}
  Placements = {"web"}
  Cells = {"c"}
  Services = {"s"}
  GatewayNamespaces = {"gw"}
  RouterSpecs <- MCDirect
  PlacementSpecs <- MCPlacementSpecs
  CellViews <- MCCellViews
  GrantHash <- MCGrantHash
  Disturbances = {"placement", "cell"}
  MaxDisturbances = 2
  NoObject = NoObject
PROPERTIES
  DisabledWithdrawn
CHECK_DEADLOCK FALSE
