SPECIFICATION FairSpec
CONSTANTS
  Routers = {"r", "q"}
  RouteNames = {"web"}
  Placements = {}
  Cells = {"c"}
  Services = {"s"}
  GatewayNamespaces = {"gw", "hw"}
  RouterSpecs <- MCTwins
  PlacementSpecs <- MCPlacementSpecs
  CellViews <- MCCellViews
  GrantHash <- MCGrantHash
  Disturbances = {"cell", "fault"}
  MaxDisturbances = 1
  NoObject = NoObject
PROPERTIES
  RoutersKeepApart
  Converges
  Quiesces
CHECK_DEADLOCK FALSE
