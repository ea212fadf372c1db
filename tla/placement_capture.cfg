SPECIFICATION Spec
CONSTANTS
  PlacementLists <- MCBodyLists
  Requests <- MCRequests
  StaticRoutes = {"web"}
  MaxUint64 = 2000
  InBody <- MCInBody
  None = None
INVARIANT
  CapturesConstrained
CHECK_DEADLOCK FALSE
