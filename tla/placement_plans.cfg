SPECIFICATION Spec
CONSTANTS
  PlacementLists <- MCPlacementLists
  Requests <- MCRequests
  StaticRoutes = {"web"}
  MaxUint64 = 2000
  InBody <- MCInBody
  None = None
INVARIANTS
  ValuesExactly
  CapturesExactly
  CapturesReplaced
  NoAmbiguousPlans
CHECK_DEADLOCK FALSE
