SPECIFICATION Spec
CONSTANTS
  o1 = o1
  o2 = o2
  Orders <- MCOrders
  Shop <- MCShop
  HotShots = {}
  Parcels <- MCParcels
  Weight <- MCWeight
  MaxStops = 5
  MaxServed = 1
INVARIANTS
  RouteEndsWithItsStops
  DeliveredWasCollected
  QuietRouteIsSettled
  ScanReachesCount
PROPERTIES
  StopsFinishOnce
  FollowsLifecycle
CHECK_DEADLOCK FALSE
