SPECIFICATION Spec
CONSTANTS
  EngineTools = {0, 1}
  MaxEngine = 6
  MaxOutput = 2
  Budgets = {1, 2}
  a = a
  b = b
  RouteNames = {a, b}
  MaxRouteGen <- MaxRouteGenDef
  MaxRouteProc <- MaxRouteProcDef
INVARIANT JoinedPassesAreAccounted
PROPERTIES ImplementsBlockStream  
CHECK_DEADLOCK FALSE
