SPECIFICATION FairSpec
CONSTANTS
  Clients = {c1}
  MaxRequests = 1
  MaxRoutes = 1
  RoutePaths <- FewRoutePaths
  Paths <- FewRoutePaths
  Files <- MCFiles
  NoResponse = NoResponse
PROPERTY OtherMethodsAnswered
CHECK_DEADLOCK FALSE
