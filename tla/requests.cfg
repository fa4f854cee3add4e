SPECIFICATION FairSpec
CONSTANTS
  Clients = {c1}
  MaxRequests = 2
  MaxRoutes = 3
  RoutePaths <- MCRoutePaths
  Paths <- MCPaths
  Files <- MCFiles
  NoResponse = NoResponse
INVARIANTS
  RequestInv
  RouterFindsLongestPrefix
  WireFollowsAnswers
  StaticFileMatchesPath
PROPERTIES
  AnswersOnce
  EveryRequestAnswered
CHECK_DEADLOCK FALSE
