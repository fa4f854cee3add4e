SPECIFICATION ClientsSpec
CONSTANTS
  MaxCalls = 2
  MaxConnects = 1
  MaxEndpoints = 2
  MaxLen = 2
  SizeMax = 16
  MaxGets = 4
  MaxPieces = 2
  Resolvers = {r1, r2}
  TTL = 2
  MaxTime = 4
  MaxAddress = 2
INVARIANTS
  HttpInv
  ResponseBelongsToRequest
  Http2Inv
  ResolverInv
PROPERTY ClientCallsEnd
CHECK_DEADLOCK FALSE
