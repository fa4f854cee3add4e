SPECIFICATION FairSpec
CONSTANTS
  NumWorkers = 2
  NumEndpoints = 1
  MaxSessions = 3
INVARIANTS
  TypeOK
  EachSessionOnce
PROPERTY OwnSessionsStart
