SPECIFICATION FairSpec
CONSTANTS
  NumWorkers = 2
  NumEndpoints = 1
  MaxSessions = 2
PROPERTY EverySessionStarts
