SPECIFICATION Spec
CONSTANTS
  Keyspace = 4
  Shards = {1, 4}
  MaxRewrites = 2
  MaxMoves = 2
INVARIANTS
  ArrivesAsSent
  RowsSurviveOlderNodes
  RunsAsCalled
  UpdatesStayWithOwner
CHECK_DEADLOCK FALSE
