SPECIFICATION FairSpec
CONSTANTS
  Runners = {r1, r2}
  Files <- MCFiles
  CommandBound = 3
  FaultBound = 1
  None = none
CHECK_DEADLOCK FALSE
INVARIANTS Serialized RecordsTruthful
PROPERTIES CommandsEnd
