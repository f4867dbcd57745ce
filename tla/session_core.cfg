SPECIFICATION Spec
CONSTANTS
  VisitBound = 2
  CallBound = 5
  None = none
CHECK_DEADLOCK FALSE
INVARIANTS GuardDropRestores OnlyCommitCommits
PROPERTIES OwnSession WorkInTransaction
