SPECIFICATION Spec
CONSTANTS
  VisitBound = 2
  CallBound = 1
  None = none
CHECK_DEADLOCK FALSE
INVARIANT ResetOrDestroyed
