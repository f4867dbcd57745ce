SPECIFICATION FairSpec
CONSTANTS
  Over = {"client", "pool"}
  Tasks = {t1, t2}
  Size = 2
  MaxRetries = 1
  ConnBound = 4
  CallBound = 2
  LossBound = 2
  RefusalBound = 1
  None = none
CHECK_DEADLOCK FALSE
INVARIANT AgainOnlyAfterLoss
PROPERTIES OnlyDeadReplaced SlotsHeal
