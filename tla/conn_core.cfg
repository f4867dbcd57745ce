SPECIFICATION Spec
CONSTANTS
  r1 = r1
  r2 = r2
  r3 = r3
  s1 = s1
  i1 = i1
  o1 = o1
  b1 = b1
  t1 = t1
  stream1 = stream1
  rollback1 = rollback1
  submit1 = submit1
  batch1 = batch1
  copyin1 = copyin1
  copyout1 = copyout1
  close1 = close1
  Calls = {batch1, stream1, copyin1, copyout1, rollback1, close1}
  Reqs <- MCReqs
  Items <- MCItems
  Collector <- MCCollector
  Replies <- MCReplies
  Terminates = {t1}
  Unawaited = {rollback1}
  Impatient = {stream1}
  ChanCap = 2
  RowCap = 1
  SendBuf = 1
  RecvBuf = 1
  CallBound = 2
  None = none
CHECK_DEADLOCK FALSE
INVARIANTS TypeOK OneHome NoStall OwnAnswer StreamHonest OpenTransactionFlagged
PROPERTIES ImplementsContract
