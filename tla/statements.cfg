SPECIFICATION Spec
CONSTANTS
  Tasks = {t1, t2}
  Sqls = {q1, q2}
  Kinds = {"query", "execute", "stream", "pooled", "exec_query", "exec_formats", "exec_transaction", "pipeline", "js_query", "js_raw"}
  Cap = 1
  ChanCap = 2
  RunBound = 3
  AlterBound = 1
  None = none
SYMMETRY Symmetry
CHECK_DEADLOCK FALSE
INVARIANTS NamesHonest TransactionEnds
PROPERTIES AloneRepaired
