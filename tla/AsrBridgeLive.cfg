SPECIFICATION FairSpec
CONSTANTS
  Main = Main
  None = None
  Thread = {t1, t2}
  Addr = {a1, a2}
  Fst = {f1, f2}
  Desc = {d1, d2}
  Port = {p1}


PROPERTY LoadFSTReturns
\* The process may have ended.
CHECK_DEADLOCK FALSE
