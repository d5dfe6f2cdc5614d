SPECIFICATION FairSpec
CONSTANTS
  Call = {k1, k2, k3, k4}
  MaxFiles = 5
  None = None
INVARIANTS TypeOK AnsweredGraphIsUsed GoodGraphIsOpened
PROPERTY EveryCallAnswered
\* The process may have ended, or the application makes no further call.
CHECK_DEADLOCK FALSE
