SPECIFICATION FairSpec
CONSTANTS
  Call = {k1, k2, k3}
  None = None
  MaxLines = 1
  Buffer = 2
  Backlog = 2
PROPERTY ConnectedIsServed
\* The application may make no further call.
CHECK_DEADLOCK FALSE
