SPECIFICATION FairSpec
CONSTANTS
  Call = {k1, k2, k3}
  None = None
  MaxLines = 2
  Buffer = 3
  Backlog = 2
INVARIANTS TypeOK TranscriptInOrder
PROPERTIES WritesReturn ImplementsChannel
\* The application may make no further call.
CHECK_DEADLOCK FALSE
