SPECIFICATION FairSpec
CONSTANTS
  Conn = {c1, c2}
  None = None
  Sample <- Loud
  ChunkLen = 2
  MaxSamples = 4
  Signals = TRUE
INVARIANTS TypeOK HeardInOrder AllHeardAtEnd LossBounded
PROPERTIES ClosedIsReleased WaitingIsServed
\* The clients may all have gone.
CHECK_DEADLOCK FALSE
