SPECIFICATION Spec
CONSTANTS
  Conn = {c1, c2}
  None = None
  Sample <- Loud
  ChunkLen = 2
  MaxSamples = 4
  Signals = FALSE
SYMMETRY ConnSymmetry
INVARIANT FalseAtEndOfStream
\* The clients may all have gone.
CHECK_DEADLOCK FALSE
