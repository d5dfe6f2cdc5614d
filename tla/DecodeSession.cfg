SPECIFICATION FairSpec
CONSTANTS
  HalfSecond = 2
  IntMax = 8
  MaxFrames = 2
  MaxChunks = 6
INVARIANTS TypeOK TranscriptTiles AllFramesReported NoAdvanceAfterFinalize RefreshDue InterruptionLosesAChunk
PROPERTY FlagEndsSession
\* The session ends.
CHECK_DEADLOCK FALSE
