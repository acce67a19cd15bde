SPECIFICATION Spec
CONSTANTS
  MaxWritten = 5
  MaxCancels = 2
  MaxOutput = 4
  ChunkBytes = 2
  FlushBytes = 3
  QueueBytes = 4
  QueueChunks = 2
  HeadBytes = 1
  TailBytes = 1
INVARIANTS
  CompleteMeansAll
  LimitHolds
  BufferStaysBelowThresholds
PROPERTIES
  OnlyLateOutputDisorders
  BufferIsFlushed
CHECK_DEADLOCK FALSE
