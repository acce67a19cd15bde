SPECIFICATION Spec
CONSTANTS
  MaxWritten = 3
  MaxCancels = 0
  MaxOutput = 4
  ChunkBytes = 2
  FlushBytes = 3
  QueueBytes = 4
  QueueChunks = 2
  HeadBytes = 1
  TailBytes = 1
INVARIANT DatabaseKeepsTheOutput
CHECK_DEADLOCK FALSE
