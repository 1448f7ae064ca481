CONSTANTS
  NumNodes = 4
  Buffers = {0, 1}
  BufSize = 4
  HostInit = {1}
  NDEBUG = FALSE
  Tasks <- MC_Tasks_Dataflow
SPECIFICATION Spec
INVARIANT NoStaleRead
INVARIANT ChunkPlacement
INVARIANT ChunksPartitionTask
INVARIANT TypeOK
CHECK_DEADLOCK FALSE
