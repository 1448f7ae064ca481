CONSTANTS
  NumNodes = 1
  Buffers = {0, 1}
  BufSize = 4
  HostInit = {1}
  NDEBUG = FALSE
  Tasks <- MC_Tasks_Wide
SPECIFICATION Spec
INVARIANT ChunkPlacement
CHECK_DEADLOCK FALSE
