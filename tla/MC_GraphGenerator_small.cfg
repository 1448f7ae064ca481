CONSTANTS
  NumNodes = 3
  Buffers = {0}
  BufSize = 2
  HostInit = {}
  NDEBUG = FALSE
  Tasks <- MC_Tasks_Small
SPECIFICATION Spec
INVARIANT NoAbort
CHECK_DEADLOCK FALSE
