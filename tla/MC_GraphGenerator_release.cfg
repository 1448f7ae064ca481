CONSTANTS
  NumNodes = 3
  Buffers = {0, 1}
  BufSize = 4
  HostInit = {1}
  NDEBUG = TRUE
  Tasks <- MC_Tasks_Dataflow
SPECIFICATION Spec
INVARIANT InDependencyOrder
CHECK_DEADLOCK FALSE
