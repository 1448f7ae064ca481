CONSTANTS
  NumNodes = 3
  Buffers = {0, 1}
  BufSize = 4
  HostInit = {1}
  NDEBUG = FALSE
  Tasks <- MC_Tasks_Placement
SPECIFICATION Spec
INVARIANT SpecPlacement
CHECK_DEADLOCK FALSE
