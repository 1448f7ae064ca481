CONSTANTS
    NumNodes = 2
    Vertices = {0, 1, 2, 3, 4, 5, 6, 7}
    Cmd <- MC_Cmd_Pipeline
    Edges <- MC_Edges_Pipeline
SPECIFICATION Spec
INVARIANT ExitedNodeRanAll
INVARIANT ExitedNodeQuiescent
INVARIANT TypeOK
PROPERTY AllNodesExit
CHECK_DEADLOCK FALSE
