CONSTANTS
    NumNodes = 2
    Vertices = {0, 1, 2, 3, 4, 5, 6, 7, 8, 9, 10}
    Cmd <- MC_Cmd_Disconnected
    Edges <- MC_Edges_Disconnected
SPECIFICATION Spec
PROPERTY EveryCommandRuns
CHECK_DEADLOCK FALSE
