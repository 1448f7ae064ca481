CONSTANTS
    Nodes = {n1, n2}
    Tasks = {0}
    Kinds = {"compute", "master_access", "nop"}
    TaskKinds = {"compute", "master_access"}
    MaxCmds = 3
    MaxCpl = 2
SPECIFICATION Spec
SYMMETRY NodeSymmetry
INVARIANT FrontHasNoDependents
INVARIANT TaskCommandsFiltered
INVARIANT TypeOK
CHECK_DEADLOCK FALSE
