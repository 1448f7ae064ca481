CONSTANTS
    Nodes = {n1, n2}
    Tasks = {0}
    Kinds = {"compute", "nop"}
    TaskKinds = {"compute"}
    MaxCmds = 3
    MaxCpl = 2
SPECIFICATION Spec
SYMMETRY NodeSymmetry
INVARIANT DependenciesAcyclic
