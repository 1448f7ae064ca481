--------------------------- MODULE MC_CommandGraph ---------------------------
(* Two nodes, one task, two task command kinds (compute, master_access)   *)
(* and a non-task kind (nop); three commands are enough for a chain of    *)
(* two dependencies, for a dependency re-added after a removal and for a  *)
(* filter that skips the first command of a task.  Nodes are only         *)
(* compared, so their permutations are a sound symmetry.                   *)
EXTENDS CommandGraph

NodeSymmetry == Permutations(Nodes)
=============================================================================
