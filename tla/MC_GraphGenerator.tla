------------------------- MODULE MC_GraphGenerator -------------------------
(* Task graphs that drive GraphGenerator through the cases that matter.   *)
EXTENDS GraphGenerator

\* A compute accessor with range mapper rm, and a master-access accessor
\* of the elements lo..hi-1.
Acc(b, m, rm) == [bid |-> b, mode |-> m, rm |-> rm, lo |-> 0, hi |-> 0]
MAcc(b, m, lo, hi) == [bid |-> b, mode |-> m, rm |-> "fixed", lo |-> lo, hi |-> hi]
Compute(size, acc, deps) == [type |-> "compute", dims |-> 1, size |-> size, acc |-> acc, deps |-> deps]
MasterAccess(acc, deps) == [type |-> "master_access", dims |-> 1, size |-> 0, acc |-> acc, deps |-> deps]

\* Two independent producers (one of them reading and writing the
\* host-initialized buffer 1, whose source set is every node), a
\* neighbourhood consumer that overwrites buffer 0 from every chunk, a
\* consumer of both buffers, a master-access read of everything, and a
\* master-access write of buffer 1 that no task orders.
MC_Tasks_Dataflow ==
  0 :> Compute(4, {Acc(0, "write", "one_to_one")}, {}) @@
  1 :> Compute(3, {Acc(1, "read", "neighbour"), Acc(1, "write", "one_to_one")}, {}) @@
  2 :> Compute(4, {Acc(0, "read", "neighbour"), Acc(0, "write", "all")}, {0}) @@
  3 :> Compute(4, {Acc(0, "read", "one_to_one"), Acc(1, "read", "all"), Acc(1, "write", "one_to_one")}, {1, 2}) @@
  4 :> MasterAccess({MAcc(0, "read", 0, 4), MAcc(1, "read", 1, 3)}, {3}) @@
  5 :> MasterAccess({MAcc(1, "write", 0, 2)}, {})
\* The same graph with one more read-only consumer that nothing orders,
\* so that more processing orders are possible.
MC_Tasks_Wide ==
  MC_Tasks_Dataflow @@
  6 :> Compute(2, {Acc(1, "read", "all")}, {})
\* A one-element kernel on three nodes: split_equal gives chunk 0 an
\* empty range.
MC_Tasks_Small ==
  0 :> Compute(1, {Acc(0, "write", "one_to_one")}, {})

\* A kernel reading the host-initialized buffer 1, valid on every node.
MC_Tasks_Placement ==
  0 :> Compute(4, {Acc(1, "read", "one_to_one"), Acc(0, "write", "one_to_one")}, {})

=============================================================================
