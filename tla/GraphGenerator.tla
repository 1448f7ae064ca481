--------------------------- MODULE GraphGenerator ---------------------------
(***************************************************************************)
(* The master's command-graph generation, runtime::build_command_graph in  *)
(* src/src/runtime.cc: one satisfied task at a time is split into chunks,  *)
(* the chunks are placed on nodes, one execution command per chunk and a   *)
(* push / await-push pair per remote source box are emitted, and the       *)
(* buffer state (valid_buffer_regions) is updated with the task's writes.  *)
(*                                                                         *)
(* Data abstraction: every buffer is one-dimensional (the rows of a 2-D    *)
(* task, which split_equal splits by row), a region is a set of indices,   *)
(* a range mapper is one of a few kinds.  The helpers of graph_utils,      *)
(* task_graph and buffer_state are not under src/ and are modelled from    *)
(* spec.md (sections 4.2 and 4.4).                                         *)
(*                                                                         *)
(* Ghost state: holders[b][i] is the set of nodes that really hold the     *)
(* latest version of element i of buffer b once the commands generated so  *)
(* far have run; it is computed from the commands alone, never from        *)
(* bufferState, so that the bookkeeping can be checked against it.         *)
(***************************************************************************)
EXTENDS Integers, FiniteSets, Sequences, SequencesExt

CONSTANTS
  NumNodes,   \* MPI world size; node 0 is the master
  Buffers,    \* buffer ids (integers, as buffer_count++ hands them out)
  BufSize,    \* every buffer has the elements 0..BufSize-1
  Tasks,      \* task id -> task record (see TaskRec)
  HostInit,   \* buffers registered host-initialized: valid on every node
  NDEBUG      \* TRUE for a release build: every assert() is compiled out

Nodes == 0..(NumNodes - 1)
Index == 0..(BufSize - 1)
TaskIds == DOMAIN Tasks
Modes == {"read", "write"}
RangeMappers == {"one_to_one", "neighbour", "all", "fixed"}

\* One accessor of a task: a range mapper (compute task) or the explicit
\* offset / range lo..hi-1 of a master-access accessor (rm = "fixed").
AccessRec == [bid : Buffers, mode : Modes, rm : RangeMappers, lo : Index, hi : 0..BufSize]
TaskRec == [type : {"compute", "master_access"}, dims : 1..3, size : 0..BufSize,
            acc : SUBSET AccessRec, deps : SUBSET TaskIds]

ASSUME NumNodes \in Nat \ {0}
ASSUME Tasks \in [TaskIds -> TaskRec] /\ TaskIds \subseteq Nat
ASSUME HostInit \subseteq Buffers /\ NDEBUG \in BOOLEAN

NoCmd == -1
NoFailure == "none"

VARIABLES
  bufferState,  \* valid_buffer_regions: [Buffers -> [Index -> SUBSET Nodes]]
  cmds,         \* the command graph's commands (set of CmdRec)
  nextCmdId,    \* runtime::next_cmd_id
  processed,    \* tasks marked processed in the task graph
  procOrder,    \* history: processed tasks in processing order
  placement,    \* history: one record per placed chunk (assign_chunks_to_nodes)
  failed,       \* NoFailure, or the assertion / exception that aborted the master
  holders,      \* ghost: nodes holding the latest version of every element
  staleReads    \* ghost: <<tid, node, bid, index>> read without the latest version

vars == <<bufferState, cmds, nextCmdId, processed, procOrder, placement, failed, holders, staleReads>>

CmdRec == [cid : Nat, kind : {"compute", "master_access", "push", "await_push"},
           nid : Int, tid : TaskIds, bid : Buffers \cup {-1},
           box : SUBSET Nat, peer : Int]

-----------------------------------------------------------------------------
(* Pure helpers                                                            *)

Lo(S) == CHOOSE x \in S : \A y \in S : x <= y
Interval(lo, hi) == {k \in Index : lo <= k /\ k < hi}

\* split_equal(subrange<1>, num_chunks): equal chunks along dimension 0 from
\* offset 0, the last one absorbing the remainder.  Chunk k (1-based) is
\* chunk_id k-1.  The 2-D overload splits the rows the same way.
SplitEqualNoRemainder(size, n) ==
  [k \in 1..n |-> [start |-> (k - 1) * (size \div n), range |-> size \div n]]

SplitEqual(size, n) ==
  [k \in 1..n |-> [start |-> (k - 1) * (size \div n),
                   range |-> (size \div n) + (IF k = n THEN size % n ELSE 0)]]

ChunkIdx(c) == c.start .. (c.start + c.range - 1)

\* A master-access accessor's box: its offset and range, merged into the
\* chunk's requirement and clamped to the buffer.
MasterAccessRegion(a) == Interval(a.lo, a.hi)

\* rm->map_1(chunk), clamped to the buffer by subrange_to_grid_region.
MapRange(a, c) ==
  CASE a.rm = "one_to_one" -> ChunkIdx(c) \cap Index
    [] a.rm = "neighbour"  -> (c.start - 1 .. c.start + c.range) \cap Index
    [] a.rm = "all"        -> Index
    [] a.rm = "fixed"      -> MasterAccessRegion(a)

\* std::set_intersection over two ranges, exactly as the algorithm steps:
\* it assumes both are sorted, which `b` (an unordered_set) need not be.
RECURSIVE StdSetIntersection(_, _)
StdSetIntersection(a, b) ==
  IF a = <<>> \/ b = <<>> THEN <<>>
  ELSE IF Head(a) < Head(b) THEN StdSetIntersection(Tail(a), b)
  ELSE IF Head(b) < Head(a) THEN StdSetIntersection(a, Tail(b))
  ELSE <<Head(a)>> \o StdSetIntersection(Tail(a), Tail(b))

Sorted(S) == SetToSortSeq(S, <)

\* Every function choosing one node of x.nodes for each x of S.
RECURSIVE NodePicks(_)
NodePicks(S) ==
  IF S = {} THEN {<<>>}
  ELSE LET x == CHOOSE x \in S : TRUE
       IN { (x :> v) @@ f : v \in x.nodes, f \in NodePicks(S \ {x}) }

-----------------------------------------------------------------------------
(* buffer_state (spec.md 4.2)                                              *)

InitialBufferStateOffByOne ==
  [b \in Buffers |-> [i \in Index |-> IF b \in HostInit THEN 0..NumNodes ELSE {}]]

InitialBufferState ==
  [b \in Buffers |-> [i \in Index |-> IF b \in HostInit THEN Nodes ELSE {}]]

Covered(st, r) == \A i \in r : st[i] # {}

\* get_source_nodes(r): the maximal boxes of r (intervals of equal,
\* non-empty node set) over the covered part, each with its node set.
SourceBoxes(st, r) ==
  { [box |-> lo .. hi, nodes |-> st[lo]] :
      <<lo, hi>> \in { p \in r \X r :
         /\ p[1] <= p[2] /\ (p[1] .. p[2]) \subseteq r
         /\ st[p[1]] # {} /\ \A i \in p[1] .. p[2] : st[i] = st[p[1]]
         /\ p[1] - 1 \notin r \/ st[p[1] - 1] # st[p[1]]
         /\ p[2] + 1 \notin r \/ st[p[2] + 1] # st[p[1]] } }

UpdateRegionKeepsReplicas(st, r, nodes) == [i \in Index |-> IF i \in r THEN st[i] \cup nodes ELSE st[i]]

\* update_region(r, nodes): the latest writer owns validity.
UpdateRegion(st, r, nodes) == [i \in Index |-> IF i \in r THEN nodes ELSE st[i]]

-----------------------------------------------------------------------------
(* task_graph (spec.md section 6): get_satisfied_task                      *)

SatisfiedRootsOnly == { t \in TaskIds \ processed : Tasks[t].deps = {} }

Satisfied == { t \in TaskIds \ processed : Tasks[t].deps \subseteq processed }

-----------------------------------------------------------------------------
(* A task's chunks and requirements (process_compute_task,                 *)
(* process_master_access_task)                                            *)

\* One "split" even on a single node, for debugging (build_command_graph).
NumWorkerNodes == IF NumNodes - 1 > 1 THEN NumNodes - 1 ELSE 1

\* process_master_access_task: one chunk, on the master.
MasterChunkNodes == <<0>>

NumChunks(t) == IF Tasks[t].type = "compute" THEN NumWorkerNodes ELSE 1

Chunks(t) == SplitEqual(Tasks[t].size, NumChunks(t))

AccessedBuffers(t) == { a.bid : a \in Tasks[t].acc }

HasReq(t, b, m) == \E a \in Tasks[t].acc : a.bid = b /\ a.mode = m

ReadBuffers(t) == { b \in AccessedBuffers(t) : HasReq(t, b, "read") }
WriteBuffers(t) == { b \in AccessedBuffers(t) : HasReq(t, b, "write") }

\* chunk_requirements[k][b][m]: the merge of the regions of all of the
\* task's accessors of buffer b in mode m, for chunk k.
Requirement(t, k, b, m) ==
  UNION { MapRange(a, Chunks(t)[k]) : a \in { a \in Tasks[t].acc : a.bid = b /\ a.mode = m } }

\* chunk_buffer_sources[k][b] = get_source_nodes(read requirement).
Boxes(st, t, k, b) == SourceBoxes(st[b], Requirement(t, k, b, "read"))

\* The node set of the first (lowest) source box of buffer b for chunk k.
FirstBoxNodes(st, t, k, b) ==
  IF b \in ReadBuffers(t) /\ Boxes(st, t, k, b) # {}
  THEN (CHOOSE x \in Boxes(st, t, k, b) : \A y \in Boxes(st, t, k, b) : Lo(x.box) <= Lo(y.box)).nodes
  ELSE {}

\* The exception or failed assert() that aborts processing task t, in the
\* order the code meets them; asserts are compiled out under NDEBUG.
Failure(st, t) ==
  LET ch == 1..NumChunks(t) IN
  CASE Tasks[t].type = "compute" /\ Tasks[t].dims = 3 -> "split_equal: 3D NYI"
    [] Tasks[t].acc = {} -> "chunk_requirements.at: out_of_range"
    [] ~NDEBUG /\ \E k \in ch, b \in ReadBuffers(t) : ~Covered(st[b], Requirement(t, k, b, "read"))
         -> "get_source_nodes: region not covered"
    [] ~NDEBUG /\ \E k \in ch, b \in ReadBuffers(t) : Boxes(st, t, k, b) = {}
         -> "assert(!sn.empty())"
    [] ~NDEBUG /\ \E k \in ch, b \in WriteBuffers(t) : Requirement(t, k, b, "write") = {}
         -> "assert(write_req.area() > 0)"
    [] OTHER -> NoFailure

-----------------------------------------------------------------------------
(* assign_chunks_to_nodes                                                  *)

\* The free nodes of process_compute_task: the workers, plus the master
\* when it is the only node (the loop then also adds node 1).
FreeNodesIgnoringMasterOnly == 1..NumWorkerNodes
FreeNodes == IF NumNodes = 1 THEN 0..NumWorkerNodes ELSE 1..NumWorkerNodes

\* One turn of the chunk loop: `sources` is the node set of the first box
\* of the FIRST buffer the loop meets (whether it is read or not) and `ord`
\* its unordered_set's iteration order, which std::set_intersection takes
\* for sorted.
ChunkNode(free, sources, ord) ==
  LET inter == StdSetIntersection(Sorted(free), ord)
  IN IF sources # {} /\ inter # <<>> THEN inter[1] ELSE Lo(free)

\* Every outcome of the chunk loop over the chunks' first-buffer source
\* sets `srcs`, over all iteration orders of those unordered_sets: a
\* sequence of [nid, free] per chunk, free being the free nodes it met.
RECURSIVE AssignChunksNoErase(_, _)
AssignChunksNoErase(srcs, free) ==
  IF srcs = <<>> THEN {<<>>}
  ELSE UNION { { <<[nid |-> nid, free |-> free]>> \o rest : rest \in AssignChunksNoErase(Tail(srcs), free) } :
                 nid \in { ChunkNode(free, Head(srcs), o) : o \in SetToSeqs(Head(srcs)) } }

RECURSIVE AssignChunks(_, _)
AssignChunks(srcs, free) ==
  IF srcs = <<>> THEN {<<>>}
  ELSE UNION { { <<[nid |-> nid, free |-> free]>> \o rest : rest \in AssignChunks(Tail(srcs), free \ {nid}) } :
                 nid \in { ChunkNode(free, Head(srcs), o) : o \in SetToSeqs(Head(srcs)) } }

-----------------------------------------------------------------------------
(* process_task_data_requirements and update_buffer_state                  *)

\* The source boxes a chunk reads that its node does not hold: each gets a
\* push on a source node and an await-push on the chunk's node.
TransfersNeeded(st, t, nodeOf) ==
  { x \in UNION { { [chunk |-> kb[1], bid |-> kb[2], box |-> y.box, nodes |-> y.nodes] :
                      y \in Boxes(st, t, kb[1], kb[2]) } : kb \in (1..NumChunks(t)) \X ReadBuffers(t) } :
      nodeOf[x.chunk] \notin x.nodes }

\* Creation order of the transfers: by chunk, buffer, then box.
TransferRank(needed, x) ==
  Cardinality({ y \in needed :
    \/ y.chunk < x.chunk
    \/ y.chunk = x.chunk /\ y.bid < x.bid
    \/ y.chunk = x.chunk /\ y.bid = x.bid /\ Lo(y.box) < Lo(x.box) })

\* update_region(write region, {nid}) per writer node of each written
\* buffer, in the order `wo` of the buffer_writers unordered_map.
UpdateBufferState(st, t, nodeOf, wo) ==
  [b \in Buffers |->
     IF b \in WriteBuffers(t)
     THEN FoldLeft(LAMBDA s, k : UpdateRegion(s, Requirement(t, k, b, "write"), {nodeOf[k]}), st[b], wo[b])
     ELSE st[b]]

-----------------------------------------------------------------------------
(* build_command_graph: one recursion step processes one task              *)

Init ==
  /\ bufferState = InitialBufferState
  /\ cmds = {}
  /\ nextCmdId = 0
  /\ processed = {}
  /\ procOrder = <<>>
  /\ placement = {}
  /\ failed = NoFailure
  /\ holders = InitialBufferState
  /\ staleReads = {}

\* The task that a call picks up, from assert(get_satisfied_task(task_graph,
\* tid)) at the top of every call.  In a release build the assert, and the
\* call inside it, are gone and each call's local tid is uninitialized
\* (modelled as any task id; a value that is no task id is left out).  A
\* recursive call is made only while get_satisfied_task finds a task at the
\* end of the previous call, in either build.
PickedTask(t) ==
  \/ t \in Satisfied
  \/ NDEBUG /\ (procOrder = <<>> \/ Satisfied # {})

\* Ghost bookkeeping of one task: the reads that miss the latest version,
\* and the new holders (writers own what they write; a receiver gains what
\* a holder pushed to it).
StaleReadsOf(t, nodeOf, needed, src) ==
  LET Fresh(k, b, i) ==
        \/ nodeOf[k] \in holders[b][i]
        \/ \E x \in needed : x.chunk = k /\ x.bid = b /\ i \in x.box /\ src[x] \in holders[b][i]
  IN { <<t, nodeOf[y[1]], y[2], y[3]>> :
         y \in { y \in (1..NumChunks(t)) \X ReadBuffers(t) \X Index :
                   y[3] \in Requirement(t, y[1], y[2], "read") /\ ~Fresh(y[1], y[2], y[3]) } }

HoldersAfter(t, nodeOf, needed, src) ==
  LET Writers(b, i) == { nodeOf[k] : k \in { k \in 1..NumChunks(t) :
                           b \in WriteBuffers(t) /\ i \in Requirement(t, k, b, "write") } }
      Receivers(b, i) == { nodeOf[x.chunk] : x \in { x \in needed :
                           x.bid = b /\ i \in x.box /\ src[x] \in holders[b][i] } }
  IN [b \in Buffers |-> [i \in Index |->
        IF Writers(b, i) # {} THEN Writers(b, i) ELSE holders[b][i] \cup Receivers(b, i)]]

ProcessTask(t) ==
  LET compute == Tasks[t].type = "compute"
      n == NumChunks(t)
  IN
  /\ failed = NoFailure
  /\ PickedTask(t)
  /\ IF Failure(bufferState, t) # NoFailure
     THEN /\ failed' = Failure(bufferState, t)
          /\ UNCHANGED <<bufferState, cmds, nextCmdId, processed, procOrder, placement, holders, staleReads>>
     ELSE
     \* fb: the first buffer of each chunk's requirement map (unordered_map)
     \E fb \in [1..n -> AccessedBuffers(t)] :
     \E assigned \in AssignChunks([k \in 1..n |-> FirstBoxNodes(bufferState, t, k, fb[k])], FreeNodes) :
     LET nodeOf == IF compute THEN [k \in 1..n |-> assigned[k].nid] ELSE MasterChunkNodes
         needed == TransfersNeeded(bufferState, t, nodeOf)
         base == nextCmdId + n
         \* the spec's source set: the first READ buffer of the same order
         \* (Lo when the first buffer is write-only: one possible order)
         SpecSources(k) ==
           IF fb[k] \in ReadBuffers(t) THEN FirstBoxNodes(bufferState, t, k, fb[k])
           ELSE IF ReadBuffers(t) = {} THEN {} ELSE FirstBoxNodes(bufferState, t, k, Lo(ReadBuffers(t)))
     IN
     \* src: the first element of each box's source-node unordered_set;
     \* wo: the iteration order over the writer nodes of each buffer.
     \E src \in NodePicks(needed), wo \in [WriteBuffers(t) -> SetToSeqs(1..n)] :
     /\ cmds' = cmds
          \cup { [cid |-> nextCmdId + k - 1, kind |-> Tasks[t].type, nid |-> nodeOf[k], tid |-> t, bid |-> -1,
                  box |-> IF compute THEN ChunkIdx(Chunks(t)[k]) ELSE {}, peer |-> NoCmd] : k \in 1..n }
          \cup { [cid |-> base + 2 * TransferRank(needed, x), kind |-> "push", nid |-> src[x], tid |-> t,
                  bid |-> x.bid, box |-> x.box, peer |-> nodeOf[x.chunk]] : x \in needed }
          \cup { [cid |-> base + 2 * TransferRank(needed, x) + 1, kind |-> "await_push", nid |-> nodeOf[x.chunk],
                  tid |-> t, bid |-> x.bid, box |-> x.box, peer |-> base + 2 * TransferRank(needed, x)] : x \in needed }
     /\ nextCmdId' = base + 2 * Cardinality(needed)
     /\ processed' = processed \cup {t}
     /\ procOrder' = Append(procOrder, t)
     /\ placement' = placement \cup
          IF compute
          THEN { [tid |-> t, chunk |-> k, nid |-> nodeOf[k], free |-> assigned[k].free,
                  sources |-> SpecSources(k)] : k \in 1..n }
          ELSE {}
     /\ bufferState' = UpdateBufferState(bufferState, t, nodeOf, wo)
     /\ staleReads' = staleReads \cup StaleReadsOf(t, nodeOf, needed, src)
     /\ holders' = HoldersAfter(t, nodeOf, needed, src)
     /\ UNCHANGED failed

Next == \E t \in TaskIds : ProcessTask(t)

\* The master runs build_command_graph to completion: weak fairness.
Spec == Init /\ [][Next]_vars /\ WF_vars(Next)

-----------------------------------------------------------------------------
(* Properties                                                              *)

TypeOK ==
  /\ bufferState \in [Buffers -> [Index -> SUBSET Nodes]]
  /\ holders \in [Buffers -> [Index -> SUBSET Nodes]]
  /\ cmds \subseteq CmdRec
  /\ nextCmdId \in Nat
  /\ processed \subseteq TaskIds
  /\ failed \in STRING

\* Every element a chunk reads is, once its await-pushes have delivered,
\* the latest version written by an earlier task: the buffer state that
\* chooses push sources and skips local data (process_task_data_requirements,
\* update_buffer_state) never names a node whose copy is stale.
NoStaleRead == staleReads = {}

\* The execution commands of a task sit on pairwise distinct nodes that
\* exist, and off the master whenever there are workers (free_nodes in
\* process_compute_task and the greedy choice of assign_chunks_to_nodes).
ChunkPlacement ==
  /\ \A c \in cmds : c.nid \in Nodes
  /\ \A c, d \in cmds :
       c.kind = "compute" /\ d.kind = "compute" /\ c.tid = d.tid /\ c # d => c.nid # d.nid
  /\ NumNodes > 1 => \A c \in cmds : c.kind = "compute" => c.nid # 0

\* The chunks of every processed compute task partition its global range
\* exactly (spec.md section 8): split_equal loses and duplicates nothing.
ChunksPartitionTask ==
  \A t \in processed : Tasks[t].type = "compute" =>
    LET ex == { c \in cmds : c.tid = t /\ c.kind = "compute" } IN
    /\ UNION { c.box : c \in ex } = 0..(Tasks[t].size - 1)
    /\ \A c, d \in ex : c # d => c.box \cap d.box = {}

\* Tasks are processed only after all the tasks they depend on.
InDependencyOrder ==
  \A i \in 1..Len(procOrder) : Tasks[procOrder[i]].deps \subseteq { procOrder[j] : j \in 1..(i - 1) }

\* Spec.md 4.4 step 4: a chunk goes to the smallest free node among the
\* source nodes of its first read buffer, else to the smallest free node.
SpecPlacement ==
  \A p \in placement :
    p.nid = IF p.free \cap p.sources # {} THEN Lo(p.free \cap p.sources) ELSE Lo(p.free)

\* The master never aborts on a valid task graph.
NoAbort == failed = NoFailure

=============================================================================
