# TLA+ models of the celerity runtime core

This directory holds TLA+ models of the distributed command-graph generator
and executor of the celerity runtime. The sources are in `src/`:
`src/src/runtime.cc` holds generation, dispatch and the executor loop.
`src/unnamed/part_000` is `buffer_transfer_manager.cc`.
`src/include/command_graph.h` is the command-graph container, and
`src/include/runtime.h` is the runtime class.
Code that is not under `src/` is modelled from `spec.md` and marked
`spec_modelled` in `PROJECT.json`. That code is `graph_utils`,
`buffer_state`, the task graph, the jobs and `command.h`.

## 1. Inventory

### Components

| Component | Source | State it keeps | Operations |
|---|---|---|---|
| GraphGenerator | runtime.cc 175-517 | `valid_buffer_regions` (per-buffer region -> node set), `next_cmd_id`, the command DAG | `build_command_graph` (one recursion step per satisfied task), `split_equal`, `assign_chunks_to_nodes`, `process_compute_task`, `process_master_access_task`, `process_task_data_requirements`, `update_buffer_state` |
| BufferState | not in src (spec 4.2) | fragments of the index space -> node set | `update_region`, `get_source_nodes` |
| TaskGraph | not in src (spec 6) | tasks, dependencies, processed flags | `get_satisfied_task`, `mark_task_as_processed` |
| Dispatcher | runtime.cc 80-109 | the master's local queue `master_commands` | BFS walk of the command DAG from vertex 0, `send_command`, shutdown to every node |
| Executor | runtime.cc 111-163 | `jobs`, `done` | per-node loop: poll transfers, update jobs, receive a command, `handle_command_pkg` |
| BufferTransferManager | part_000 | `incoming_transfers`, `outgoing_transfers`, `push_blackboard` | `poll`, `poll_transfers`, `push`, `await_push`, `update_incoming_transfers`, `update_outgoing_transfers`, `write_data_to_buffer` |
| CommandGraph | command_graph.h | `commands`, `by_task`, `execution_fronts`, `max_pseudo_critical_path_length`, `next_cmd_id` | `create`, `add_dependency`, `remove_dependency`, `erase` (declared only, modelled from spec 4.3), `task_commands`, `get_execution_front` |
| Runtime lifecycle (not modelled) | runtime.h, runtime.cc 24-64, 165-173 | singleton, queue pointer, buffer table | `init`, `init_for_testing`, `get_instance`, `register_queue`, `get_buffer_data`, `set_buffer_data`, destruction at exit |
| Jobs | not in src | per-job progress | `update`, `is_done` for push, await-push, compute and master-access jobs |

### How they interact

Only the master (node 0) runs the generator. `TEST_do_work` calls
`build_command_graph` once. That function recurses while the task graph has
a satisfied task. Then the master walks the DAG breadth-first from vertex 0.
A command for node 0 goes onto `master_commands`. A command for any other
node goes out as a blocking `MPI_Send` on `TAG_CMD`. Last, the master sends
one SHUTDOWN to every worker and queues one for itself.

Every node then runs the same loop: `btm->poll()`, one `update()` per job,
then at most one command is received (workers use `MPI_Iprobe`/`MPI_Recv`,
the master pops its queue). A received command creates a job at once. The
command package carries no dependency list. PUSH and AWAIT_PUSH jobs call
the transfer manager. A push sends `{header, payload}` with `MPI_Isend` on
`TAG_DATA_TRANSFER`. The receiver finds it with `MPI_Improbe`. The push
and the await-push meet through `push_blackboard`, keyed by the push's
command id. Either side may get there first.

### What is hard

- Order-dependent choices in unordered containers. Both the placement
  of chunks and the update of the buffer state depend on the iteration
  order of an `unordered_map` or `unordered_set`, which is unspecified.
  `std::set_intersection` is fed an unsorted `unordered_set`.
- Boundaries: a task smaller than the number of chunks, a single node
  (`free_nodes` is then {0, 1}), a buffer written by two chunks at once.
- Release builds: the `assert` at runtime.cc:416 has a side effect.
- Asynchrony: data may arrive before or after its await-push. Workers get
  commands in MPI order, but jobs start without waiting for their
  dependencies. A push reads the buffer when it is created. SHUTDOWN
  relies on MPI's non-overtaking rule.
- Graph bookkeeping: execution fronts after `remove_dependency`, cycles
  that `add_dependency` accepts.

### What makes each component correct

- GraphGenerator: no chunk reads a stale copy, and the buffer state
  never names a node whose copy is stale. A task's chunks sit on distinct
  existing nodes and partition its range. Tasks are processed only after
  their dependencies.
- Dispatcher and Executor: every command reaches its node. No compute job
  runs before its data has arrived. Every node terminates.
- BufferTransferManager: every push is written into the receiver's buffer
  exactly once. Every await-push completes, whichever side comes first.
- CommandGraph: the execution front is exactly the set of commands without
  dependents, and the graph stays acyclic.

## 2. Plan

Each step comes in the order of importance.

1. `GraphGenerator.tla`: done. It is the core of the system. It is
   checked in `MC_GraphGenerator.tla`.
2. `BufferTransferManager.tla`: done (section 4).
3. `Executor.tla`: done (section 6).
4. `CommandGraph.tla`: done (section 5).
5. Abstract specifications. `Rendezvous.tla` is done: it states what the
   transfer manager promises, and BufferTransferManager is checked to
   implement it (section 4). Still open is an abstract `DataFlow.tla`
   ("every read sees the latest write"), to be refined by GraphGenerator
   and by Executor through INSTANCE ... WITH.

Bounds: 3 nodes (2 workers) is the smallest cluster where chunk placement,
push sources and transfers between workers all occur. The dataflow run
uses 4 nodes (3 workers). There each task has three chunks, and the
greedy choice of the first chunk still leaves two free nodes for the
next. A buffer of 4 elements lets a neighbourhood
mapper read across a chunk boundary. Tasks of size 3 and 4 give split_equal
an even split and a remainder on the last chunk (4 over 3 workers). With two
buffers, one of them host-initialized, the source set holds several nodes.

## 3. The GraphGenerator model

`GraphGenerator.tla` models one call of `build_command_graph` as one
`ProcessTask(t)` step. The step covers the whole task: split, requirements,
source lookup, placement, commands, transfers, marking the task processed,
and the buffer-state update.

Data is abstracted this way. Buffers are one-dimensional (a 2-D task is
split by rows). A region is a set of indices. A range mapper is one of
`one_to_one`, `neighbour`, `all` or `fixed`. Commands are records
`[cid, kind, nid, tid, bid, box, peer]`. Unspecified iteration orders are
existential choices: `fb` (the first buffer of each chunk), the order of
each source-node set (inside `AssignChunks`), `src` (the first element of
a box's source set), and `wo` (the order of `buffer_writers`).

A failed `assert` or an uncaught exception sets `failed`, and the master
stops. Under `NDEBUG` the asserts are gone. Every call then takes an
uninitialized `tid`, because the `assert(get_satisfied_task(...))` at
line 416 is the only place a call's `tid` is set. The check at line 465
still decides whether another call is made.

Ghost state: `holders` records which nodes truly hold the latest version
of each element. It is computed from the emitted commands, never from
`bufferState`. `staleReads` collects every read that misses that version.

### Runs

| Run | cfg | Expect | Shows |
|---|---|---|---|
| gen_dataflow | MC_GraphGenerator_dataflow.cfg | pass | 4 nodes, 6 tasks, 3,705 states, about 70 s. No chunk reads a stale copy. Chunks go to distinct workers and partition the task. |
| gen_single_node | MC_GraphGenerator_single.cfg | pass | 1 node, 7 tasks, 459 states. `free_nodes` = {0,1}, yet every chunk lands on node 0 (`ChunkPlacement`). The mutant makes `free_nodes` skip node 0 whether or not the run is master-only. |
| gen_release_order | MC_GraphGenerator_release.cfg | violation | Under NDEBUG each call's task is arbitrary, so a consumer runs before its producer. |
| gen_small_task | MC_GraphGenerator_small.cfg | violation | A 1-element kernel on 3 nodes aborts the master (empty chunk). |
| gen_placement | MC_GraphGenerator_placement.cfg | violation | Chunk placement is not the spec's "smallest free source node". |

The specification has weak fairness on `Next`, because the master runs
`build_command_graph` to completion with nothing else to do. No run
checks a liveness property of the generator. With asserts on, "every
task is processed" follows from `ProcessTask`'s guard and that fairness
alone, so checking it would show nothing.
`CHECK_DEADLOCK FALSE` is set because generation really stops once every
task is processed.

## 4. The BufferTransferManager model

`BufferTransferManager.tla` holds the transfer manager of every node.
It is indexed by the node. Its actions are these:

| Action | Code |
|---|---|
| `Push(c)` | `push()`: post `MPI_Isend`, append to `outgoing_transfers`, return a pending handle |
| `AwaitPush(c)` | `await_push()`: either take the parked transfer and write it (complete handle), or store a waiter |
| `Poll(n, s, imm)` | one whole `poll()`: `poll_transfers` (probe the oldest message of sender `s`, or none), `update_incoming_transfers`, `update_outgoing_transfers` |
| `MpiRecvComplete(c)`, `MpiSendComplete(c)` | the MPI layer completing a posted receive, or a send |

A push is identified by its command id. The header and payload are
abstracted to that id. `written[c]` counts the `write_data_to_buffer` calls
for push `c`.

The MPI layer is modelled this way:
- Channels are FIFO per sender and receiver. This is MPI's non-overtaking
  rule on one tag.
- A receive may already be complete when `poll` tests it (`imm`).
- A send completes either eagerly, or once its receive has completed
  (rendezvous). `eager[c]` chooses which.

Fairness rests on two things. Each executor loop calls `poll()` on every
pass while it has jobs. MPI guarantees progress for a pending match and for
posted requests. The commands themselves are assumed to arrive. That is
the dispatcher's job, and it is left to the Executor model.

| Run | cfg | Expect | Shows |
|---|---|---|---|
| btm_rendezvous | MC_BufferTransferManager.cfg | pass | 3 nodes, 3 pushes into node 0 (two of them on one channel, one from a second sender), 160k states, about 2 minutes. A complete await handle means the data was written exactly once. The blackboard holds exactly the half-met rendezvous. The manager implements `Rendezvous`. Every handle completes, and nothing is left in the lists or the blackboard. |

### Refinement: `Rendezvous.tla`

`Rendezvous.tla` is the transfer manager's promise, taken from spec 4.7,
with no MPI, lists or blackboard in it. A push is posted (`Post`) and
awaited (`Await`). It is delivered at most once, and only after both have
happened. An await may deliver at once when the push is already there,
and one `poll()` may deliver several pushes at once, so `Deliver` takes a
set. `BufferTransferManager.tla` instances it as `Abstract`:
- `posted` is the pushes whose handle is not `none`;
- `awaited` is the await-pushes whose handle is not `none`;
- `delivered` is the pushes written at least once.

`ImplementsRendezvous` (`Abstract!SafetySpec`) is checked as a PROPERTY in
the btm_rendezvous run. Its mutant delivers an incoming transfer when no
waiter is on the blackboard (`MeetsWaiterAlways`). This writes data that
nobody awaited, and the refinement check catches it.

## 5. The CommandGraph model

`command_graph.h` defines a container that `runtime.cc` in this snapshot
does not use: the generator there builds a boost DAG through `graph_utils`.
`CommandGraph.tla` therefore drives the container with every sequence of
calls that passes its asserts. The asserts become the guards of the
actions. The actions are these:
- `Create(kind, nid, tid)` for `create<T>`.
- `AddDependency(depender, dependee, isAnti)`.
- `RemoveDependency(depender, dependee)`.
- `Erase(c)`.

The state per command is its kind, node, task and pseudo critical path
length. The dependency list and the length belong to `abstract_command` in
`command.h`, which is not under `src/`, so they follow spec.md 3. Adding
a dependency raises the depender to at least the dependee's length plus
one. Removing one changes no length.

`task_commands<Filters...>(tid)` is modelled as `TaskCommands`. It runs
`filter_iterator` over `by_task[tid]`. `Advance` is `advance()`, which
skips the commands the kind filter rejects. `FilterWalk` is `operator++`.
The constructor advances once before the first element, which
`FilterIterate` models.

`Erase(c)` is `erase`. The header only declares it and its body is not
part of the sources, so it follows spec.md 4.3: the command leaves every
index (`commands`, `by_task` and its node's execution front), and its own
dependency list goes with it. Entries of other commands that name it as
their dependee stay. `by_task` gets an entry for a task at its first task
command, as `operator[]` does. `task_commands<Filters...>` asserts that the
entry exists, so `TaskCommandsFiltered` ranges over the tasks that have one.

Bounds: 2 nodes, 1 task, kinds `compute` and `master_access` (task
commands) and `nop`, 3 commands, lengths up to 2. Three commands are the
fewest for a chain of two dependencies, and for a dependency re-added
after its removal. Two task-command kinds let a filter reject the first
command of a task and accept a later one. Nodes are model values and are
only compared, so the cfgs use their permutations as a symmetry.

`DependenciesAcyclic` states spec 3's invariant "within a node,
dependencies form a DAG", using `IsDag` of the community module `Graphs`.
`add_dependency` asserts only that the two commands share a node and
differ. So `add_dependency(1,0)` followed by `add_dependency(0,1)` is
accepted and makes a cycle.

One gap is recorded as a hazard only. Adding a dependency below an
existing one leaves the dependents' lengths too small:
`add_dependency(1,0)` then `add_dependency(0,2)` leaves command 1 at
length 1 under a chain of 2. The comment at lines 160-161 admits this
for the maximum. The per-command length lives in `command.h`, which is
not under `src/`, so no property checks it.

| Run | cfg | Expect | Shows |
|---|---|---|---|
| cg_operations | MC_CommandGraph_ops.cfg | pass | 644k states with node symmetry, about 75 s. `CHECK_DEADLOCK FALSE`: once the three creates are spent and every command is erased, no call is left. No front holds a command with a dependent. `TaskCommandsFiltered`: for every filter set, `task_commands` visits exactly the task's commands of those kinds, once each, in creation order. |
| cg_front_after_remove | MC_CommandGraph_front.cfg | violation | `remove_dependency` leaves a command with no dependents outside the front (spec 8 says the front is exactly those commands). |
| cg_dependency_cycle | MC_CommandGraph_cycle.cfg | violation | Two `add_dependency` calls in opposite directions on one node make a cycle (99 states). |

## 6. The Executor model

`Executor.tla` composes these parts:
- the dispatcher: `Dispatch`, which is runtime.cc 80-109 in one step. It
  walks the DAG breadth-first from vertex 0 (`BfsFrom`, with successors
  in ascending order), fills each node's `TAG_CMD` inbox in that order,
  then appends one SHUTDOWN per node.
- the loop of every node (runtime.cc 111-163), split into the steps the
  loop really takes in order, tracked by `pc[n]`:
  - `PollStep` is `btm->poll()`;
  - `UpdateJob` is one job's `update()`, which erases the job when it is
    done;
  - `JobsDone` is the end of the job pass;
  - `Receive(n, got)` is the probe and receive of one command, or of the
    shutdown, and `handle_command_pkg`.
- the transfer managers: an INSTANCE of BufferTransferManager, with the
  push commands as its command ids.
- the device and MPI: `KernelComplete(v)` and `MpiProgress(p)`.

The jobs are not under `src/`, so they follow spec 4.6. A job's first
`update()` starts its work, and the job is done when that work has
completed. Ghost state records, for each node, which producers' outputs
are in its buffers (`data`). It records whether each push read its
producer's output (`payload`). It records which commands read their input
too early (`stale`).

Fairness: each node's loop runs on its own thread and never blocks, so
each loop step has weak fairness. A probe for a pending message is
enabled only at the top of a pass, so the probes (the transfer probe
inside `poll`, and the command probe of workers) need strong fairness.
MPI's progress rule justifies it. Kernels and MPI requests complete
(weak fairness). `CHECK_DEADLOCK FALSE` is set because every node really
stops once it has exited its loop.

Bounds: 2 nodes and an 8-vertex pipeline. A compute on node 1 is pushed
to node 0, awaited there, and read by a master-access command, with nops
in between. This is the smallest graph with a transfer between two nodes,
a consumer of the transfer, and commands on both nodes. The disconnected
variant adds a second component of three vertices.

| Run | cfg | Expect | Shows |
|---|---|---|---|
| exec_pipeline | MC_Executor.cfg | pass | A node exits only after every command sent to it has finished. When it exits, no data addressed to it is in flight and its transfer manager holds nothing, so the destructor's `btm.reset()` and `MPI_Finalize` drop nothing (`ExitedNodeQuiescent`). Every node eventually exits. |
| exec_stale_read | MC_Executor_stale.cfg | violation | Jobs start on receipt, without their dependencies. The push reads the buffer before its kernel has completed, and the master-access reads before its await-push is done. |
| exec_disconnected | MC_Executor_disconnected.cfg | violation | Commands not reachable from vertex 0 are never dispatched, yet every node exits normally. |

## 7. The runtime lifecycle (not modelled)

`runtime.h` and `runtime.cc` under `src/` come from different revisions.
`runtime.cc` uses members the header does not declare: `command_graph`
(line 55), `TEST_do_work` and `register_queue`.
`init_for_testing` (runtime.h 109-118) reads the static
`test_skip_mpi_lifecycle`, and no file under `src/` defines it. The
constructor and destructor in `runtime.cc` never read that flag. So no
program pairs this `init_for_testing` with these constructors, and there
is no single sequence of `init`, construction and destruction to model.
Only the part of the lifecycle inside `TEST_do_work` is modelled, in the
Executor model. That part is the exit of the loop before the destructor's
`btm.reset()` and `MPI_Finalize`.

## 8. Not modelled (yet)

- The runtime lifecycle (`init`, `init_for_testing`, `get_instance`,
  `register_queue`, the constructor and the destructor), for the reason
  given in section 7.

- GridRegion algebra in more than one dimension, and the exact box shapes.
  The model works with index sets and maximal intervals.
- Logging, graph printing, labels, and MPI datatype construction.
- The recursion depth of `build_command_graph`, which grows by one frame
  per task (stack use).
- `int` overflow of `MPI_Get_count` for payloads above 2 GiB
  (part_000:26-27). The model has no byte sizes.
- In the runtime class: `register_buffer`, `startup`, `shutdown`,
  `free_buffers` and `flush_command`. `runtime.h` declares them, but no
  file under `src/` defines them; the header comes from a later revision
  than `runtime.cc`. `get_buffer_data` and `set_buffer_data` read the
  buffer table, which only `register_buffer` fills.
- The DataFlow refinement linking the generator's command graph to the
  executor's runs. Each side is checked on its own. The Executor takes a
  fixed, hand-built graph of the generator's shape.
