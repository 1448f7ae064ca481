------------------------------ MODULE Executor ------------------------------
(***************************************************************************)
(* runtime::TEST_do_work and runtime::handle_command_pkg                   *)
(* (src/src/runtime.cc 66-163): the master walks the command DAG           *)
(* breadth-first from vertex 0 and ships every non-nop command to its node *)
(* (its own go to the local queue master_commands), then one SHUTDOWN per  *)
(* node.  Every node then loops: btm->poll(); update() every job, erasing  *)
(* the done ones; take at most one command and create its job; until it   *)
(* is done and has no job left.                                            *)
(*                                                                         *)
(* The transfer managers are an instance of BufferTransferManager.  The    *)
(* jobs (push_job, await_push_job, compute_job, master_access_job) and     *)
(* the BFS of graph_utils are not under src/ and follow spec.md 4.5/4.6:   *)
(* a job's first update() starts its work (btm push/await_push, kernel     *)
(* submission, the master-access functor) and it is done when that work    *)
(* has completed.                                                          *)
(*                                                                         *)
(* Ghost state: data[n] is the set of producer commands whose output is in *)
(* node n's buffer storage, payload[p] whether push p read its producer's  *)
(* output, and stale the commands that read their input before it was     *)
(* there.                                                                  *)
(***************************************************************************)
EXTENDS Naturals, Sequences, SequencesExt, FiniteSets

CONSTANTS
    NumNodes,   \* MPI ranks; node 0 is the master
    Vertices,   \* vertices of the command DAG, numbered from 0
    Cmd,        \* Cmd[v]: [kind, nid, reads, of, target, push]
    Edges       \* command DAG edges <<u, v>>: v comes after u

Nodes == 0 .. NumNodes - 1
Shutdown == -1
Kinds == {"nop", "compute", "master_access", "push", "await_push"}

PushCids == {v \in Vertices : Cmd[v].kind = "push"}
TransferOf == [p \in PushCids |-> [src |-> Cmd[p].nid, dst |-> Cmd[p].target]]

VARIABLES
    chan, sendReq, eager, outgoing, incoming, recvDone, blackboard,
    pushHandle, awaitHandle, written,
    pc,         \* pc[n]: where node n is in TEST_do_work
    inbox,      \* inbox[n]: TAG_CMD channel from the master, master_commands for 0
    jobs,       \* jobs[n]: the job list of node n, in creation order
    jobIdx,     \* jobIdx[n]: the job the update loop is at
    done,       \* done[n]: SHUTDOWN received
    jobState,   \* jobState[v]: "none" | "created" | "started" | "finished"
    data,       \* ghost: producers whose output is in node n's buffers
    payload,    \* ghost: payload[p] = push p sent its producer's output
    stale       \* ghost: commands that read data before it was produced

btmVars == <<chan, sendReq, eager, outgoing, incoming, recvDone, blackboard,
             pushHandle, awaitHandle, written>>
exVars == <<pc, inbox, jobs, jobIdx, done, jobState, data, payload, stale>>
vars == <<btmVars, exVars>>

BTM == INSTANCE BufferTransferManager WITH Cids <- PushCids, Transfer <- TransferOf

-----------------------------------------------------------------------------
(* graph_utils::search_vertex_bf(0, ...): breadth-first order of the       *)
(* vertices reachable from vertex 0, successors in vertex order.           *)
Succ(v) == {w \in Vertices : <<v, w>> \in Edges}

RECURSIVE BfsFrom(_, _)
BfsFrom(queue, visited) ==
    IF queue = <<>> THEN <<>>
    ELSE LET v     == Head(queue)
             fresh == Succ(v) \ (visited \cup ToSet(queue))
         IN <<v>> \o BfsFrom(Tail(queue) \o SetToSortSeq(fresh, <), visited \cup {v})

BfsOrder == BfsFrom(<<0>>, {})

\* The packages the BFS callback sends: every non-nop command, in order.
Dispatched == SelectSeq(BfsOrder, LAMBDA v : Cmd[v].kind # "nop")

\* Mutant: SHUTDOWN goes to the workers only, not into master_commands.
DispatchWorkersOnlyShutdown ==
    /\ pc[0] = "dispatch"
    /\ inbox' = [n \in Nodes |->
                   SelectSeq(Dispatched, LAMBDA v : Cmd[v].nid = n)
                   \o (IF n = 0 THEN <<>> ELSE <<Shutdown>>)]
    /\ pc' = [pc EXCEPT ![0] = "poll"]
    /\ UNCHANGED <<btmVars, jobs, jobIdx, done, jobState, data, payload, stale>>

(* The master's prologue: send_command for every command of a worker,      *)
(* master_commands.push for its own, then SHUTDOWN to nodes 1..n-1 and to  *)
(* itself.  The master does nothing else meanwhile, so it is one step.     *)
Dispatch ==
    /\ pc[0] = "dispatch"
    /\ inbox' = [n \in Nodes |->
                   SelectSeq(Dispatched, LAMBDA v : Cmd[v].nid = n) \o <<Shutdown>>]
    /\ pc' = [pc EXCEPT ![0] = "poll"]
    /\ UNCHANGED <<btmVars, jobs, jobIdx, done, jobState, data, payload, stale>>

-----------------------------------------------------------------------------
(* Data moves with the transfer manager: a write_data_to_buffer for push p *)
(* puts its payload into the receiver's buffers.                           *)
Arrived(n) == {Cmd[p].of : p \in {q \in PushCids : written'[q] # written[q]
                                                 /\ payload[q]}}

(* btm->poll() at the top of the loop of node n.                           *)
PollStep(n, s, imm) ==
    /\ pc[n] = "poll"
    /\ BTM!Poll(n, s, imm)
    /\ data' = [data EXCEPT ![n] = @ \cup Arrived(n)]
    /\ pc' = [pc EXCEPT ![n] = "jobs"]
    /\ jobIdx' = [jobIdx EXCEPT ![n] = 1]
    /\ UNCHANGED <<inbox, jobs, done, jobState, payload, stale>>

Inputs(v) == IF Cmd[v].kind = "push" THEN {Cmd[v].of} ELSE Cmd[v].reads

\* runtime::execute_master_access_task: the task's functor runs on the
\* master, and what it writes through its accessors is in the master's
\* buffers.
ExecuteMasterAccessTask(n, v) == data' = [data EXCEPT ![n] = @ \cup {v}]

(* job->update() of the job at jobIdx[n]; the job is erased when it is     *)
(* done afterwards.  First update: a push job calls btm->push, an          *)
(* await-push job btm->await_push, a compute job submits its kernel and a  *)
(* master-access job runs its functor (done at once).  Later updates only  *)
(* look at the handle or the kernel.                                       *)
StartJob(n, v) ==
    /\ stale' = IF Inputs(v) \subseteq data[n] THEN stale ELSE stale \cup {v}
    /\ CASE Cmd[v].kind = "push" ->
              /\ BTM!Push(v)
              /\ payload' = [payload EXCEPT ![v] = Cmd[v].of \in data[n]]
              /\ jobState' = [jobState EXCEPT ![v] = "started"]
              /\ UNCHANGED data
         [] Cmd[v].kind = "await_push" ->
              /\ BTM!AwaitPush(Cmd[v].push)
              /\ data' = [data EXCEPT ![n] = @ \cup Arrived(n)]
              /\ jobState' = [jobState EXCEPT ![v] =
                                IF awaitHandle'[Cmd[v].push] = "complete"
                                   THEN "finished" ELSE "started"]
              /\ UNCHANGED payload
         [] Cmd[v].kind = "compute" ->
              /\ jobState' = [jobState EXCEPT ![v] = "started"]
              /\ UNCHANGED <<btmVars, data, payload>>
         [] Cmd[v].kind = "master_access" ->
              /\ jobState' = [jobState EXCEPT ![v] = "finished"]
              /\ ExecuteMasterAccessTask(n, v)
              /\ UNCHANGED <<btmVars, payload>>

\* Mutant: a push job is done once MPI_Isend is posted.
JobCompletePushPosted(v) ==
    CASE Cmd[v].kind = "push"       -> TRUE
      [] Cmd[v].kind = "await_push" -> awaitHandle[Cmd[v].push] = "complete"
      [] OTHER                      -> jobState[v] = "finished"

\* is_done() of a started job.
JobComplete(v) ==
    CASE Cmd[v].kind = "push"       -> pushHandle[v] = "complete"
      [] Cmd[v].kind = "await_push" -> awaitHandle[Cmd[v].push] = "complete"
      [] OTHER                      -> jobState[v] = "finished"

UpdateJob(n) ==
    LET v == jobs[n][jobIdx[n]] IN
    /\ pc[n] = "jobs"
    /\ jobIdx[n] <= Len(jobs[n])
    /\ IF jobState[v] = "created"
          THEN StartJob(n, v)
          ELSE /\ jobState' = IF JobComplete(v)
                                 THEN [jobState EXCEPT ![v] = "finished"]
                                 ELSE jobState
               /\ UNCHANGED <<btmVars, data, payload, stale>>
    /\ IF jobState'[v] = "finished"
          THEN /\ jobs' = [jobs EXCEPT ![n] = RemoveAt(@, jobIdx[n])]
               /\ UNCHANGED jobIdx
          ELSE /\ jobIdx' = [jobIdx EXCEPT ![n] = @ + 1]
               /\ UNCHANGED jobs
    /\ UNCHANGED <<pc, inbox, done>>

\* After the last job, the loop moves on to the command check.
JobsDone(n) ==
    /\ pc[n] = "jobs"
    /\ jobIdx[n] > Len(jobs[n])
    /\ pc' = [pc EXCEPT ![n] = "recv"]
    /\ UNCHANGED <<btmVars, inbox, jobs, jobIdx, done, jobState, data, payload, stale>>

\* Mutant: the loop ends on SHUTDOWN without waiting for the job list.
ReceiveExitIgnoresJobs(n, got) ==
    LET pkg   == Head(inbox[n])
        done2 == done[n] \/ (got /\ pkg = Shutdown)
        jobs2 == IF got /\ pkg # Shutdown THEN Append(jobs[n], pkg) ELSE jobs[n]
    IN
    /\ pc[n] = "recv"
    /\ got => inbox[n] # <<>>
    /\ n = 0 => (got <=> inbox[n] # <<>>)
    /\ inbox' = IF got THEN [inbox EXCEPT ![n] = Tail(@)] ELSE inbox
    /\ done' = [done EXCEPT ![n] = done2]
    /\ jobs' = [jobs EXCEPT ![n] = jobs2]
    /\ jobState' = IF got /\ pkg # Shutdown
                      THEN [jobState EXCEPT ![pkg] = "created"] ELSE jobState
    /\ pc' = [pc EXCEPT ![n] = IF done2 THEN "exited" ELSE "poll"]
    /\ UNCHANGED <<btmVars, jobIdx, data, payload, stale>>

\* Mutant: the else is dropped, so SHUTDOWN also goes to handle_command_pkg
\* and becomes a job of the node.
ReceiveHandlesShutdown(n, got) ==
    LET pkg   == Head(inbox[n])
        done2 == done[n] \/ (got /\ pkg = Shutdown)
        jobs2 == IF got THEN Append(jobs[n], pkg) ELSE jobs[n]
    IN
    /\ pc[n] = "recv"
    /\ got => inbox[n] # <<>>
    /\ n = 0 => (got <=> inbox[n] # <<>>)
    /\ inbox' = IF got THEN [inbox EXCEPT ![n] = Tail(@)] ELSE inbox
    /\ done' = [done EXCEPT ![n] = done2]
    /\ jobs' = [jobs EXCEPT ![n] = jobs2]
    /\ jobState' = IF got /\ pkg # Shutdown
                      THEN [jobState EXCEPT ![pkg] = "created"] ELSE jobState
    /\ pc' = [pc EXCEPT ![n] = IF done2 /\ jobs2 = <<>> THEN "exited" ELSE "poll"]
    /\ UNCHANGED <<btmVars, jobIdx, data, payload, stale>>

(* The command check: a worker's MPI_Iprobe on TAG_CMD (which may not see  *)
(* a message yet: got = FALSE), the master's master_commands.  SHUTDOWN    *)
(* sets done; any other command creates its job (handle_command_pkg).     *)
(* The loop then exits once done and the job list is empty.                *)
Receive(n, got) ==
    LET pkg   == Head(inbox[n])
        done2 == done[n] \/ (got /\ pkg = Shutdown)
        jobs2 == IF got /\ pkg # Shutdown THEN Append(jobs[n], pkg) ELSE jobs[n]
    IN
    /\ pc[n] = "recv"
    /\ got => inbox[n] # <<>>
    /\ n = 0 => (got <=> inbox[n] # <<>>)
    /\ inbox' = IF got THEN [inbox EXCEPT ![n] = Tail(@)] ELSE inbox
    /\ done' = [done EXCEPT ![n] = done2]
    /\ jobs' = [jobs EXCEPT ![n] = jobs2]
    /\ jobState' = IF got /\ pkg # Shutdown
                      THEN [jobState EXCEPT ![pkg] = "created"] ELSE jobState
    /\ pc' = [pc EXCEPT ![n] = IF done2 /\ jobs2 = <<>> THEN "exited" ELSE "poll"]
    /\ UNCHANGED <<btmVars, jobIdx, data, payload, stale>>

(* The device finishes a submitted kernel: its output is in the buffers.   *)
KernelComplete(v) ==
    /\ Cmd[v].kind = "compute"
    /\ jobState[v] = "started"
    /\ data' = [data EXCEPT ![Cmd[v].nid] = @ \cup {v}]
    /\ jobState' = [jobState EXCEPT ![v] = "finished"]
    /\ UNCHANGED <<btmVars, pc, inbox, jobs, jobIdx, done, payload, stale>>


\* The MPI layer completing posted receives and sends.
MpiProgress(p) ==
    /\ BTM!MpiRecvComplete(p) \/ BTM!MpiSendComplete(p)
    /\ UNCHANGED exVars

Init ==
    /\ BTM!Init
    /\ pc = [n \in Nodes |-> IF n = 0 THEN "dispatch" ELSE "poll"]
    /\ inbox = [n \in Nodes |-> <<>>]
    /\ jobs = [n \in Nodes |-> <<>>]
    /\ jobIdx = [n \in Nodes |-> 1]
    /\ done = [n \in Nodes |-> FALSE]
    /\ jobState = [v \in Vertices |-> "none"]
    /\ data = [n \in Nodes |-> {}]
    /\ payload = [p \in PushCids |-> FALSE]
    /\ stale = {}

Next ==
    \/ Dispatch
    \/ \E n \in Nodes :
          \/ \E s \in Nodes \cup {BTM!NoSender}, imm \in BOOLEAN : PollStep(n, s, imm)
          \/ UpdateJob(n)
          \/ JobsDone(n)
          \/ \E got \in BOOLEAN : Receive(n, got)
    \/ \E v \in Vertices : KernelComplete(v)
    \/ \E p \in PushCids : MpiProgress(p)

(* Each node runs its loop on one thread without blocking, so each step of *)
(* it is taken while enabled.  A probe repeated while a message is pending *)
(* eventually matches it (MPI progress), which is strong fairness since    *)
(* the probe is enabled only at the top of each pass.  The device and the  *)
(* MPI layer complete what was submitted.                                  *)
Fairness ==
    /\ WF_vars(Dispatch)
    /\ \A n \in Nodes :
          /\ WF_vars(\E s \in Nodes \cup {BTM!NoSender}, imm \in BOOLEAN : PollStep(n, s, imm))
          /\ SF_vars(\E s \in Nodes, imm \in BOOLEAN : PollStep(n, s, imm))
          /\ WF_vars(UpdateJob(n))
          /\ WF_vars(JobsDone(n))
          /\ WF_vars(\E got \in BOOLEAN : Receive(n, got))
          /\ SF_vars(Receive(n, TRUE))
    /\ \A v \in Vertices : WF_vars(KernelComplete(v))
    /\ \A p \in PushCids : WF_vars(MpiProgress(p))

Spec == Init /\ [][Next]_vars /\ Fairness

-----------------------------------------------------------------------------
TypeOK ==
    /\ BTM!TypeOK
    /\ pc \in [Nodes -> {"dispatch", "poll", "jobs", "recv", "exited"}]
    /\ inbox \in [Nodes -> Seq(Vertices \cup {Shutdown})]
    /\ jobs \in [Nodes -> Seq(Vertices)]
    /\ jobIdx \in [Nodes -> Nat \ {0}]
    /\ done \in [Nodes -> BOOLEAN]
    /\ jobState \in [Vertices -> {"none", "created", "started", "finished"}]
    /\ data \in [Nodes -> SUBSET Vertices]
    /\ payload \in [PushCids -> BOOLEAN]
    /\ stale \subseteq Vertices

\* The commands the BFS dispatches to node n.
CommandsOf(n) == {v \in ToSet(Dispatched) : Cmd[v].nid = n}

(* A node leaves TEST_do_work only after it has run every command the      *)
(* master sent it to completion: SHUTDOWN comes last on the TAG_CMD        *)
(* channel and the loop waits for the job list to drain.                   *)
ExitedNodeRanAll ==
    \A n \in Nodes : pc[n] = "exited" =>
        \A v \in CommandsOf(n) : jobState[v] = "finished"

(* A node leaves its loop, and its runtime's destructor then resets the    *)
(* transfer manager and calls MPI_Finalize, only once no data addressed to *)
(* it is still in flight and its transfer manager holds no posted send or  *)
(* receive and no blackboard entry, whatever the order in which the nodes  *)
(* polled, received their commands and saw their transfers complete.       *)
ExitedNodeQuiescent ==
    \A n \in Nodes : pc[n] = "exited" =>
        /\ \A s \in Nodes : chan[s][n] = <<>>
        /\ outgoing[n] = <<>> /\ incoming[n] = <<>>
        /\ \A c \in PushCids : blackboard[n][c] = "absent"

(* Every node eventually leaves its executor loop.                         *)
AllNodesExit == <>(\A n \in Nodes : pc[n] = "exited")

(* spec.md 5: a command with a dependency on D is not started until D's    *)
(* job reports done; so no kernel, master-access functor or push reads a   *)
(* buffer before the data it depends on is there.                          *)
NoStaleInput == stale = {}

(* Every command of the command graph is executed.                         *)
EveryCommandRuns ==
    <>(\A v \in Vertices : Cmd[v].kind # "nop" => jobState[v] = "finished")

=============================================================================
