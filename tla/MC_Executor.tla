----------------------------- MODULE MC_Executor -----------------------------
(* The command DAG build_command_graph emits on two nodes for a compute   *)
(* task writing a buffer on node 1 followed by a master-access task        *)
(* reading it on node 0: each task has a begin and an end nop, the read is *)
(* served by a push on node 1 and an await-push on node 0.                 *)
EXTENDS Executor

NoCid == -1

C(kind, nid, reads, of, target, push) ==
    [kind |-> kind, nid |-> nid, reads |-> reads, of |-> of, target |-> target,
     push |-> push]
Nop(nid) == C("nop", nid, {}, NoCid, NoCid, NoCid)

MC_Cmd_Pipeline ==
    (0 :> Nop(0)) @@ (1 :> C("compute", 1, {}, NoCid, NoCid, NoCid))
    @@ (2 :> Nop(0)) @@ (3 :> Nop(0))
    @@ (4 :> C("push", 1, {}, 1, 0, NoCid))
    @@ (5 :> C("await_push", 0, {}, NoCid, NoCid, 4))
    @@ (6 :> C("master_access", 0, {1}, NoCid, NoCid, NoCid))
    @@ (7 :> Nop(0))

MC_Edges_Pipeline ==
    {<<0, 1>>, <<1, 2>>, <<2, 3>>, <<3, 5>>, <<5, 6>>, <<6, 7>>, <<1, 4>>, <<4, 7>>}

\* A third task, a compute on node 1 that depends on nothing.
MC_Cmd_Disconnected ==
    MC_Cmd_Pipeline @@ (8 :> Nop(0)) @@ (9 :> C("compute", 1, {}, NoCid, NoCid, NoCid))
    @@ (10 :> Nop(0))

MC_Edges_Disconnected == MC_Edges_Pipeline \cup {<<8, 9>>, <<9, 10>>}
=============================================================================
