---------------------- MODULE MC_BufferTransferManager ----------------------
(* Three ranks; node 0 receives two pushes from node 1 (non-overtaking on  *)
(* the same channel) and one from node 2, so its probes choose between two *)
(* senders.                                                                *)
EXTENDS BufferTransferManager

MC_Transfer ==
    (1 :> [src |-> 1, dst |-> 0]) @@ (2 :> [src |-> 1, dst |-> 0])
    @@ (3 :> [src |-> 2, dst |-> 0])
=============================================================================
