------------------------ MODULE BufferTransferManager ------------------------
(***************************************************************************)
(* buffer_transfer_manager (src/unnamed/part_000): one instance per node.  *)
(* A PUSH command hands a buffer range to push(), which posts an           *)
(* MPI_Isend on TAG_DATA_TRANSFER; the receiver's poll() probes the        *)
(* message, posts MPI_Imrecv and, once the receive has completed, meets    *)
(* the AWAIT_PUSH of the same push cid in push_blackboard.  Either side of *)
(* the rendezvous may come first.                                          *)
(*                                                                         *)
(* The MPI layer is the environment: messages of one sender to one         *)
(* receiver are matched in order (non-overtaking), a posted receive        *)
(* completes some time after it is posted, and a send completes either     *)
(* early (eager, buffered) or once its receive has completed.              *)
(***************************************************************************)
EXTENDS Naturals, Sequences, SequencesExt

CONSTANTS
    NumNodes,   \* number of MPI ranks
    Cids,       \* command ids of the push commands
    Transfer    \* Transfer[c]: [src, dst] of push c (push.target = dst)

Nodes == 0 .. NumNodes - 1
NoSender == -1

ASSUME \A c \in Cids : Transfer[c].src \in Nodes /\ Transfer[c].dst \in Nodes
                       /\ Transfer[c].src # Transfer[c].dst

Src(c) == Transfer[c].src
Dst(c) == Transfer[c].dst

VARIABLES
    chan,         \* chan[s][d]: messages of s for d not yet matched by a probe
    sendReq,      \* sendReq[c]: MPI request of push c's MPI_Isend
    eager,        \* eager[c]: the send of c completes without a matching receive
    outgoing,     \* outgoing[n]: outgoing_transfers of node n, in list order
    incoming,     \* incoming[n]: incoming_transfers of node n, in list order
    recvDone,     \* cids whose MPI_Imrecv request has completed
    blackboard,   \* blackboard[n][c]: push_blackboard entry of n for push cid c
    pushHandle,   \* pushHandle[c]: handle push() returned to the push job
    awaitHandle,  \* awaitHandle[c]: handle await_push() returned to the job
    written       \* written[c]: write_data_to_buffer calls for c's data

vars == <<chan, sendReq, eager, outgoing, incoming, recvDone, blackboard,
          pushHandle, awaitHandle, written>>

\* An entry is absent, a waiter (handle stored by await_push) or a parked
\* transfer (data received before its await_push).
Entries == {"absent", "waiter", "parked"}
HandleStates == {"none", "pending", "complete"}

Init ==
    /\ chan = [s \in Nodes |-> [d \in Nodes |-> <<>>]]
    /\ sendReq = [c \in Cids |-> "none"]
    /\ eager = [c \in Cids |-> FALSE]
    /\ outgoing = [n \in Nodes |-> <<>>]
    /\ incoming = [n \in Nodes |-> <<>>]
    /\ recvDone = {}
    /\ blackboard = [n \in Nodes |-> [c \in Cids |-> "absent"]]
    /\ pushHandle = [c \in Cids |-> "none"]
    /\ awaitHandle = [c \in Cids |-> "none"]
    /\ written = [c \in Cids |-> 0]

-----------------------------------------------------------------------------
\* Mutant: push() does not check that the command was already handled.
PushRepeated(c) ==
    /\ pushHandle[c] # "complete"
    /\ chan' = [chan EXCEPT ![Src(c)][Dst(c)] = Append(@, c)]
    /\ sendReq' = [sendReq EXCEPT ![c] = "pending"]
    /\ \E e \in BOOLEAN : eager' = [eager EXCEPT ![c] = e]
    /\ outgoing' = [outgoing EXCEPT ![Src(c)] = Append(@, c)]
    /\ pushHandle' = [pushHandle EXCEPT ![c] = "pending"]
    /\ UNCHANGED <<incoming, recvDone, blackboard, awaitHandle, written>>

(* push(pkg): read the range, post MPI_Isend to data.target, append the    *)
(* transfer to outgoing_transfers and return a fresh incomplete handle.    *)
Push(c) ==
    /\ pushHandle[c] = "none"
    /\ chan' = [chan EXCEPT ![Src(c)][Dst(c)] = Append(@, c)]
    /\ sendReq' = [sendReq EXCEPT ![c] = "pending"]
    /\ \E e \in BOOLEAN : eager' = [eager EXCEPT ![c] = e]
    /\ outgoing' = [outgoing EXCEPT ![Src(c)] = Append(@, c)]
    /\ pushHandle' = [pushHandle EXCEPT ![c] = "pending"]
    /\ UNCHANGED <<incoming, recvDone, blackboard, awaitHandle, written>>


\* Mutant: the parked transfer's handle is returned without writing its data.
AwaitPushSkipsWrite(c) ==
    LET n == Dst(c) IN
    /\ awaitHandle[c] = "none"
    /\ IF blackboard[n][c] # "absent"
          THEN /\ blackboard' = [blackboard EXCEPT ![n][c] = "absent"]
               /\ awaitHandle' = [awaitHandle EXCEPT ![c] = "complete"]
          ELSE /\ blackboard' = [blackboard EXCEPT ![n][c] = "waiter"]
               /\ awaitHandle' = [awaitHandle EXCEPT ![c] = "pending"]
    /\ UNCHANGED <<chan, sendReq, eager, outgoing, incoming, recvDone,
                   pushHandle, written>>

\* Mutant: await_push always stores a fresh waiter, as if the data could
\* only arrive after it.
AwaitPushIgnoresParked(c) ==
    /\ awaitHandle[c] = "none"
    /\ blackboard' = [blackboard EXCEPT ![Dst(c)][c] = "waiter"]
    /\ awaitHandle' = [awaitHandle EXCEPT ![c] = "pending"]
    /\ UNCHANGED <<chan, sendReq, eager, outgoing, incoming, recvDone,
                   pushHandle, written>>

(* await_push(pkg): if the blackboard already holds the received push,     *)
(* take it out and write it into the buffer, returning its (complete)      *)
(* handle; otherwise store a fresh handle for poll() to complete.          *)
AwaitPush(c) ==
    LET n == Dst(c) IN
    /\ awaitHandle[c] = "none"
    /\ IF blackboard[n][c] # "absent"
          THEN /\ blackboard' = [blackboard EXCEPT ![n][c] = "absent"]
               /\ written' = [written EXCEPT ![c] = @ + 1]
               /\ awaitHandle' = [awaitHandle EXCEPT ![c] = "complete"]
          ELSE /\ blackboard' = [blackboard EXCEPT ![n][c] = "waiter"]
               /\ awaitHandle' = [awaitHandle EXCEPT ![c] = "pending"]
               /\ UNCHANGED written
    /\ UNCHANGED <<chan, sendReq, eager, outgoing, incoming, recvDone,
                   pushHandle>>

(* poll() = poll_transfers(); update_incoming_transfers();                 *)
(* update_outgoing_transfers(), run by the executor loop of node n.        *)
(* s is the sender whose oldest message MPI_Improbe matches, or NoSender   *)
(* when the probe reports no message; imm says whether the MPI_Imrecv      *)
(* posted for it has already completed when MPI_Test looks at it.          *)
\* Mutant: the matched message is never pushed onto incoming_transfers.
ProbedNotQueued(n, s) == <<>>

Probed(n, s) == IF s = NoSender THEN <<>> ELSE <<Head(chan[s][n])>>

\* update_incoming_transfers: every transfer whose receive has completed
\* either completes the waiter stored for its push cid, writing the data
\* into the buffer, or is parked in the blackboard with a complete handle.
IncomingDone(inc, rd) == {x \in Range(inc) : x \in rd}
\* Mutant: every received transfer is taken for a met waiter.
MeetsWaiterAlways(n, x) == TRUE

MeetsWaiter(n, x) == blackboard[n][x] # "absent"

\* Mutant: a met waiter is not erased from the blackboard.
UpdateIncomingBlackboardKeepsWaiter(n, done) ==
    [x \in Cids |-> IF x \in done /\ ~MeetsWaiter(n, x) THEN "parked"
                                                      ELSE blackboard[n][x]]

UpdateIncomingBlackboard(n, done) ==
    [x \in Cids |-> IF x \in done
                       THEN IF MeetsWaiter(n, x) THEN "absent" ELSE "parked"
                       ELSE blackboard[n][x]]

\* update_outgoing_transfers: the handle of every send that has completed
\* becomes complete and the transfer is erased.
OutgoingDone(n) == {x \in Range(outgoing[n]) : sendReq[x] = "complete"}

Poll(n, s, imm) ==
    LET inc  == incoming[n] \o Probed(n, s)
        rd   == IF imm THEN recvDone \cup Range(Probed(n, s)) ELSE recvDone
        done == IncomingDone(inc, rd)
        met  == {x \in done : MeetsWaiter(n, x)}
        sent == OutgoingDone(n)
    IN
    /\ s # NoSender => chan[s][n] # <<>>
    /\ imm => s # NoSender
    /\ chan' = IF s = NoSender THEN chan
                               ELSE [chan EXCEPT ![s][n] = Tail(@)]
    /\ recvDone' = rd
    /\ incoming' = [incoming EXCEPT ![n] = SelectSeq(inc, LAMBDA x : x \notin done)]
    /\ blackboard' = [blackboard EXCEPT ![n] = UpdateIncomingBlackboard(n, done)]
    /\ written' = [x \in Cids |-> IF x \in met THEN written[x] + 1 ELSE written[x]]
    /\ awaitHandle' = [x \in Cids |-> IF x \in met THEN "complete" ELSE awaitHandle[x]]
    /\ outgoing' = [outgoing EXCEPT ![n] = SelectSeq(@, LAMBDA x : x \notin sent)]
    /\ pushHandle' = [x \in Cids |-> IF x \in sent THEN "complete" ELSE pushHandle[x]]
    /\ UNCHANGED <<sendReq, eager>>

-----------------------------------------------------------------------------
(* The MPI layer.                                                          *)

\* A posted MPI_Imrecv completes.
MpiRecvComplete(c) ==
    /\ c \in Range(incoming[Dst(c)]) \ recvDone
    /\ recvDone' = recvDone \cup {c}
    /\ UNCHANGED <<chan, sendReq, eager, outgoing, incoming, blackboard,
                   pushHandle, awaitHandle, written>>

\* An MPI_Isend completes: an eager send at any time, a rendezvous send once
\* the matching receive has completed.
MpiSendComplete(c) ==
    /\ sendReq[c] = "pending"
    /\ eager[c] \/ c \in recvDone
    /\ sendReq' = [sendReq EXCEPT ![c] = "complete"]
    /\ UNCHANGED <<chan, eager, outgoing, incoming, recvDone, blackboard,
                   pushHandle, awaitHandle, written>>

Next ==
    \/ \E c \in Cids : Push(c) \/ AwaitPush(c) \/ MpiRecvComplete(c)
                       \/ MpiSendComplete(c)
    \/ \E n \in Nodes, s \in Nodes \cup {NoSender}, imm \in BOOLEAN :
          Poll(n, s, imm)

(* Every node's executor loop polls its transfer manager on every pass     *)
(* until it is done, and it only stops once no job is left; MPI guarantees *)
(* progress: a pending message is eventually matched by a probe, and a     *)
(* posted receive or send eventually completes.  The push and await-push   *)
(* commands are delivered by the dispatcher (modelled in Executor).        *)
Fairness ==
    /\ \A c \in Cids : /\ WF_vars(Push(c)) /\ WF_vars(AwaitPush(c))
                       /\ WF_vars(MpiRecvComplete(c))
                       /\ WF_vars(MpiSendComplete(c))
    /\ \A n \in Nodes :
          /\ WF_vars(\E s \in Nodes, imm \in BOOLEAN : Poll(n, s, imm))
          /\ WF_vars(Poll(n, NoSender, FALSE))

Spec == Init /\ [][Next]_vars /\ Fairness

-----------------------------------------------------------------------------
TypeOK ==
    /\ chan \in [Nodes -> [Nodes -> Seq(Cids)]]
    /\ sendReq \in [Cids -> HandleStates]
    /\ eager \in [Cids -> BOOLEAN]
    /\ outgoing \in [Nodes -> Seq(Cids)]
    /\ incoming \in [Nodes -> Seq(Cids)]
    /\ recvDone \subseteq Cids
    /\ blackboard \in [Nodes -> [Cids -> Entries]]
    /\ pushHandle \in [Cids -> HandleStates]
    /\ awaitHandle \in [Cids -> HandleStates]
    /\ written \in [Cids -> 0 .. 1]
    /\ \A n \in Nodes : IsInjective(outgoing[n]) /\ IsInjective(incoming[n])

\* The data of push c has been received and taken out of incoming_transfers.
Received(c) == c \in recvDone /\ c \notin Range(incoming[Dst(c)])

(* The await-push job treats a complete handle as "the data is in the      *)
(* buffer" and then lets the kernel run: whichever of await_push and       *)
(* update_incoming_transfers came first, a complete await handle means the *)
(* pushed data was written into the receiver's buffer exactly once.        *)
AwaitCompleteMeansWritten ==
    \A c \in Cids : awaitHandle[c] = "complete" <=> written[c] = 1

(* The push_blackboard of the receiver is exactly the set of half-met      *)
(* rendezvous: a waiter for each await_push whose data has not arrived, a  *)
(* parked transfer for each received push nobody awaits yet, and nothing   *)
(* once both sides have met.                                               *)
BlackboardMatchesRendezvous ==
    \A c \in Cids :
        /\ blackboard[Dst(c)][c] = "waiter" <=>
              awaitHandle[c] # "none" /\ ~Received(c)
        /\ blackboard[Dst(c)][c] = "parked" <=>
              awaitHandle[c] = "none" /\ Received(c)
        /\ \A n \in Nodes \ {Dst(c)} : blackboard[n][c] = "absent"

\* The refinement mapping: push() and await_push() calls post the two sides,
\* write_data_to_buffer delivers.
Abstract == INSTANCE Rendezvous WITH
    posted    <- {c \in Cids : pushHandle[c] # "none"},
    awaited   <- {c \in Cids : awaitHandle[c] # "none"},
    delivered <- {c \in Cids : written[c] > 0}

(* The transfer manager implements the rendezvous: every push, await_push  *)
(* and poll step either posts one side, delivers one push whose two sides  *)
(* are both posted, or changes nothing the abstraction sees; in particular *)
(* no data is written for a push nobody awaits and none is written twice.  *)
ImplementsRendezvous == Abstract!SafetySpec

(* Every push and every await-push posted eventually completes, whichever  *)
(* arrives first, and the transfer manager is left with no outstanding     *)
(* transfer and an empty blackboard.                                       *)
AllTransfersComplete ==
    <>(/\ \A c \in Cids : pushHandle[c] = "complete" /\ awaitHandle[c] = "complete"
       /\ \A n \in Nodes : outgoing[n] = <<>> /\ incoming[n] = <<>>
       /\ \A n \in Nodes, c \in Cids : blackboard[n][c] = "absent")

=============================================================================
