----------------------------- MODULE Rendezvous -----------------------------
(***************************************************************************)
(* What the buffer transfer manager promises (spec.md 4.7): a push and the *)
(* await-push with the same push cid rendezvous, in either order, and the  *)
(* pushed data is delivered into the receiver's buffer once both sides     *)
(* have been posted, exactly once.                                         *)
(***************************************************************************)
CONSTANT Cids

VARIABLES
    posted,     \* pushes handed to the transfer manager
    awaited,    \* await-pushes handed to the transfer manager
    delivered   \* pushes whose data is in the receiver's buffer

vars == <<posted, awaited, delivered>>

Init == posted = {} /\ awaited = {} /\ delivered = {}

Post(c) ==
    /\ c \notin posted
    /\ posted' = posted \cup {c}
    /\ UNCHANGED <<awaited, delivered>>

\* An await-push may find its data already there and take it at once.
Await(c) ==
    /\ c \notin awaited
    /\ awaited' = awaited \cup {c}
    /\ delivered' \in {delivered, delivered \cup ({c} \cap posted)}
    /\ UNCHANGED posted

\* Any number of met pushes may be delivered together.
Deliver(S) ==
    /\ S # {}
    /\ S \subseteq (posted \cap awaited) \ delivered
    /\ delivered' = delivered \cup S
    /\ UNCHANGED <<posted, awaited>>

Next ==
    \/ \E c \in Cids : Post(c) \/ Await(c)
    \/ \E S \in SUBSET Cids : Deliver(S)

\* Safety only: every step of the implementation is one of these or stutters.
SafetySpec == Init /\ [][Next]_vars

Spec == SafetySpec /\ \A c \in Cids : WF_vars(Deliver({c}))
=============================================================================
