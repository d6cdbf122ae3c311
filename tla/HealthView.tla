----------------------------- MODULE HealthView -----------------------------
(***************************************************************************)
(* What babel promises those who ask it about a node: the published status *)
(* is put together from states the node was in since the observation that  *)
(* produced it began, and it never becomes unavailable again.  Peers,      *)
(* progress and block may stem from different moments of that observation. *)
(* Babel implements it.                                                    *)
(***************************************************************************)
EXTENDS Naturals

CONSTANTS MaxPeers, MaxBlock, NoStatus

VARIABLES node,  \* what the node would answer now
          seen,  \* the states of the node since the observation began
          view   \* the published status, or NoStatus

vars == <<node, seen, view>>

\* latest is 0 where the node names no latest block.
States == [peers : 0 .. MaxPeers, syncing : BOOLEAN, block : 0 .. MaxBlock, latest : 0 .. MaxBlock]

\* The peers of state a, the progress of state b, and the block of state c.
Report(a, b, c) ==
    [peers |-> a.peers, block |-> c.block, syncing |-> b.syncing, latest |-> b.latest,
     ready |-> a.peers > 0 /\ ~b.syncing, healthy |-> TRUE]

Init ==
    /\ node \in States
    /\ seen = {node}
    /\ view = NoStatus

Change ==
    /\ node' \in States
    /\ seen' = seen \cup {node'}
    /\ UNCHANGED view

Begin ==
    /\ seen' = {node}
    /\ UNCHANGED <<node, view>>

Publish ==
    /\ \E a, b, c \in seen : view' = Report(a, b, c)
    /\ UNCHANGED <<node, seen>>

Next == Change \/ Begin \/ Publish

Spec == Init /\ [][Next]_vars
=============================================================================
