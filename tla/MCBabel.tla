------------------------------ MODULE MCBabel ------------------------------
(***************************************************************************)
(* A node without or with peers, syncing or not, at one of two blocks, the *)
(* last of which is u64::MAX: there the sum of ethereum_beacon.rs          *)
(* overflows, one block before it does not.                                *)
(***************************************************************************)
EXTENDS Babel

MCMaxBlock == 1
MCNodeStates ==
    {[peers |-> 0, syncing |-> TRUE, block |-> 1], [peers |-> 1, syncing |-> TRUE, block |-> 0],
     [peers |-> 0, syncing |-> FALSE, block |-> 0], [peers |-> 1, syncing |-> FALSE, block |-> 1]}
=============================================================================
