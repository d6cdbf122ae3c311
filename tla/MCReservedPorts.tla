-------------------------- MODULE MCReservedPorts --------------------------
(***************************************************************************)
(* Two tasks on a pool of a few ports, one or two of which other processes *)
(* of the host bind and release at will.  The last port is usable in one   *)
(* configuration and the walk runs off the end of the range in all.        *)
(***************************************************************************)
EXTENDS ReservedPorts

CONSTANTS c1, c2

MCCallers == {c1, c2}
MCHostPorts == {1, 3}
=============================================================================
