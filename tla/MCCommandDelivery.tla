------------------------- MODULE MCCommandDelivery -------------------------
(***************************************************************************)
(* Instances of CommandDelivery for TLC.                                   *)
(***************************************************************************)
EXTENDS CommandDelivery

CONSTANTS
    d1, a1, v1,
    MaxLoad    \* bound: commands dispatched and sockets connected, together

\* Two commands on one socket, or one command and two sockets.
WithinLoad == Len(order) + Cardinality({s \in Sockets : socket[s] # "none"}) <= MaxLoad
=============================================================================
