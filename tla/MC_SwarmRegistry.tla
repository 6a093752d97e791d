-------------------------- MODULE MC_SwarmRegistry --------------------------
(* Two DIDs and three transports: enough for two transports to the same    *)
(* DID to race (replace-and-close) while a third goes to the other DID.     *)
EXTENDS SwarmRegistry

CONSTANTS p1, p2, c1, c2, c3

MC_Peers == {p1, p2}
MC_Conns == {c1, c2, c3}


=============================================================================
