------------------------- MODULE MC_TransportManager -------------------------
(* Two addresses and three transports: one address can be re-registered    *)
(* while the other holds a transport of its own.                            *)
EXTENDS TransportManager

CONSTANTS a1, a2, t1, t2, t3

MC_Addrs == {a1, a2}
MC_Trans == {t1, t2, t3}

\* Two transports, for the runs about the channel
MC_Trans2 == {t1, t2}

=============================================================================
