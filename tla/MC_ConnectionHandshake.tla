----------------------- MODULE MC_ConnectionHandshake -----------------------
(* Three nodes and four connection ids: two handshakes and their answers,  *)
(* or, with two initiators, two crossing offers and both answers.           *)
EXTENDS ConnectionHandshake

CONSTANTS n1, n2, n3, c1, c2, c3, c4

MC_Nodes == {n1, n2, n3}
MC_Conns == {c1, c2, c3, c4}

\* Two nodes that both connect, on a network that duplicates
MC_Pair == {n1, n2}

=============================================================================
