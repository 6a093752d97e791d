--------------------------- MODULE MC_MessageRelay --------------------------
(* Model-checking instance of MessageRelay: three DIDs and paths of up to  *)
(* five nodes, so that a path can revisit a node (a, b, a, c, ...).         *)
EXTENDS MessageRelay

CONSTANTS n1, n2, n3

MC_Nodes == {n1, n2, n3}

=============================================================================
