---------------------------- MODULE MC_SnarkTasks ----------------------------
(* Two nodes that may each ask the other, two task ids that may collide   *)
(* across requests, and two statements.                                     *)
EXTENDS SnarkTasks

CONSTANTS v1, v2, i1, i2, s1, s2

MC_Nodes == {v1, v2}
MC_TaskIds == {i1, i2}
MC_Circuits == {s1, s2}

=============================================================================
