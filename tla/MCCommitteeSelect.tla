------------------------- MODULE MCCommitteeSelect -------------------------
(* Four node ids, node 1 selecting.  temporary[e] is fixed to the identity: *)
(* the selection reads it only composed with a seed order (and temporary   *)
(* [e-1] composed with the from-key order), and as the orders range over   *)
(* all permutations every composition occurs with the identity as well.   *)
EXTENDS CommitteeSelect, TLC

MCNode == 1..4
MCActive == {2..4, {2, 4}}
\* every peer connected
MCActiveFull == {2..4}
MCCurMaps == {[i \in 1..4 |-> i]}
MCOrders == Permutations(1..4)
\* temporary[e-1] of the same cohort, or of the cohort before id 4 joined
MCPrevFull == Permutations(1..4)
MCPrevShort == Permutations(1..3)
=============================================================================
