------------------------------- MODULE MCJoin -------------------------------
(***************************************************************************)
(* Instances of Join for TLC: bootstrap nodes b1, b2 and joiners j1, j2.   *)
(***************************************************************************)
EXTENDS Join

MCNode1 == {"b1", "j1", "j2"}
MCBoot1 == <<"b1">>

MCNode2 == {"b1", "b2", "j1"}
MCBoot2 == <<"b1", "b2">>

(* Every id a node can hold in these instances is at most                *)
(* Cardinality(Node), 0 before one is assigned; IdRange, the TypeOK      *)
(* range, is 0..Cardinality(Node).                                        *)
====
