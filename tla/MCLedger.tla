------------------------------ MODULE MCLedger ------------------------------
(***************************************************************************)
(* Instances of Ledger for TLC.                                            *)
(*                                                                         *)
(* Two genesis outputs, g1 (2 to A) and g2 (1 to B), and four transfers:   *)
(*   t1: A spends g1, pays 2 to B                                          *)
(*   t2: A spends g1, pays 1 to A and 1 to B   (conflicts with t1)         *)
(*   t3: B spends t1's output, pays 2 to A      (depends on t1)            *)
(*   t4: B spends g2, pays 1 to A               (independent)              *)
(*   t5: A lists g1 twice in vin, pays 4 to A   (a crafted raw request)    *)
(* Node 1 leads every transfer, as get_leader does for transactions of one *)
(* epoch whose seed draws it; the others make up the council.              *)
(***************************************************************************)
EXTENDS WalletLedger, TLC

MCAccount == {"A", "B", "M"}
MCTxn == {"g1", "g2", "t1", "t2", "t3", "t4", "t5"}
MCGenesis == <<"g1", "g2">>
MCFrom == [t \in MCTxn |->
             CASE t \in {"g1", "g2"} -> "M"
               [] t \in {"t1", "t2", "t5"} -> "A"
               [] OTHER -> "B"]
MCVin == ("g1" :> <<>> @@ "g2" :> <<>> @@ "t1" :> <<<<"g1", 1>>>> @@
          "t2" :> <<<<"g1", 1>>>> @@ "t3" :> <<<<"t1", 1>>>> @@ "t4" :> <<<<"g2", 1>>>> @@
          "t5" :> <<<<"g1", 1>>, <<"g1", 1>>>>)
MCVout == ("g1" :> <<[pk |-> "A", value |-> 2]>> @@
           "g2" :> <<[pk |-> "B", value |-> 1]>> @@
           "t1" :> <<[pk |-> "B", value |-> 2]>> @@
           "t2" :> <<[pk |-> "A", value |-> 1], [pk |-> "B", value |-> 1]>> @@
           "t3" :> <<[pk |-> "A", value |-> 2]>> @@
           "t4" :> <<[pk |-> "A", value |-> 1]>> @@
           "t5" :> <<[pk |-> "A", value |-> 4]>>)
MCLeader == [t \in MCTxn |-> 1]

\* Three nodes, every other node in the council, node 2 the broadcast peer
\* (get_broadcast_node draws ceil(nnr / 10) = 1 peer); conflicting requests enter at node 2,
\* and t3, which spends t1, at the leader.
MCNode3 == {1, 2, 3}
MCCouncilAll == [t \in MCTxn |-> {2, 3}]
MCBcast3 == [t \in MCTxn |-> {2}]
MCSerial == {<<"t1", 2>>, <<"t2", 2>>, <<"t3", 1>>}

\* Two nodes; requests enter at node 2 and at the leader itself.
MCNode2 == {1, 2}
MCCouncil2 == [t \in MCTxn |-> {2}]
MCBcast2 == [t \in MCTxn |-> {2}]
MCConflict == {<<"t1", 2>>, <<"t2", 1>>}
MCIndependent == {<<"t1", 2>>, <<"t4", 1>>}
MCMint == {<<"t5", 2>>}

====
