------------------------------- MODULE Ledger -------------------------------
(***************************************************************************)
(* The transaction pipeline and the ledger commit of a concilium network.  *)
(*                                                                         *)
(* A client submits a transaction at an entry node (the JSON-RPC handler   *)
(* send_raw_transaction).  If the leader is a peer, the entry node queues  *)
(* it on its leader stream to that peer, whose stream task serves one      *)
(* request at a time; if the entry node is the leader it does the leader   *)
(* work inline.  Leader work: check the UTXOs, collect a signature from    *)
(* every council member (each re-checks against its own UTXO set), run    *)
(* the broadcast round, commit with put_success_transaction_on_db, and    *)
(* spawn a save request to every other node.  A save stream task commits  *)
(* what it receives without any check.                                     *)
(*                                                                         *)
(* put_success_transaction_on_db reads last_transaction_id, writes the     *)
(* record, the index entry and the counter (three synchronous RocksDB      *)
(* calls, run on any worker thread of the multi-threaded runtime), then    *)
(* takes the UTXO and chain-state write locks and applies the transaction. *)
(* A restart replays the index 1..last_transaction_id (load_transactions), *)
(* or, when the genesis marker is missing, loads the genesis list again.   *)
(*                                                                         *)
(* Values are small naturals instead of f32; signatures always verify.     *)
(***************************************************************************)
EXTENDS Integers, Sequences, FiniteSets, SequencesExt, Functions

CONSTANTS
    Node,           \* the nodes, all connected to each other
    Account,        \* public keys
    Mint,           \* the [0; 32] key genesis transactions come from
    Txn,            \* txids, genesis ones included
    Genesis,        \* the genesis list, a sequence of txids
    From,           \* [Txn -> Account]
    Vin,            \* [Txn -> Seq(outpoints)]: the vin vector, in order
    Vout,           \* [Txn -> Seq([pk : Account, value : Int])]
    Leader,         \* [Txn -> Node]: get_leader in the transaction's epoch
    Council,        \* [Txn -> SUBSET Node]: get_accreditation_council_node
    Bcast,          \* [Txn -> SUBSET Node]: get_broadcast_node
    Submissions,    \* set of <<txid, entry node>>: the requests clients send
    RestartPhases,  \* phases in which a node may be restarted
    MaxRestarts     \* bound on restarts in a behaviour

Outs(t) == {<<t, i>> : i \in DOMAIN Vout[t]}
Owner(o) == Vout[o[1]][o[2]].pk
Val(o) == Vout[o[1]][o[2]].value
SumOf(os) == MapThenSumSet(Val, os)
Inputs(t) == Range(Vin[t])

ASSUME /\ Len(Genesis) > 0
       /\ \A s \in Submissions : s[1] \notin Range(Genesis)
       /\ \A t \in Txn : Leader[t] \notin Council[t] \cup Bcast[t]

VARIABLES
    utxos,      \* utxos[n]: the outpoints in node n's UTXO set
    balances,   \* balances[n][a]: chain_state balances of node n
    db,         \* db[n]: [last |-> last_transaction_id, index |-> the
                \*         transaction.id.{i} entries, marker |-> genesis done]
    phase,      \* phase[n]: "genesis" while loading, then "serving"
    gpos,       \* genesis entries node n has loaded since it started
    restarts,   \* restarts[n]: times node n was restarted
    applied,    \* history: the transactions node n's memory has applied
    pc,         \* pc[s]: where the leader work for submission s is
    signed,     \* signed[s]: council members that signed s
    rd,         \* rd[s]: last_transaction_id as read by s's commit
    lq,         \* lq[<<e, l>>]: requests queued on e's leader stream to l
    spawned,    \* save tasks spawned and not yet sent: <<leader, node, txid>>
    sq,         \* sq[<<l, n>>]: requests queued on l's save stream to n
    sv,         \* sv[<<l, n>>]: the save task serving that stream
    lost,       \* lost[s]: council members whose answer to s will never come
    stale       \* <<x, y>>: x's transaction client to y has dead streams

vars == <<utxos, balances, db, phase, gpos, restarts, applied,
          pc, signed, rd, lq, spawned, sq, sv, lost, stale>>

Pair == {p \in Node \X Node : p[1] # p[2]}
Working == {"council", "bcast", "put", "apply"}
Tx(s) == s[1]
Lead(s) == Leader[s[1]]
Stream(s) == <<s[2], Lead(s)>>
Forwarded(s) == s[2] # Lead(s)

(* validate_utxo_exist_and_values: every entry of vin is an unspent output *)
(* owned by the sender, and the values of the entries, each looked up     *)
(* once per entry, add up to the outputs.  Nothing checks that the         *)
(* entries are distinct or that an output value is positive.              *)
ValidTx(vin, from, vout, U) ==
    /\ Range(vin) \subseteq U
    /\ \A o \in Range(vin) : Owner(o) = from
    /\ FoldLeft(LAMBDA acc, o : acc + Val(o), 0, vin)
         = FoldLeft(LAMBDA acc, v : acc + v.value, 0, vout)

Valid(t, U) == ValidTx(Vin[t], From[t], Vout[t], U)

(* The UTXO and balance updates of put_success_transaction_on_db: remove   *)
(* the inputs, insert the outputs and credit their keys, debit the sender  *)
(* by the sum of the outputs.                                              *)
SpendKeepInputs(U, t) == U \cup Outs(t)   \* fault: inputs not removed
Spend(U, t) == (U \ Inputs(t)) \cup Outs(t)
Credit(B, t) ==
    [a \in Account |-> B[a] + SumOf({o \in Outs(t) : Owner(o) = a})
                            - (IF a = From[t] THEN SumOf(Outs(t)) ELSE 0)]

(* The three puts: transaction.id.{k+1} and last_transaction_id = k+1,     *)
(* where k is the counter read before them.                                *)
PutCounterTwice(d, t, k) ==   \* fault: counter advanced by two
    [d EXCEPT !.index = IF k < Len(@) THEN [@ EXCEPT ![k + 1] = t]
                                      ELSE Append(@, t),
              !.last = k + 2]
Put(d, t, k) ==
    [d EXCEPT !.index = IF k < Len(@) THEN [@ EXCEPT ![k + 1] = t]
                                      ELSE Append(@, t),
              !.last = k + 1]

Apply(n, t) ==
    /\ utxos' = [utxos EXCEPT ![n] = Spend(@, t)]
    /\ balances' = [balances EXCEPT ![n] = Credit(@, t)]
    /\ applied' = [applied EXCEPT ![n] = Append(@, t)]

Zero == [a \in Account |-> 0]

ReplayExclusive(d) ==   \* fault: 1..last_transaction_id instead of 1..=
    FoldLeft(LAMBDA m, t : <<Spend(m[1], t), Credit(m[2], t)>>,
             <<{}, Zero>>, SubSeq(d.index, 1, d.last - 1))

(* load_transactions: replay transaction.id.1 ..= last_transaction_id.     *)
Replay(d) ==
    FoldLeft(LAMBDA m, t : <<Spend(m[1], t), Credit(m[2], t)>>,
             <<{}, Zero>>, SubSeq(d.index, 1, d.last))

Init ==
    /\ utxos = [n \in Node |-> {}]
    /\ balances = [n \in Node |-> Zero]
    /\ db = [n \in Node |-> [last |-> 0, index |-> <<>>, marker |-> FALSE]]
    /\ phase = [n \in Node |-> "genesis"]
    /\ gpos = [n \in Node |-> 0]
    /\ restarts = [n \in Node |-> 0]
    /\ applied = [n \in Node |-> <<>>]
    /\ pc = [s \in Submissions |-> "new"]
    /\ signed = [s \in Submissions |-> {}]
    /\ rd = [s \in Submissions |-> 0]
    /\ lq = [p \in Pair |-> <<>>]
    /\ spawned = {}
    /\ sq = [p \in Pair |-> <<>>]
    /\ sv = [p \in Pair |-> [pc |-> "idle", t |-> CHOOSE t \in Txn : TRUE, k |-> 0]]
    /\ lost = [s \in Submissions |-> {}]
    /\ stale = {}

(* load_genesis_transactions, one iteration: the three puts, then the    *)
(* output inserted and the key's balance set (not added) to its value.     *)
GenesisStep(n) ==
    /\ phase[n] = "genesis"
    /\ gpos[n] < Len(Genesis)
    /\ LET g == Genesis[gpos[n] + 1]
           o == <<g, 1>>
       IN /\ db' = [db EXCEPT ![n] = Put(@, g, @.last)]
          /\ utxos' = [utxos EXCEPT ![n] = @ \cup {o}]
          /\ balances' = [balances EXCEPT ![n][Owner(o)] = Val(o)]
          /\ applied' = [applied EXCEPT ![n] = Append(@, g)]
    /\ gpos' = [gpos EXCEPT ![n] = @ + 1]
    /\ UNCHANGED <<phase, restarts, pc, signed, rd, lq, spawned, sq, sv, lost, stale>>

(* The included_genesis_transactions marker, written after the loop; the   *)
(* node then connects and starts its servers.                              *)
GenesisDone(n) ==
    /\ phase[n] = "genesis"
    /\ gpos[n] = Len(Genesis)
    /\ db' = [db EXCEPT ![n].marker = TRUE]
    /\ phase' = [phase EXCEPT ![n] = "serving"]
    /\ UNCHANGED <<utxos, balances, gpos, restarts, applied, pc, signed, rd,
                   lq, spawned, sq, sv, lost, stale>>

(* The leader's UTXO check, the first step of the leader work.            *)
Check(s, L) ==
    pc' = [pc EXCEPT ![s] = IF Valid(Tx(s), utxos[L]) THEN "council" ELSE "failed"]

(* send_raw_transaction when the leader is a peer: leader_request on the  *)
(* entry node's client to it.  Over a live stream the request is queued.  *)
(* Over a stale client the send either fails and the caller gets an      *)
(* error, or lands in a channel nobody reads and the caller waits forever *)
(* (RequestMux).                                                          *)
Forward(s) ==
    /\ pc[s] = "new"
    /\ Forwarded(s)
    /\ phase[s[2]] = "serving"
    /\ \/ /\ Stream(s) \notin stale
          /\ lq' = [lq EXCEPT ![Stream(s)] = Append(@, s)]
          /\ pc' = [pc EXCEPT ![s] = "queued"]
       \/ /\ Stream(s) \in stale
          /\ pc' = [pc EXCEPT ![s] = "failed"]
          /\ UNCHANGED lq
       \/ /\ Stream(s) \in stale
          /\ pc' = [pc EXCEPT ![s] = "hung"]
          /\ UNCHANGED lq
    /\ UNCHANGED <<utxos, balances, db, phase, gpos, restarts, applied,
                   signed, rd, spawned, sq, sv, lost, stale>>

(* send_raw_transaction when get_leader finds no peer: leader work inline *)
(* in the JSON-RPC task, concurrently with every other task of the node.  *)
Inline(s) ==
    /\ pc[s] = "new"
    /\ ~Forwarded(s)
    /\ phase[s[2]] = "serving"
    /\ Check(s, s[2])
    /\ UNCHANGED <<utxos, balances, db, phase, gpos, restarts, applied,
                   signed, rd, lq, spawned, sq, sv, lost, stale>>

TakeUnserialized(p) ==   \* fault: one task per request on the stream
    /\ lq[p] # <<>>
    /\ phase[p[2]] = "serving"
    /\ lq' = [lq EXCEPT ![p] = Tail(@)]
    /\ Check(Head(lq[p]), p[2])
    /\ UNCHANGED <<utxos, balances, db, phase, gpos, restarts, applied,
                   signed, rd, spawned, sq, sv, lost, stale>>

(* The leader stream task of the leader takes the next request once it    *)
(* has finished the previous one.                                          *)
Take(p) ==
    /\ lq[p] # <<>>
    /\ phase[p[2]] = "serving"
    /\ ~\E s \in Submissions : Forwarded(s) /\ Stream(s) = p /\ pc[s] \in Working
    /\ lq' = [lq EXCEPT ![p] = Tail(@)]
    /\ Check(Head(lq[p]), p[2])
    /\ UNCHANGED <<utxos, balances, db, phase, gpos, restarts, applied,
                   signed, rd, spawned, sq, sv, lost, stale>>

(* accreditation_council on member m: the same UTXO check against m's own *)
(* set; a refusal makes the leader answer status false.  Only a member   *)
(* the leader still reaches answers.                                      *)
CouncilSign(s, m) ==
    /\ pc[s] = "council"
    /\ m \in Council[Tx(s)] \ (signed[s] \cup lost[s])
    /\ <<Lead(s), m>> \notin stale
    /\ phase[m] = "serving"
    /\ \/ /\ Valid(Tx(s), utxos[m])
          /\ signed' = [signed EXCEPT ![s] = @ \cup {m}]
          /\ UNCHANGED pc
       \/ /\ ~Valid(Tx(s), utxos[m])
          /\ pc' = [pc EXCEPT ![s] = "failed"]
          /\ UNCHANGED signed
    /\ UNCHANGED <<utxos, balances, db, phase, gpos, restarts, applied,
                   rd, lq, spawned, sq, sv, lost, stale>>

(* accreditation_council_request to a member over a stale client: the    *)
(* send fails, the task yields status false and the loop answers the     *)
(* request failed; or the request is swallowed and that task of the      *)
(* JoinSet never completes.                                               *)
CouncilStale(s, m) ==
    /\ pc[s] = "council"
    /\ m \in Council[Tx(s)] \ (signed[s] \cup lost[s])
    /\ <<Lead(s), m>> \in stale
    /\ \/ /\ pc' = [pc EXCEPT ![s] = "failed"]
          /\ UNCHANGED lost
       \/ /\ lost' = [lost EXCEPT ![s] = @ \cup {m}]
          /\ UNCHANGED pc
    /\ UNCHANGED <<utxos, balances, db, phase, gpos, restarts, applied,
                   signed, rd, lq, spawned, sq, sv, stale>>

(* Every member signed: the broadcast round (its peers sign without any   *)
(* check), then put_success_transaction_on_db reads last_transaction_id.  *)
Broadcast(s) ==
    /\ pc[s] = "council"
    /\ signed[s] = Council[Tx(s)]
    /\ \A b \in Bcast[Tx(s)] : <<Lead(s), b>> \notin stale
    /\ rd' = [rd EXCEPT ![s] = db[Lead(s)].last]
    /\ pc' = [pc EXCEPT ![s] = "put"]
    /\ UNCHANGED <<utxos, balances, db, phase, gpos, restarts, applied,
                   signed, lq, spawned, sq, sv, lost, stale>>

(* A broadcast peer reached over a stale client: its failed send makes    *)
(* the round answer failed, or its swallowed request leaves the round    *)
(* ("bcast") waiting in join_next for good.                               *)
BroadcastStale(s) ==
    /\ pc[s] = "council"
    /\ signed[s] = Council[Tx(s)]
    /\ \E b \in Bcast[Tx(s)] : <<Lead(s), b>> \in stale
    /\ \/ pc' = [pc EXCEPT ![s] = "failed"]
       \/ pc' = [pc EXCEPT ![s] = "bcast"]
    /\ UNCHANGED <<utxos, balances, db, phase, gpos, restarts, applied,
                   signed, rd, lq, spawned, sq, sv, lost, stale>>

LeaderPut(s) ==
    /\ pc[s] = "put"
    /\ db' = [db EXCEPT ![Lead(s)] = Put(@, Tx(s), rd[s])]
    /\ pc' = [pc EXCEPT ![s] = "apply"]
    /\ UNCHANGED <<utxos, balances, phase, gpos, restarts, applied,
                   signed, rd, lq, spawned, sq, sv, lost, stale>>

(* The locked UTXO and chain-state update, then one spawned save request  *)
(* per node of the registry, then the answer.                             *)
LeaderApplySkipEntry(s) ==   \* fault: no save to the entry node
    /\ pc[s] = "apply"
    /\ Apply(Lead(s), Tx(s))
    /\ spawned' = spawned \cup {<<Lead(s), n, Tx(s)>> : n \in Node \ {Lead(s), s[2]}}
    /\ pc' = [pc EXCEPT ![s] = "done"]
    /\ UNCHANGED <<db, phase, gpos, restarts, signed, rd, lq, sq, sv, lost, stale>>

LeaderApply(s) ==
    /\ pc[s] = "apply"
    /\ Apply(Lead(s), Tx(s))
    /\ spawned' = spawned \cup {<<Lead(s), n, Tx(s)>> : n \in Node \ {Lead(s)}}
    /\ pc' = [pc EXCEPT ![s] = "done"]
    /\ UNCHANGED <<db, phase, gpos, restarts, signed, rd, lq, sq, sv, lost, stale>>

(* A spawned save task puts its request on the save stream; spawned tasks *)
(* run in any order.  Over a stale client the request is lost and the    *)
(* error ignored (save_request(...).await.ok()).                          *)
SaveSend(x) ==
    /\ x \in spawned
    /\ spawned' = spawned \ {x}
    /\ sq' = IF <<x[1], x[2]>> \in stale THEN sq
             ELSE [sq EXCEPT ![<<x[1], x[2]>>] = Append(@, x[3])]
    /\ UNCHANGED <<utxos, balances, db, phase, gpos, restarts, applied,
                   pc, signed, rd, lq, sv, lost, stale>>

(* save on node p[2]: take the next request and read last_transaction_id. *)
SaveRead(p) ==
    /\ sv[p].pc = "idle"
    /\ sq[p] # <<>>
    /\ phase[p[2]] = "serving"
    /\ sv' = [sv EXCEPT ![p] = [pc |-> "put", t |-> Head(sq[p]), k |-> db[p[2]].last]]
    /\ sq' = [sq EXCEPT ![p] = Tail(@)]
    /\ UNCHANGED <<utxos, balances, db, phase, gpos, restarts, applied,
                   pc, signed, rd, lq, spawned, lost, stale>>

SavePut(p) ==
    /\ sv[p].pc = "put"
    /\ db' = [db EXCEPT ![p[2]] = Put(@, sv[p].t, sv[p].k)]
    /\ sv' = [sv EXCEPT ![p].pc = "apply"]
    /\ UNCHANGED <<utxos, balances, phase, gpos, restarts, applied,
                   pc, signed, rd, lq, spawned, sq, lost, stale>>

SaveApply(p) ==
    /\ sv[p].pc = "apply"
    /\ Apply(p[2], sv[p].t)
    /\ sv' = [sv EXCEPT ![p].pc = "idle"]
    /\ UNCHANGED <<db, phase, gpos, restarts, pc, signed, rd, lq, spawned, sq, lost, stale>>

(* A restart of node n: its tasks die with it and requests queued on the  *)
(* streams to it are lost.  Work it led inline dies with the JSON-RPC    *)
(* connection (an error to the client); an entry node waiting on it over *)
(* leader_request never hears back, since the client's receiver task    *)
(* ends without clearing the response map; a leader waiting on it for a  *)
(* council signature waits forever.  The new process replays its         *)
(* database (load_transactions) or, without the genesis marker, loads    *)
(* the genesis list again, and connects afresh; its peers still list it  *)
(* as active, so initial_connect keeps their old clients to it, whose     *)
(* streams are dead.                                                      *)
LeaderKilled(n, s) == Lead(s) = n /\ pc[s] \in Working \cup {"queued"}

CouncilCut(n, s) == pc[s] = "council" /\ n \in Council[Tx(s)] \ signed[s]

Restart(n) ==
    /\ SumFunction(restarts) < MaxRestarts
    /\ phase[n] \in RestartPhases
    /\ IF db[n].marker
         THEN /\ utxos' = [utxos EXCEPT ![n] = Replay(db[n])[1]]
              /\ balances' = [balances EXCEPT ![n] = Replay(db[n])[2]]
              /\ applied' = [applied EXCEPT ![n] = SubSeq(db[n].index, 1, db[n].last)]
              /\ phase' = [phase EXCEPT ![n] = "serving"]
              /\ UNCHANGED gpos
         ELSE /\ utxos' = [utxos EXCEPT ![n] = {}]
              /\ balances' = [balances EXCEPT ![n] = Zero]
              /\ applied' = [applied EXCEPT ![n] = <<>>]
              /\ phase' = [phase EXCEPT ![n] = "genesis"]
              /\ gpos' = [gpos EXCEPT ![n] = 0]
    /\ restarts' = [restarts EXCEPT ![n] = @ + 1]
    /\ pc' = [s \in Submissions |->
                IF LeaderKilled(n, s) THEN IF Forwarded(s) THEN "hung" ELSE "failed"
                ELSE pc[s]]
    /\ lost' = [s \in Submissions |->
                  IF CouncilCut(n, s) THEN lost[s] \cup {n} ELSE lost[s]]
    /\ stale' = {p \in stale : p[1] # n} \cup {<<x, n>> : x \in Node \ {n}}
    /\ lq' = [p \in Pair |-> IF p[2] = n THEN <<>> ELSE lq[p]]
    /\ spawned' = {x \in spawned : n \notin {x[1], x[2]}}
    /\ sq' = [p \in Pair |-> IF n \in {p[1], p[2]} THEN <<>> ELSE sq[p]]
    /\ sv' = [p \in Pair |-> IF p[2] = n THEN [sv[p] EXCEPT !.pc = "idle"] ELSE sv[p]]
    /\ UNCHANGED <<db, signed, rd>>

Next ==
    \/ \E n \in Node : GenesisStep(n) \/ GenesisDone(n) \/ Restart(n)
    \/ \E s \in Submissions :
          \/ Forward(s) \/ Inline(s) \/ Broadcast(s) \/ BroadcastStale(s)
          \/ LeaderPut(s) \/ LeaderApply(s)
          \/ \E m \in Node : CouncilSign(s, m) \/ CouncilStale(s, m)
    \/ \E p \in Pair : Take(p) \/ SaveRead(p) \/ SavePut(p) \/ SaveApply(p)
    \/ \E x \in spawned : SaveSend(x)

(* Every task of the Tokio runtime that can run eventually runs.  Clients *)
(* are not obliged to submit, and restarts are not obliged to happen.     *)
Fairness ==
    /\ \A n \in Node : WF_vars(GenesisStep(n)) /\ WF_vars(GenesisDone(n))
    /\ \A s \in Submissions :
          /\ WF_vars(Broadcast(s)) /\ WF_vars(BroadcastStale(s))
          /\ WF_vars(LeaderPut(s)) /\ WF_vars(LeaderApply(s))
          /\ \A m \in Node : WF_vars(CouncilSign(s, m)) /\ WF_vars(CouncilStale(s, m))
    /\ \A p \in Pair :
          WF_vars(Take(p)) /\ WF_vars(SaveRead(p)) /\ WF_vars(SavePut(p)) /\ WF_vars(SaveApply(p))
    /\ \A x \in Node \X Node \X Txn : WF_vars(SaveSend(x))

Spec == Init /\ [][Next]_vars /\ Fairness

-----------------------------------------------------------------------------
Outpoint == UNION {Outs(t) : t \in Txn}

TypeOK ==
    /\ utxos \in [Node -> SUBSET Outpoint]
    /\ balances \in [Node -> [Account -> Int]]
    /\ \A n \in Node : db[n].last <= Len(db[n].index) /\ db[n].index \in Seq(Txn)
    /\ phase \in [Node -> {"genesis", "serving"}]
    /\ pc \in [Submissions -> {"new", "queued", "failed", "done", "hung"} \cup Working]
    /\ \A s \in Submissions : signed[s] \cup lost[s] \subseteq Council[Tx(s)]
    /\ stale \subseteq Pair
    /\ spawned \subseteq Node \X Node \X Txn
    /\ \A p \in Pair : sv[p].pc \in {"idle", "put", "apply"} /\ sq[p] \in Seq(Txn)

(* No outpoint is spent twice: the transactions a node has applied since  *)
(* it started have pairwise disjoint inputs.  The UTXO check of the       *)
(* leader and of each council member happens long before the commit, so   *)
(* this holds only if nothing else can commit a conflicting transaction   *)
(* on those nodes in between.                                             *)
NoDoubleSpend ==
    \A n \in Node : \A i, j \in DOMAIN applied[n] :
        i # j => Inputs(applied[n][i]) \cap Inputs(applied[n][j]) = {}

(* The chain-state balance of every key (the genesis key aside) is the    *)
(* value of the UTXOs it owns in the same node's set.  Breaks when a node *)
(* commits a spend of an outpoint it does not hold: a double spend, a     *)
(* save applied before the save of the transaction it spends, a replay.   *)
BalancesMatchUtxos ==
    \A n \in Node : \A a \in Account \ {Mint} :
        balances[n][a] = SumOf({o \in utxos[n] : Owner(o) = a})

(* A node whose commits have all reached memory would rebuild the same    *)
(* UTXO set from its database after a restart: load_transactions over     *)
(* transaction.id.1 .. last_transaction_id gives what the node holds.     *)
Settled(n) ==
    /\ db[n].marker
    /\ ~\E s \in Submissions : Lead(s) = n /\ pc[s] = "apply"
    /\ ~\E p \in Pair : p[2] = n /\ sv[p].pc = "apply"

ReplayMatches ==
    \A n \in Node : Settled(n) => Replay(db[n])[1] = utxos[n]

(* A transaction its leader committed and answered for reaches the memory *)
(* of every node through the save fan-out, unless that node or the       *)
(* leader restarts.                                                       *)
SavesReachAll ==
    \A t \in Txn \ Range(Genesis), n \in Node :
        (\E s \in Submissions : Tx(s) = t /\ pc[s] = "done")
            ~> (t \in Range(applied[n]) \/ restarts[n] > 0 \/ restarts[Leader[t]] > 0)

(* No value is created or destroyed: once a node serves, its UTXO set is   *)
(* worth exactly the genesis supply, through commits, save fan-out,       *)
(* restarts and replays.  validate_utxo_exist_and_values is what keeps it  *)
(* so: a committed transaction's outputs add up to the values its vin     *)
(* entries name.                                                          *)
GenesisSupply == SumOf({<<g, 1>> : g \in Range(Genesis)})

ValueConserved ==
    \A n \in Node : phase[n] = "serving" => SumOf(utxos[n]) = GenesisSupply

(* A request that reached its leader is answered, committed or refused,   *)
(* unless its entry node or its leader restarts: spec 5 has a closing     *)
(* peer stream cancel the completions pending on it, and spec 7 lets a     *)
(* transport error degrade one member of a fanout, not the request.  In   *)
(* the code the leader's council loop (join_next) and the leader stream    *)
(* task behind it wait on whatever the response map never resolves.       *)
RequestAnswered ==
    \A s \in Submissions :
        pc[s] \in Working \cup {"queued"}
            ~> (pc[s] \in {"done", "failed"} \/ restarts[s[2]] > 0 \/ restarts[Lead(s)] > 0)
====
