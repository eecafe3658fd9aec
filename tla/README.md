# TLA+ models of concilium

This directory holds TLA+ models of the concilium node (`src/`), the TLC
configurations that check them, and `PROJECT.json`, which records:
- which definition models which source lines;
- the runs and what each one checks;
- the fault variants used to confirm that each property can fail;
- the findings;
- the hazards of the code.

## The system

A concilium node is one Tokio process that runs three things side by side:
- gRPC services for other nodes (`src/rpc`);
- a JSON-RPC front end for clients (`src/jrpc`);
- the epoch beacon task `handling_epoch` (`src/apps/src/server.rs`).

The parts, and the state each one owns:

| Part | Source | State | Operations |
|------|--------|-------|------------|
| Epoch clock | `shared/src/epoch.rs` | wall clock | `current_epoch_number() = (t - 1231019100)/12 + 1` |
| Epoch beacon | `apps/src/server.rs` 288-488 | `EpochPool` (epoch -> last_node_id, final_hash, random_numbers, hashes), `TemporaryNodeIds` (epoch -> permutation) | stage 0 contribute, stage 1 vote, stage 2 decide, derive and evict |
| Epoch service | `rpc/src/epoch/server.rs` | the same `EpochPool` | `initial` (add a peer's number), `sync` (count a peer's vote) |
| Left-right maps | `core/src/epoch.rs`, `core/src/temporary_node_ids.rs` | an op log and two copies | insert / update / remove, publish |
| Deterministic RNG | `shared/src/chacha20.rs` | none | `generate_random_number_by_seed(hash, to, how_many)` |
| Committee selection | `transaction/src/lib.rs` 49-289 | reads the registry and the temporary maps | leader, accreditation council, broadcast nodes, nmac sizes |
| Transaction pipeline | `jrpc/src/send_raw_transaction.rs`, `rpc/src/transaction/server.rs` | none of its own | leader: validate, sign, council fan-out, broadcast fan-out, commit, save fan-out; followers: accredit, broadcast-sign, save |
| Ledger | `transaction/src/lib.rs` 291-360, `core/src/mempool.rs` | UTXO set, chain state (balances, tx sets), RocksDB index | `put_success_transaction_on_db` |
| Request multiplexer | `rpc/src/transaction/client.rs` | request id -> oneshot sender, per kind | send, receive-and-dispatch |
| Bootstrap / join | `apps/src/server.rs` 114-286, `rpc/src/identifier`, `rpc/src/connection` | awaiting ids, active node registry | get_id, validate_id, initial_connect (+ connect-back after 1 s) |
| Genesis | `genesis/src/lib.rs` | DB keys, UTXOs, balances | load genesis, replay on restart |
| Wallet CLI | `cli/src/lib.rs`, `jrpc/src/get_address_utxos.rs` | none (a request to one node) | `send_to_address`: query the sender's UTXOs, pick inputs, build outputs, submit |

How the parts interact:
- The beacon fixes, for every epoch, a permutation of node ids. It is derived from the most voted hash of the numbers the nodes exchanged.
- Committee selection reads that permutation, for the epoch of a transaction and the epoch before it, to pick the leader, the council and the broadcast nodes.
- The pipeline runs on the chosen nodes and ends in the ledger commit on every node.
- Join adds nodes to the registry. The beacon's fan-out list and committee selection both read that registry.

## Modules

| Module | Models | Status |
|--------|--------|--------|
| `Beacon` | `handling_epoch` on every node, and the `initial` / `sync` handlers of the epoch service | done |
| `MCBeacon` | instance of `Beacon` for TLC: the `MaxEpoch` horizon | done |
| `CommitteeSelect` | `get_leader`, `get_accreditation_council_node`, `get_broadcast_node`, `get_nmac`, `calculating_nnr`, `generate_random_number_by_seed`, and their three call sites in `send_raw_transaction` | done |
| `MCCommitteeSelect` | small registries, orders and temporary maps for TLC | done |
| `Ledger` | `send_raw_transaction`, the leader / accreditation_council / broadcast / save services, `put_success_transaction_on_db`, `load_genesis_transactions`, `load_transactions`, restart in `main` | done |
| `Wallet` | `send_to_address_handler` of the CLI (input selection and outputs) and the `get_address_utxos` handler, as operators | done |
| `WalletLedger` | `Ledger` with the wallet querying its nodes: the composition the ledger runs check | done |
| `MCLedger` | two genesis outputs and five transfers (a conflicting pair, a dependent one, an independent one, and a crafted one that lists one input twice) for TLC | done |
| `RequestMux` | the response multiplexer of the transaction client (`connect`, `X_request`, `store_u32_pair`, the receiver tasks) and the peer's serve-and-echo | done |
| `RpcCall` | the abstract call that `RequestMux` refines | done |
| `MCRequestMux` | three calls, two with one nonce, for TLC | done |
| `Join` | `connect_to_network` / `do_connect_to_network`, the identifier service (`get_id`, `validate_id`), `initial_connect` with its connect-back task, and a process restart | done |
| `MCJoin` | node sets with one and with two bootstrap nodes for TLC | done |

### Beacon

State, per node `n`:
- `epoch_pool[n]`: the published `EpochMap`.
- `temporary_node_ids[n]`: the published temporary map. The permutation is represented by its seed `<<final_hash, last_node_id>>`, because `generate_random_number_by_seed` is a function of that pair.
- `started[n]`: the `stage_k_started` flag of the stage in progress.
- `crashed[n]`: the beacon task panicked.

Shared state:
- `now` and `stage`: the epoch number and stage of the aligned clocks.
- `chan[s]`: the in-flight requests of each epoch stream `<<kind, sender, receiver>>`.
- `srv[s]`: the snapshot that a server task holds between its read and its locked write.
- `recorded` and `votes`: history variables. `recorded` holds the contributions a node made or acknowledged, and `votes` the hash each node voted for.

Data abstraction:
- A node's random number for an epoch is the node itself, since draws are distinct.
- The SHA-256 of an encoded vector is the vector itself, since only injectivity matters.

Actions and their code:
- `Stage0(n)`: stage 0 (lines 337-377). `EnsureAhead` makes sure current+2 exists, creating current+1 too when it is missing. The action then appends the node's number to current+1 and fans it out.
- `Stage0Panic(n)`: the `unwrap` at line 348 when `current` is missing as well.
- `Stage1(n)`: stage 1 (379-413). It hashes `get_random_numbers()` in arrival order, stores the sorted copy, bumps the count of its own hash, and fans the hash out.
- `Stage2(n)` and `Derive(n)`: stage 2 (415-477). They take any hash of maximal count (`max_by_key` over an `AHashMap`), or the zero hash when there are no votes. They set `final_hash`, store the permutation seed, and evict entries `<= current - TempKeep` and `<= current - PoolKeep`.
- `Tick`: the stage window closes. A node that has not run the stage by then has missed it (the `now >= stage_end` break at line 333).
- `Receive(s)`: a server task takes the next request. If `id = current + 1`, it reads the epoch before taking the writer lock (`initial` line 58, `sync` line 115). If the epoch is missing, nothing is written and the reply is still `true`.
- `ApplyInitial(s)`: `initial`'s locked write of that snapshot with the request's number pushed (lines 59-75). The contribution counts as acknowledged.
- `ApplySync(s)`: `sync`'s locked write of that snapshot with the vote's count bumped (lines 113-139).
- `Reject(s)`: any other id; the server answers `false` and writes nothing.

Constants and bounds:
- `PoolKeep = 1` and `TempKeep = 2` stand for 48 and 49. They keep the same difference of one, so eviction happens within the few cycles TLC explores.
- `MaxSkips` bounds the stage windows missed in a run.
- `LateKinds` is the set of request kinds that may still be in flight when a stage closes. Otherwise delivery is assumed to fit inside the 4 s window.
- `MaxEpoch` is the horizon, applied as a state constraint.
- Runs use two nodes, except one run of a single node that needs two missed stages to reach the panic.
- `PanicNeedsTwoMisses` is checked in the single-node run with `MaxSkips = 2`, where the panic is reachable: a panicked node has missed at least two windows. With `MaxSkips = 1` no panic happens at all, so a plain "never panics" would say nothing about the code there.
- No action property states that a permutation is never replaced: stage 2 writes only `current+1`, once per cycle, so it would restate the stage flag. The hazard that matters, a SyncRequest snapshot reverting `final_hash` after stage 2, is what `FinalHashKept` (in `SnapshotWritesKept`) states.

Vote order (a divergence from spec 4.4, with no run now):
- Stage 1 sorts a copy of the numbers but hashes `get_random_numbers()`, the unsorted vector in arrival order (line 392).
- Spec 4.4 says the numbers are sorted and then hashed. Two nodes that received the same numbers in different orders therefore vote for different hashes.
- `SameSetSameVote` states the spec's rule. TLC finds it violated in a few seconds with `Node = {1, 2}`, `MaxSkips = 0`, `LateKinds = {}` and `MaxEpoch = 3`.
- That run (`beacon_vote_order`) was retired for the run budget, to make room for `ledger_mint`.
- The tie-break at line 423 (hash map iteration order) shows the same split under the same configuration.

### CommitteeSelect

Committee selection is a pure computation over one node's view: its
registry of connected peers, the temporary maps of epoch `e` and `e-1`, and
the seed streams. The module has one variable `session` (the view a request
is served in, chosen in `Init`) and one `result`, and three actions, one per
call site in `send_raw_transaction.rs`: `SelectLeader`, `SelectCouncil`,
`SelectBroadcast`. Each evaluates the whole function as an operator.

- `Draw(order, how_many)` is `generate_random_number_by_seed`: the first
  `how_many` distinct values of the seed's stream over `1..to`. The ChaCha
  stream is abstracted to an arbitrary order of `1..to` (`Orders`); when
  `how_many > to` the code loops forever and `Draw` returns `ok = FALSE`.
- `CalcNnr` and `Nmac` are `calculating_nnr` and `get_nmac` (nnr at least
  `MinNnr`, capped at the registry size plus one, split into thirds).
- `Slice` is the current-cycle loop (lines 112-124): ids mapped through
  `temporary[e]`, kept when registered and not blacklisted; an id missing
  from the map is the `node_id not found` error; a mapped node not in the
  registry is the node itself and sets `exist_self_on_consensus`.
- `Expand` (RECURSIVE) is the two `loop`s (128-153, 155-188): draw
  `how_many`, keep what qualifies, grow `how_many` by the shortfall until
  `needed` are found.
- `Council` chains them: current slice, previous slice with the current one
  blacklisted, transaction slice with both blacklisted and one fewer needed
  when the node saw itself.
- `Broadcast` is `get_broadcast_node`: `min(128, ceil(nnr/10))` registry
  members.

The reference for `CouncilIsFirstFit` is written independently of the loops:
the slice is the first `needed` candidates of the order, and the call spins
exactly when fewer candidates exist.

The spin is reachable. In the `committee_select` instance (4 nodes, so below
`MIN_NNR`), `CouncilTerminates` (the selection always ends) is violated. The
trace is a full registry with the node drawn in neither the current slice nor
the previous one: the transaction loop then needs one node more than exists,
grows `how_many` past `last_node_id`, and `generate_random_number_by_seed`
loops forever inside the async task (lib.rs:166, chacha20.rs:10).

This is a code bug. It had a violation run of its own (`committee_hang`,
`Sums = {20}`, `ActiveChoices` of the full registry). That run was retired
for the run budget. `CouncilIsFirstFit` still pins down exactly when the spin
happens.

Bounds: four node ids, the node itself is id 1 (a node is never in its own
registry: it receives its peers from the `validate_id` list and does not
connect to itself), registries `{2,3,4}` and `{2,4}`, all 24 orders, sums
giving nnr 2 and 3 and 5 (capped to 4), `MinNnr = 2` and `MaxBroadcast = 1`
scaled from 128. `temporary[e]` is fixed to the identity: every property is
invariant under renaming node ids, and all orders are enumerated, so this
loses no case. `temporary[e-1]` ranges over all permutations of `1..4`, and in
`MCPrevShort` over those of `1..3` (the epoch before a join), which no run
uses at present: with it, `CouncilNoLookupError` fails at once, because the
previous-cycle draw uses epoch e's `last_node_id` over `temporary[e-1]`
(lib.rs:138).

The three slices are disjoint by construction (each loop blacklists the
earlier slices), and with at most four nodes the broadcast count
`ceil(nnr/10)` is always 1, so no run states either fact: neither could fail
at these bounds for any plausible change of the code.

### Ledger

`Ledger` follows a transaction from the JSON-RPC handler to the commit on
every node, and models the restart of a node.

State, per node `n`:
- `utxos[n]` and `balances[n]`: the mempool's UTXO set and chain-state balances. An outpoint is `<<txid, i>>`; values are small integers instead of `f32`.
- A transaction's `Vin[t]` is a sequence of outpoints, as the code's `Vec` is, so it can list an outpoint twice.
- `db[n]`: the RocksDB keys that matter: `last` (`last_transaction_id`), `index` (`transaction.id.k` for k = 1..), `marker` (`included_genesis_transactions`).
- `phase[n]`, `gpos[n]`: loading genesis (entry `gpos`) or serving.
- `applied[n]`: the transactions applied to memory since the last start. This is a history variable for the properties.

State, per request and per stream:
- `pc[s]`, `signed[s]`, `rd[s]`: where the leader work of request `s` is, the council members that signed, and the counter `put_success` read.
- `pc[s]` values of note:
  - `"hung"`: the entry node waits on a leader that restarted.
  - `"bcast"`: the leader waits on a broadcast round that never completes.
- `lost[s]`: the council members whose answer to `s` will never come.
- `stale`: the pairs `<<x, y>>` where `x`'s transaction client to `y` has dead streams, because `y` restarted after `x` connected to it.
- `lq[<<e, L>>]`: leader requests queued on entry node `e`'s leader stream to `L`.
- `spawned`: save tasks spawned but not yet sent. `sq[<<L, n>>]` is the save stream and `sv[<<L, n>>]` its serving task.

Actions, with the code they model:
- `Forward` / `Inline`: `send_raw_transaction` with `get_leader` returning a peer, or `None` (the node itself); inline leader work runs in the JSON-RPC task.
- `Take`: the leader stream task (one task per stream, so one request at a time) takes the next request and runs `validate_utxo_exist_and_values` (`Valid`, `ValidTx`). The check looks up each vin entry and adds its value. It checks neither that the entries are distinct nor that an output value is positive.
- `CouncilSign`: `accreditation_council` on a member the leader still reaches, the same check against its own UTXOs; a refusal fails the request.
- `CouncilStale`: a council request over a stale client. Either the send fails, the task yields status false and the request fails, or the request is swallowed and the member joins `lost[s]`.
- `Broadcast`: the broadcast round (peers sign without checks), then the counter read of `put_success_transaction_on_db`.
- `BroadcastStale`: the round includes a peer behind a stale client. The request either fails or waits in `"bcast"` for good.
- `LeaderPut`: the three puts.
- `LeaderApply`: the locked UTXO and balance update, then a save task spawned for every other node.
- `SaveSend`, `SaveRead`, `SavePut`, `SaveApply`: a spawned task queues its request (lost over a stale client, with the error ignored); the save task commits it without any check.
- `Forward` over a stale client either fails at once or leaves the entry node waiting (`"hung"`).
- `GenesisStep` / `GenesisDone`: one entry of `load_genesis_transactions` (the balance is set, not added), then the marker.
- `Restart`: a node's tasks, streams and queued requests are lost. Its effect on pending requests:
  - work it led inline fails, because the JSON-RPC connection dies;
  - an entry node waiting on it as leader hangs (`LeaderKilled`);
  - a leader waiting on it for a council signature waits forever (`CouncilCut`, which adds it to `lost`).
- After a restart:
  - the other nodes' clients to the node become stale. Rejoining does not replace them: `initial_connect` answers true for a node already in the registry and keeps the old client.
  - the node replays `index[1..last]` (`Replay`, a `FoldLeft`) if the marker exists, and otherwise reloads genesis from the start.

Bounds (`MCLedger`): two genesis outputs, and four transfers led by node 1:
- t1 and t2 spend the same output;
- t3 spends t1's output;
- t4 is independent;
- t5 lists g1 twice in its vin and pays 4 to its sender. No wallet builds it, but anyone can send it as a raw transaction.

The pass run submits t1, t2 and t3. It has three nodes, a council of nodes 2 and 3, broadcast peer 2, and one restart in either phase. t1 and t2 enter at node 2, so they share one leader stream; t3 enters inline at the leader. The violation runs use two nodes and no restart, and let two commits of the leader run concurrently.

Fairness: weak fairness on every task action, because the Tokio runtime eventually runs a task that is ready. Client submissions and restarts carry no fairness. The deadlock check is off: a node idles once its requests are done.

Findings:
- Conflicting requests are serialised only when they share one leader stream. The inline JSON-RPC path and other entry nodes' streams run beside it. Every check happens before the commit's write lock, so both transactions commit.
- `put_success_transaction_on_db` reads `last_transaction_id` and writes `transaction.id.{k+1}` with no lock around them. The runtime is multi-threaded, so two commits can write the same index entry. A restart then loses a committed transaction.
  - This is a code bug. `ReplayMatches` fails with two nodes, `Submissions = {<<"t1", 2>>, <<"t4", 1>>}` (two independent transactions, one inline at the leader) and no restart.
  - It had a violation run of its own (`ledger_index_race`), retired for the run budget.
  - `ReplayMatches` stays in `Ledger.tla` for that configuration. The pass run does not check it: there each node commits one transaction at a time, so the race cannot happen and the property would hold whatever the index code did.
- A transaction that lists one outpoint twice creates value (`ledger_mint`, `ValueConserved`).
  - `validate_utxo_exist_and_values` sums the value of each vin entry, so g1 (worth 2) counts twice and pays an output of 4.
  - The commit removes g1 once. Every node that commits t5 then holds UTXOs worth 5, against a genesis supply of 3.
  - The same check accepts negative output values. A sender can pay `-x` to another key and `+x` more to itself. This lowers the other key's chain-state balance without its signature. The model's instances use no negative outputs, so no run shows this.
- A restart of a council member leaves the leader's request unanswered for good (`ledger_hang`, `RequestAnswered`). The request queued behind it on the same leader stream is never taken either.
  - The restart ends the client's receiver task for that stream.
  - The task leaves the pending oneshot senders in the response map (`RequestMux`).
  - `join_next` in the leader stream task has no timeout.
  - Spec 5 says a closing stream cancels its pending completions. Spec 7 says a transport error degrades one member of a fan-out, not the request.

Properties beyond the commit ones:
- `ValueConserved`: a serving node's UTXO set is worth the genesis supply, through commits, saves, restarts and replays.
- `WalletTxAccepted` (in `WalletLedger`) is stated for every serving node, every key, every order of the node's answer and every amount in `{0..4}`. The wallet builds a transaction exactly when the key's UTXOs cover the amount, and the node's check accepts it then.

Fault variants: `PutCounterTwice`, `SpendKeepInputs`, `TakeUnserialized` (one task per request on the leader stream), `LeaderApplySkipEntry`, `ReplayExclusive` (the replay loop over `1..last` instead of `1..=last`).

### Wallet and WalletLedger

`Wallet` is the transfer command of the CLI, `send_to_address_handler`. It has no state of its own, so its parts are operators:
- `AddressUtxos`: the `get_address_utxos` handler. It returns every UTXO of the key, in the iteration order of the node's hash map. The order is not fixed, so the operator gives every order.
- `Walk` / `Select`: the selection loop. It stops at the first item once the running sum covers the amount, and otherwise adds the item.
- `SendToAddress`: the rest of the handler:
  - it refuses when the walk ran out before covering the amount;
  - otherwise `vin` is the walked prefix;
  - `vout` is the payment, plus the change (`Change`) when the prefix overshoots.

`WalletLedger` extends `Ledger` with the wallet querying its nodes. `MCLedger` instantiates it, so every ledger run carries it. Its property `WalletTxAccepted` composes three pieces of code:
- the query handler on the node;
- the CLI's selection;
- the node's `validate_utxo_exist_and_values`.

It is checked against every UTXO set that any node reaches in `ledger_safety`.

Not modelled here:
- The code sums values in `f32` in the wallet and in `f64` rounded to two decimals in the node. The model sums integers, so the rounding gap is outside its reach (hazard `cli/src/lib.rs:96`).
- The 10-second request timeout and a user's retry: that is a second transaction over the same outputs, which is what the conflicting pair t1/t2 stands for.

Fault variant: `ChangeSwapped` (`amount - needed_amount`), which breaks `WalletTxAccepted`.

### RequestMux and RpcCall

`RequestMux` is the response multiplexer of `rpc/src/transaction/client.rs`.
It models one kind of request over one connection to one peer. The four
kinds are copies of the same code; the module names the accreditation
council one.

State:
- `pc[c]`: where call `c` is: idle, sender inserted, waiting on its receiver, or failed at the send.
- `rnd[c]`: the call's random u32.
- `result[c]`: what its receiver got.
- `smap`: the response map, from the 16-byte id to the caller holding the oneshot sender.
- `out`, `inb`: the two directions of the stream.
- `up`: the connection is alive.
- `served`: the history of requests the peer handled.

Actions, with the code they model:
- `Register`: the oneshot channel, `store_u32_pair(node_id, nonce, random)` (the bytes, little-endian, by `LeBytes`) and the insert under the write lock. An insert under a present id drops the old sender, whose receiver then errors.
- `Send`: `tx.send(...).await?`. On a dead connection it either fails, leaving the sender in the map, or lands in a channel nobody reads.
- `Serve`: the peer's stream task answers one request at a time and echoes the id.
- `Receive`: one iteration of the receiver task: skip an id that is not 16 bytes, otherwise remove the sender and send on it, or drop the response as "not found".
- `StreamDown`: the peer restarts. `stream.next()` returns None, the receiver task ends, and the map is left as it is.

`RpcCall` is what a call promises:
- every begun call ends at most once;
- it ends either with the answer to its own request, and only after the peer served that request, or with an error.

`RequestMux` refines it through `Abs == INSTANCE RpcCall WITH ...`:
- a call is ended once its receiver resolved or its send failed;
- its answer is the caller whose request produced the response it got.

The run checks `MuxImplementsCall == Abs!Spec` as a property.

`MapHoldsPending`: the response map holds a sender for every call still waiting, under that call's id. While the connection is up, it holds nothing else. The entries a failed send leaves behind (client.rs:228) can therefore appear only after the connection is gone. The client is never rebuilt, so they stay for the life of the node.

`EveryCallEndsWhileUp`: a sent call ends unless the connection dies. It does not say the call ends when the connection does die; `ledger_hang` shows what that costs.

Bounds: three callers, two of them with nonce 5 and one with nonce 300, so the id has two non-zero nonce bytes. The destination is node 2, and randoms are drawn from `{0, 1}`.
- `RandomsDistinct` keeps the randoms of same-nonce calls apart. In the code they collide with probability 2^-32 per pair. On a collision the second insert takes the first caller's slot, and the first response goes to the second caller.
- The mutant `StoreNoRandom` forces that collision, and TLC finds the refinement broken.

Fairness: weak fairness on `Send`, `Serve` and `Receive` (Tokio tasks). Callers are not obliged to call, and the connection may stay up or die.

Fault variants:
- `StoreNonceU32`: the nonce written as 4 bytes, breaks `TypeOK`'s 16-byte id;
- `StoreNoRandom`: breaks `MuxImplementsCall`;
- `ReceiveKeepEntry`: the receiver reads the sender without removing it; breaks `MapHoldsPending`;
- `EchoEmpty`: the peer answering with an empty id, as the fallback responses built with `Vec::new()` do; breaks `EveryCallEndsWhileUp`.

### Join

`Join` models how a node obtains its id and its registry of peers. `main`
calls `connect_to_network` before it starts its own servers, and that loop
retries `do_connect_to_network` every second until it returns `Ok`.

A node's public key is the node itself. An aggregate BLS signature is the
record `[signers, id]`: it verifies against an aggregate key exactly when the
signers are the keys aggregated and the id is the signed one (`Verifies`).

State, per node:
- `phase`: `off`, `joining` (in `connect_to_network`, servers down) or `serving`.
- `id`, `sig`: `self_node`'s id and `bootstrap_node_signature`.
- `awaiting`, `active`: `nodes_awaiting_confirmation` and `active_nodes`, as key -> id (0 = absent).
- `lastId`: `last_node_id` of the epoch the connect-back writes (`node_epoch + 5`).
- `jc`: the locals of `do_connect_to_network`: where it is (`get`, `validate`, `connect`), the bootstrap position, the get_id answers, the longest node list, the yes count, the nodes still to call.

State, shared:
- `callbacks`: connect-back tasks spawned by `initial_connect`, not yet run.
- `restarts`: a counter bounded by `MaxRestarts`.

Actions:
- `GetId`: one `get_id` call on the next bootstrap node. A call to itself or to a node whose server is not up is skipped. The handler holds the awaiting write lock throughout, so it is one step. `AssignedId` is its id choice: the caller's awaiting entry; else the awaiting maximum plus one; with an empty table, the registry maximum plus one, or 2.
- `GetIdDone`: with no answer, a bootstrap node takes id 1 and any other node fails. Otherwise the answers' signatures must aggregate over the first answer's id, which holds only when all the ids agree.
- `ValidateId`: one `validate_id` call. It says yes when the caller is awaiting and the aggregate verifies against `Available`: the server's own key if it is a bootstrap node, plus the bootstrap nodes it has active. The longest node list is kept.
- `ValidateDone`: the yes count must equal the number of get_id answers. Then the id, the signature and the epoch entry are set.
- `Connect`: `initial_connect` on one listed node. A node that does not know the caller checks the signature and spawns a connect-back (`Accepts`, `Spawns`).
- `ConnectDone`: the node's servers come up.
- `ConnectBack`: the spawned task calls `initial_connect` back on the new node, with its own id and signature as they are when it runs. On yes it registers the node and raises `lastId`. It fails if the new node's server is not up yet.
- `Restart`: everything a node holds is in memory and is lost, with the tasks it spawned.
- `Start`: the operator starts a node. With `SequentialBoot`, bootstrap nodes are started in `BOOTSTRAP_NODES` order, each once those before it serve. Otherwise every bootstrap node that starts alone takes id 1.

Bounds (`MCJoin`):
- The pass run has one bootstrap node and two joiners, with up to two restarts of the joiners. That is the deployment where only the first of the five listed bootstrap nodes runs, since unreachable bootstrap nodes are skipped. A third joiner makes the run take more than ten minutes.
- The violation run has two bootstrap nodes and one joiner.

Fairness: weak fairness on every step of the retry loop, the handlers and the spawned tasks, because the Tokio runtime runs ready tasks. Bootstrap nodes are assumed to be started; other nodes need not start, and restarts carry no fairness. The deadlock check is off, because a node that serves has nothing more to do in this model.

Findings:
- With more than one bootstrap node a joiner can retry forever (`join_two_bootstraps`). Two mechanisms lead there:
  - `get_id` counts from the awaiting table when it is non-empty and from the registry otherwise, and awaiting entries are never removed. So the two bootstrap nodes offer different ids, and the aggregate never verifies.
  - A bootstrap node's connect-back to the next bootstrap node can fire before that node serves. The first node then never counts the second node's key in `validate_id`.
- A bootstrap node that restarts forgets the ids it handed out. With `RestartNodes = {"b1"}` TLC finds two nodes holding id 2; no run checks this configuration.
- With one bootstrap node the connect-back can still fire before the joiner serves, leaving the link registered on one side only. A property demanding mutual registration fails at the first join, so no run states it.

Fault variants: `AssignedIdReissue` (no reuse of a retry's awaiting entry), `AssignedIdActiveOnly` (the awaiting table consulted only for the caller), `ConnectOwnId` (a listed node registered under the caller's id), `AvailableNoSelf` (the server's own key left out of the key set).

## Runs

| Run | cfg | Expect | What it shows |
|-----|-----|--------|---------------|
| beacon_safety | MCBeacon.cfg | pass | 3 cycles, no missed stage. NoDoubleCounting, WindowConsistent (the two eviction bounds fit: every kept epoch e has permutations e and e-1) |
| beacon_late_sync | MCBeaconLag.cfg | pass | SyncRequests may outlive their stage and are rejected in the next cycle, and one stage window may be missed: no double counting |
| beacon_solo_skips | MCBeaconSolo.cfg | pass | a node missing two stage 0 windows: fires `Stage0Panic` (the `unwrap` at server.rs:348 on a missing epoch, which ends the beacon task for good) and the empty-epoch branches of stages 1 and 2. PanicNeedsTwoMisses: the panic needs two missed windows, so one missed window never kills the task (an unwrap on current+1 would panic after one) |
| beacon_lost_contribution | MCBeaconLost.cfg | violation | SnapshotWritesKept: the read-before-lock in `initial` (and the same shape in `sync` for the final hash) loses a number that was acknowledged |
| ledger_safety | MCLedger.cfg | pass | TypeOK, NoDoubleSpend, BalancesMatchUtxos, ValueConserved, WalletTxAccepted, SavesReachAll with conflicting requests serialised on one leader stream, a dependent request inline at the leader, and one restart in any phase. The restart leaves waits hanging and clients stale (6,340 states) |
| ledger_double_spend | MCLedgerDoubleSpend.cfg | violation | NoDoubleSpend: a request inline at the leader and one on its leader stream spend the same output; both pass every check and both commit |
| ledger_mint | MCLedgerMint.cfg | violation | ValueConserved: t5, listing g1 twice, passes the leader's and the council's checks and commits, and the supply grows from 3 to 5 |
| ledger_hang | MCLedgerHang.cfg | violation | RequestAnswered: council member 3 restarts while leader 1 waits on it for t1. t1 is never answered, and t2, queued behind it on node 2's leader stream, is never taken |
| mux_safety | MCRequestMux.cfg | pass | TypeOK (ids are 16 bytes), MapHoldsPending, MuxImplementsCall (refinement of `RpcCall`), EveryCallEndsWhileUp; three concurrent calls, two with one nonce, with the connection free to die (1,354 states) |
| committee_select | MCCommitteeSelect.cfg | pass | CouncilIsFirstFit (every slice equals the reference first-fit choice, and the call spins exactly when the reference has too few candidates), TerminatesWhenFeasible |
| join_safety | MCJoin.cfg | pass | one bootstrap node, two joiners, up to two joiner restarts: UniqueIds, RegistryTrue (a registry entry carries its node's id), JoinCompletes (every started node ends up serving), TypeOK with ids dense in `0..|Node|` (5,886 states) |
| join_two_bootstraps | MCJoinTwoBoot.cfg | violation | JoinCompletes: with two bootstrap nodes, a joiner retries `do_connect_to_network` forever |

Every property of a pass run has a fault variant in its module, listed under "mutants" in `PROJECT.json`:
- `ReadyNoFlag`: the stage flag is not tested.
- `EvictTempOffByOne`: eviction at current-48.
- `Stage0PanicNoFallback`: no fallback to `current`.
- `BumpFromZero`: a new vote is inserted with count 0.
- `PutCounterTwice`, `SpendKeepInputs`, `TakeUnserialized`, `LeaderApplySkipEntry` in `Ledger`: see the Ledger section.
- `AssignedIdReissue`, `AssignedIdActiveOnly`, `ConnectOwnId`, `AvailableNoSelf` in `Join`: see the Join section.
- `StoreNonceU32`, `StoreNoRandom`, `ReceiveKeepEntry`, `EchoEmpty` in `RequestMux`: see its section.
- `ReplayExclusive` in `Ledger` and `ChangeSwapped` in `Wallet`: see their sections.
- `SliceUnregistered`, `ExpandOnce`, `NmacOneThird` in `CommitteeSelect`: no registry filter, no growing of the draw, a transaction third computed as nnr minus one third.

The checked run fails under each variant.

Committee selection is a terminating computation, checked by invariants on its result; its deadlock check is off because after one selection the model has nothing more to do.

Fairness: the Ledger and Join fairness is described in their sections. The beacon properties are all safety properties, so no fairness is assumed. The loop is driven by the clock, and a node's progress within a stage is not guaranteed: a node may miss its window. That is exactly what `Tick` with `MaxSkips` models.

## Plan (next modules, most important first)

1. The four kinds of `RequestMux` over one shared connection, and `RequestMux` composed into `Ledger` in place of its `stale` / `lost` abstraction.
2. A refinement of the left-right map (op log plus publish) to an atomic map. This would justify the atomic `Put` used by `Beacon`.

## Not modelled

- In `Ledger`: signature checks, BLS aggregation and encodings always succeed; the per-key transaction sets of the chain state are left out; a genesis crash followed by two restarts (duplicated index entries, doubled balances on replay) needs MaxRestarts 2, beyond the checked run.

- Clock drift: the beacon model assumes aligned clocks.
- The first-cycle empty peer snapshot and membership changes during the beacon: `Beacon` takes the cohort as fixed, and `Join` does not model the epoch loop.
- In `Join`: the node records are reduced to key and id; signatures to signer set and id; `create_initial_entropies` to the `last_node_id` it writes; the epoch entry the connect-back updates to one per node. Registry removal has no caller in the code.
- Cryptography: only injectivity of hashes and unforgeability of signatures is assumed.
- The CLI's 10-second JSON-RPC timeout and a user's retry: the retry is a new transaction over the same outputs, which the conflicting submissions of `MCLedger` stand for.
- JSON-RPC read-only queries, the CLI's key generation and query commands, logging, binary codecs, the proto build. They are I/O or formatting, and no state transition of the protocol depends on them.
