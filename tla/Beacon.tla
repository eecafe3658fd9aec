------------------------------- MODULE Beacon -------------------------------
(***************************************************************************)
(* The epoch randomness beacon of a concilium node cohort.                 *)
(*                                                                         *)
(* Every node runs the three-stage loop of handling_epoch                  *)
(* (src/apps/src/server.rs) and serves the Epoch gRPC service              *)
(* (src/rpc/src/epoch/server.rs).  Stage 0 contributes a random number to  *)
(* epoch current+1 and fans it out as an InitialRequest, stage 1 hashes    *)
(* the collected numbers and fans the hash out as a SyncRequest, stage 2   *)
(* picks the most voted hash as final_hash and derives the epoch's         *)
(* temporary node-id permutation from it, then evicts old epochs.          *)
(*                                                                         *)
(* Clocks are aligned: the cohort shares the current epoch number `now`    *)
(* and the `stage` of the 12 s cycle.  A node that has not run a stage     *)
(* when the stage window closes skips it (the `now >= stage_end` break).   *)
(*                                                                         *)
(* Data abstraction.  The random number a node draws for an epoch is       *)
(* represented by the node itself (draws are distinct).  SHA-256 of the    *)
(* binary encoding of a vector of numbers is represented by the vector     *)
(* itself: the only property of the hash the protocol relies on is that   *)
(* distinct vectors have distinct hashes.  The permutation derived at      *)
(* stage 2 is a function of (final_hash, last_node_id) only, so the        *)
(* temporary map of an epoch is represented by that pair.                  *)
(***************************************************************************)
EXTENDS Integers, Sequences, FiniteSets, TLC, Functions

CONSTANTS
  Node,        \* node ids of the cohort, 1..k (ordered: numbers are sorted)
  Start,       \* epoch in which create_initial_entropies seeded the pools
  PoolKeep,    \* stage 2 evicts epoch_pool entries <= current - PoolKeep (48)
  TempKeep,    \* stage 2 evicts temporary_node_ids entries <= current - TempKeep (49)
  MaxSkips,    \* stage windows the cohort may miss in a run (late wake-ups)
  LateKinds,   \* kinds of request that may still be in flight when a stage ends
  Zero         \* the all-zero hash [0; 32]

ASSUME Node \subseteq Nat /\ Node # {}
ASSUME Start \in Nat /\ PoolKeep \in Nat /\ TempKeep \in Nat /\ MaxSkips \in Nat
ASSUME LateKinds \subseteq {"initial", "sync"}

VARIABLES
  now,                \* current_epoch_number(), shared by aligned clocks
  stage,              \* stage of the cycle: 0, 1 or 2
  epoch_pool,         \* epoch_pool[n]: published EpochMap of node n
  temporary_node_ids, \* temporary_node_ids[n]: epoch -> <<final_hash, last_node_id>>
  started,            \* started[n]: the stage_k_started flag of the current stage
  skipped,            \* skipped[n]: stage windows node n has missed
  crashed,            \* crashed[n]: the handling_epoch task of n panicked
  chan,               \* chan[s]: requests in flight on epoch stream s (FIFO)
  srv,                \* srv[s]: server task of stream s between its read and its write
  recorded,           \* history: <<e, m>> contributions n acknowledged or made
  votes               \* history: votes[n][e] = hash n voted for at stage 1

vars == <<now, stage, epoch_pool, temporary_node_ids, started, skipped,
          crashed, chan, srv, recorded, votes>>

LastNodeId == Cardinality(Node)

\* An epoch stream: the InitialRequest or SyncRequest stream from s to r,
\* served on r by its own spawned task (one task per stream).
Stream == {t \in {"initial", "sync"} \X Node \X Node : t[2] # t[3]}

Hash == Seq(Node) \cup {Zero}

Idle == [busy |-> FALSE]

Epoch(lnid) ==
  [last_node_id |-> lnid, final_hash |-> Zero, random_numbers |-> <<>>,
   hashes |-> <<>>]

\* Fault variant of Bump: a new hash is inserted with count 0.
BumpFromZero(hashes, h) ==
  IF h \in DOMAIN hashes
    THEN [hashes EXCEPT ![h] = @ + 1]
    ELSE (h :> 0) @@ hashes

\* hashes: hash -> count; get_mut(&hash) += 1, else insert(hash, 1)
Bump(hashes, h) ==
  IF h \in DOMAIN hashes
    THEN [hashes EXCEPT ![h] = @ + 1]
    ELSE (h :> 1) @@ hashes

\* Writer insert/update followed by publish: the new map readers see.
Put(pool, e, ep) == (e :> ep) @@ [x \in DOMAIN pool \ {e} |-> pool[x]]

\* The epochs a writer removes: keys <= bound.
Evict(map, bound) == [x \in {y \in DOMAIN map : y > bound} |-> map[x]]

\* Fanout of the spawned task to every node of the `nodes` snapshot.
Fanout(n, k, msg) ==
  [s \in Stream |-> IF s[1] = k /\ s[2] = n THEN Append(chan[s], msg) ELSE chan[s]]

-----------------------------------------------------------------------------
\* create_initial_entropies(last_node_id): epochs Start..Start+2; the loop
\* then starts at the next 12 s boundary.
Init ==
  /\ now = Start + 1
  /\ stage = 0
  /\ epoch_pool = [n \in Node |-> [e \in Start..Start + 2 |-> Epoch(LastNodeId)]]
  /\ temporary_node_ids = [n \in Node |-> <<>>]
  /\ started = [n \in Node |-> FALSE]
  /\ skipped = [n \in Node |-> 0]
  /\ crashed = [n \in Node |-> FALSE]
  /\ chan = [s \in Stream |-> <<>>]
  /\ srv = [s \in Stream |-> Idle]
  /\ recorded = [n \in Node |-> {}]
  /\ votes = [n \in Node |-> <<>>]

\* Fault variant of Ready: the stage_k_started flag is not tested.
ReadyNoFlag(n, k) == stage = k /\ ~crashed[n]

Ready(n, k) == stage = k /\ ~started[n] /\ ~crashed[n]

\* Stage 0, step 1: make sure current+2 exists, inheriting last_node_id from
\* current+1, or else from current (inserting current+1 too).  The unwrap on
\* epoch `current` panics when that one is missing as well.
\* Fault variant of Stage0Panic: no fallback to epoch `current`, the unwrap
\* is on current+1.
Stage0PanicNoFallback(n) ==
  /\ Ready(n, 0)
  /\ now + 2 \notin DOMAIN epoch_pool[n]
  /\ now + 1 \notin DOMAIN epoch_pool[n]
  /\ crashed' = [crashed EXCEPT ![n] = TRUE]
  /\ UNCHANGED <<now, stage, epoch_pool, temporary_node_ids, started, skipped,
                 chan, srv, recorded, votes>>

Stage0Panic(n) ==
  LET pool == epoch_pool[n] IN
  /\ Ready(n, 0)
  /\ now + 2 \notin DOMAIN pool
  /\ now + 1 \notin DOMAIN pool
  /\ now \notin DOMAIN pool
  /\ crashed' = [crashed EXCEPT ![n] = TRUE]
  /\ UNCHANGED <<now, stage, epoch_pool, temporary_node_ids, started, skipped,
                 chan, srv, recorded, votes>>

EnsureAhead(pool) ==
  IF now + 2 \in DOMAIN pool THEN pool
  ELSE IF now + 1 \in DOMAIN pool
    THEN Put(pool, now + 2, Epoch(pool[now + 1].last_node_id))
    ELSE LET lnid == pool[now].last_node_id
         IN Put(Put(pool, now + 1, Epoch(lnid)), now + 2, Epoch(lnid))

\* Stage 0, step 2: append the node's own number to epoch current+1 and
\* fan it out as InitialRequest{current+1, r}.  Step 1 leaves current+1 in
\* the pool (epochs are inserted in order and evicted from below), so the
\* `if let Some` of the code always takes its first branch.
Stage0(n) ==
  LET pool == EnsureAhead(epoch_pool[n])
      e == now + 1
  IN
  /\ Ready(n, 0)
  /\ {now, now + 1, now + 2} \cap DOMAIN epoch_pool[n] # {}
  /\ started' = [started EXCEPT ![n] = TRUE]
  /\ epoch_pool' = [epoch_pool EXCEPT ![n] =
       Put(pool, e, [pool[e] EXCEPT !.random_numbers = Append(@, n)])]
  /\ chan' = Fanout(n, "initial", [id |-> e, data |-> n])
  /\ recorded' = [recorded EXCEPT ![n] = @ \cup {<<e, n>>}]
  /\ UNCHANGED <<now, stage, temporary_node_ids, skipped, crashed, srv, votes>>

\* Stage 1: hash the binary encoding of the numbers, vote for it, store the
\* numbers sorted, fan the hash out as SyncRequest{current+1, hash}.  The
\* encoded vector is epoch.get_random_numbers(), read before the sort.
Stage1(n) ==
  LET e == now + 1
      ep == epoch_pool[n][e]
      h == ep.random_numbers
  IN
  /\ Ready(n, 1)
  /\ started' = [started EXCEPT ![n] = TRUE]
  /\ IF e \in DOMAIN epoch_pool[n]
       THEN /\ epoch_pool' = [epoch_pool EXCEPT ![n] =
                 Put(@, e, [ep EXCEPT !.random_numbers = SortSeq(@, <),
                                      !.hashes = Bump(@, h)])]
            /\ chan' = Fanout(n, "sync", [id |-> e, data |-> h])
            /\ votes' = [votes EXCEPT ![n] = (e :> h) @@ @]
       ELSE UNCHANGED <<epoch_pool, chan, votes>>
  /\ UNCHANGED <<now, stage, temporary_node_ids, skipped, crashed, srv, recorded>>

\* max_by_key over an AHashMap: any hash of maximal count, the iteration
\* order of the map being seeded per process.
MaxVoted(hashes) ==
  {h \in DOMAIN hashes : \A g \in DOMAIN hashes : hashes[g] <= hashes[h]}

\* Stage 2 eviction: epoch_pool_write_guard.remove of every id <= current - 48.
EvictPool(pool) == Evict(pool, now - PoolKeep)

\* Fault variant of EvictTemp: the bound is current - 48 as for the pool.
EvictTempOffByOne(map) == Evict(map, now - TempKeep + 1)

\* Stage 2 eviction: temporary entries with id <= current - 49.
EvictTemp(map) == Evict(map, now - TempKeep)

\* Stage 2: set final_hash, derive temporary_node_ids[current+1] from it,
\* evict temporary entries <= current-49 and epochs <= current-48.
Derive(n) ==
  LET e == now + 1
      ep == epoch_pool[n][e]
  IN
  IF e \in DOMAIN epoch_pool[n]
    THEN \E final \in IF ep.hashes = <<>> THEN {Zero} ELSE MaxVoted(ep.hashes) :
           /\ epoch_pool' = [epoch_pool EXCEPT ![n] =
                EvictPool(Put(@, e, [ep EXCEPT !.final_hash = final]))]
           /\ temporary_node_ids' = [temporary_node_ids EXCEPT ![n] =
                EvictTemp(Put(@, e, <<final, ep.last_node_id>>))]
           \* the history variables forget the evicted epochs as well
           /\ recorded' = [recorded EXCEPT ![n] = {c \in @ : c[1] > now - PoolKeep}]
           /\ votes' = [votes EXCEPT ![n] = Evict(@, now - PoolKeep)]
    ELSE UNCHANGED <<epoch_pool, temporary_node_ids, recorded, votes>>

Stage2(n) ==
  /\ Ready(n, 2)
  /\ started' = [started EXCEPT ![n] = TRUE]
  /\ Derive(n)
  /\ UNCHANGED <<now, stage, skipped, crashed, chan, srv>>

\* The stage window closes.  A live node that did not run the stage missed
\* it; at most MaxSkips misses in all.  A request of a kind not in LateKinds
\* has been served by then (RPC latency well below the 4 s window).
Tick ==
  LET late == {n \in Node : ~started[n] /\ ~crashed[n]}
  IN
  /\ \A s \in Stream : s[1] \notin LateKinds => chan[s] = <<>> /\ ~srv[s].busy
  /\ SumFunction(skipped) + Cardinality(late) <= MaxSkips
  /\ skipped' = [n \in Node |-> IF n \in late THEN skipped[n] + 1 ELSE skipped[n]]
  /\ stage' = (stage + 1) % 3
  /\ now' = IF stage = 2 THEN now + 1 ELSE now
  /\ started' = [n \in Node |-> FALSE]
  /\ UNCHANGED <<epoch_pool, temporary_node_ids, crashed, chan, srv, recorded, votes>>

-----------------------------------------------------------------------------
(* Server side of the Epoch service.  The task of a stream takes the next  *)
(* request; if its id is current+1 it reads the epoch through a read       *)
(* handle and only then locks the writer; otherwise it answers false.      *)

\* Request with a stale or future id: status false, nothing written.
Reject(s) ==
  /\ ~srv[s].busy
  /\ chan[s] # <<>>
  /\ Head(chan[s]).id # now + 1
  /\ chan' = [chan EXCEPT ![s] = Tail(@)]
  /\ UNCHANGED <<now, stage, epoch_pool, temporary_node_ids, started, skipped,
                 crashed, srv, recorded, votes>>

\* Request for current+1: the epoch snapshot is read before the lock.
\* If the epoch is missing nothing is written and status true is sent.
Receive(s) ==
  LET msg == Head(chan[s])
      pool == epoch_pool[s[3]]
  IN
  /\ ~srv[s].busy
  /\ chan[s] # <<>>
  /\ msg.id = now + 1
  /\ chan' = [chan EXCEPT ![s] = Tail(@)]
  /\ IF msg.id \in DOMAIN pool
       THEN /\ srv' = [srv EXCEPT ![s] = [busy |-> TRUE, msg |-> msg, snap |-> pool[msg.id]]]
            /\ UNCHANGED recorded
       ELSE /\ UNCHANGED srv
            /\ recorded' = IF s[1] = "initial"
                             THEN [recorded EXCEPT ![s[3]] = @ \cup {<<msg.id, s[2]>>}]
                             ELSE recorded
  /\ UNCHANGED <<now, stage, epoch_pool, temporary_node_ids, started, skipped,
                 crashed, votes>>

\* initial, under the writer lock: update(id, snapshot with the request's
\* number pushed), publish, status true.  The contribution is acknowledged.
ApplyInitial(s) ==
  LET msg == srv[s].msg
  IN
  /\ s[1] = "initial"
  /\ srv[s].busy
  /\ epoch_pool' = [epoch_pool EXCEPT ![s[3]] =
       Put(@, msg.id, [srv[s].snap EXCEPT !.random_numbers = Append(@, msg.data)])]
  /\ srv' = [srv EXCEPT ![s] = Idle]
  /\ recorded' = [recorded EXCEPT ![s[3]] = @ \cup {<<msg.id, s[2]>>}]
  /\ UNCHANGED <<now, stage, temporary_node_ids, started, skipped, crashed,
                 chan, votes>>

\* sync, under the writer lock: update(id, snapshot with the vote's count
\* bumped), publish, status true.
ApplySync(s) ==
  LET msg == srv[s].msg
  IN
  /\ s[1] = "sync"
  /\ srv[s].busy
  /\ epoch_pool' = [epoch_pool EXCEPT ![s[3]] =
       Put(@, msg.id, [srv[s].snap EXCEPT !.hashes = Bump(@, msg.data)])]
  /\ srv' = [srv EXCEPT ![s] = Idle]
  /\ UNCHANGED <<now, stage, temporary_node_ids, started, skipped, crashed,
                 chan, votes, recorded>>

Next ==
  \/ \E n \in Node : Stage0(n) \/ Stage0Panic(n) \/ Stage1(n) \/ Stage2(n)
  \/ Tick
  \/ \E s \in Stream : Reject(s) \/ Receive(s) \/ ApplyInitial(s) \/ ApplySync(s)

Spec == Init /\ [][Next]_vars

-----------------------------------------------------------------------------
(* Properties                                                              *)

TypeOK ==
  /\ now \in Nat /\ stage \in 0..2
  /\ \A n \in Node :
       /\ DOMAIN epoch_pool[n] \subseteq Nat
       /\ \A e \in DOMAIN epoch_pool[n] :
            /\ epoch_pool[n][e].final_hash \in Hash
            /\ epoch_pool[n][e].random_numbers \in Seq(Node)
            /\ epoch_pool[n][e].last_node_id = LastNodeId
            /\ Range(epoch_pool[n][e].hashes) \subseteq Nat \ {0}
       /\ DOMAIN temporary_node_ids[n] \subseteq Nat
       /\ Range(temporary_node_ids[n]) \subseteq Hash \X {LastNodeId}
  /\ started \in [Node -> BOOLEAN] /\ crashed \in [Node -> BOOLEAN]
  /\ skipped \in [Node -> 0..MaxSkips]
  /\ \A s \in Stream : \A i \in DOMAIN chan[s] :
       /\ chan[s][i].id \in Nat
       /\ chan[s][i].data \in IF s[1] = "initial" THEN Node ELSE Seq(Node)

\* The handling_epoch task survives one missed window: the stage-0 unwrap on
\* epoch `current` can only fail for a node that missed stage 0 of two
\* consecutive cycles (stage 0 of current-1 inserts current+1, that of
\* current-2 inserts current), so a node that panicked has missed at least
\* two stage windows.  An unwrap on current+1 would fail after one.
PanicNeedsTwoMisses == \A n \in Node : crashed[n] => skipped[n] >= 2

\* No contribution and no vote is counted twice: each node's number appears
\* at most once in an epoch's random_numbers, and the vote counts of an
\* epoch add up to at most one vote per node (stage flags, id checks).
NoDoubleCounting ==
  \A n \in Node : \A e \in DOMAIN epoch_pool[n] :
    /\ IsInjective(epoch_pool[n][e].random_numbers)
    /\ SumFunction(epoch_pool[n][e].hashes) <= Cardinality(Node)

\* Every epoch a node still keeps in its epoch_pool and that is not in the
\* future has, once the beacon has run for it, its own temporary map and
\* that of the epoch before: the committee selection of a transaction of
\* any epoch the pool accepts finds temporary[e] and temporary[e-1].
WindowConsistent ==
  \A n \in Node : \A e \in DOMAIN epoch_pool[n] :
    Start + 3 <= e /\ e <= now => {e - 1, e} \subseteq DOMAIN temporary_node_ids[n]

\* Two nodes that hold the same set of numbers at stage 1 vote for the same
\* hash (spec 4.4: the numbers are sorted, then encoded and hashed).
SameSetSameVote ==
  \A n, m \in Node : \A e \in DOMAIN votes[n] \cap DOMAIN votes[m] :
    Range(votes[n][e]) = Range(votes[m][e]) => votes[n][e] = votes[m][e]

\* A contribution a node made or acknowledged with status true is kept in
\* the epoch's random_numbers as long as the epoch is kept.
ContributionsKept ==
  \A n \in Node : \A c \in recorded[n] :
    c[1] \in DOMAIN epoch_pool[n] => c[2] \in Range(epoch_pool[n][c[1]].random_numbers)

\* Spec 3, invariant 3: once stage 2 has derived the permutation of an
\* epoch, the epoch's final_hash is the hash the permutation came from.
FinalHashKept ==
  \A n \in Node : \A e \in DOMAIN temporary_node_ids[n] \cap DOMAIN epoch_pool[n] :
    epoch_pool[n][e].final_hash = temporary_node_ids[n][e][1]

\* The epoch service never undoes a write: the initial and sync handlers
\* write back a snapshot of the epoch, and neither a number acknowledged
\* with status true nor the final hash stage 2 derived may be lost by it.
SnapshotWritesKept == ContributionsKept /\ FinalHashKept


=============================================================================
