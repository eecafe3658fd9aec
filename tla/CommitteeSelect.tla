--------------------------- MODULE CommitteeSelect ---------------------------
(***************************************************************************)
(* Committee selection of a node (src/transaction/src/lib.rs): the leader, *)
(* the accreditation council and the broadcast set of a transaction.       *)
(*                                                                         *)
(* Selection is a pure function of the node's view: its active-node        *)
(* registry (which never contains the node itself), the temporary maps of  *)
(* the transaction's epoch e and of e-1, and the seeds.                    *)
(* generate_random_number_by_seed(seed, to, how_many) returns the first    *)
(* how_many values of the seed's stream of distinct values in 1..to: the  *)
(* stream is represented by the order in which it yields 1..to (a          *)
(* permutation), so a draw of how_many is a prefix of that order, and a    *)
(* draw of more than `to` values never returns.                            *)
(*                                                                         *)
(* A session is one call with its inputs; one step performs the call.     *)
(***************************************************************************)
EXTENDS Integers, Sequences, FiniteSets, Functions

CONSTANTS
  Node,          \* node ids 1..last_node_id of epoch e
  Self,          \* the selecting node, absent from its own registry
  MinNnr,        \* lower bound of nnr (128)
  MaxBroadcast,  \* upper bound of the broadcast set (128)
  Sums,          \* sums of a transaction's outputs, in hundredths
  ActiveChoices, \* registries the node may hold (sets of peer ids)
  CurMaps,       \* temporary[e]: bijections 1..last_node_id -> Node
  PrevMaps,      \* temporary[e-1]: bijections 1..last_node_id(e-1) -> ids
  Orders         \* seed streams: orders in which a seed yields 1..last_node_id

ASSUME Self \in Node /\ Node = 1..Cardinality(Node)
ASSUME \A a \in ActiveChoices : a \subseteq Node \ {Self}

LastNodeId == Cardinality(Node)

VARIABLES session, result
vars == <<session, result>>

None == [status |-> "none"]

-----------------------------------------------------------------------------
\* generate_random_number_by_seed: the while loop stops once how_many
\* distinct values are drawn; with how_many > to it runs forever.
Draw(order, how_many) ==
  IF how_many > Len(order)
    THEN [ok |-> FALSE, ids |-> <<>>]
    ELSE [ok |-> TRUE, ids |-> SubSeq(order, 1, how_many)]

\* calculating_nnr: ceil(24 * NTP * sum / STAKED_PER_NODE), NTP = STAKED = 500.
CalcNnr(sum) == (24 * sum + 99) \div 100

\* Fault variant of Nmac: the transaction third subtracts one third only.
NmacOneThird(active, sum) ==
  LET raw == IF CalcNnr(sum) < MinNnr THEN MinNnr ELSE CalcNnr(sum)
      cap == Cardinality(active) + 1
      nnr == IF raw > cap THEN cap ELSE raw
      sec == nnr \div 3
  IN [nnr |-> nnr, prev |-> sec, cur |-> sec, trx |-> nnr - sec]

\* get_nmac: nnr at least MinNnr, at most the registry size plus self, in
\* thirds (before cycle, current cycle, transaction).
Nmac(active, sum) ==
  LET raw == IF CalcNnr(sum) < MinNnr THEN MinNnr ELSE CalcNnr(sum)
      cap == Cardinality(active) + 1
      nnr == IF raw > cap THEN cap ELSE raw
      sec == nnr \div 3
  IN [nnr |-> nnr, prev |-> sec, cur |-> sec, trx |-> nnr - 2 * sec]

\* Fault variant of Slice: drawn nodes are kept without the registry check.
SliceUnregistered(ids, tmp, active, blacklist) ==
  IF \E i \in Range(ids) : i \notin DOMAIN tmp
    THEN [status |-> "err", nodes |-> {}, seen |-> FALSE]
    ELSE [status |-> "ok", nodes |-> {tmp[i] : i \in Range(ids)} \ blacklist,
          seen |-> \E i \in Range(ids) : tmp[i] \notin active]

\* One pass over drawn ids: a missing id is "node_id not found"; a mapped
\* node in the registry and not blacklisted is kept; a mapped node missing
\* from the registry marks exist_self_on_consensus.
Slice(ids, tmp, active, blacklist) ==
  IF \E i \in Range(ids) : i \notin DOMAIN tmp
    THEN [status |-> "err", nodes |-> {}, seen |-> FALSE]
    ELSE [status |-> "ok",
          nodes |-> {tmp[i] : i \in Range(ids)} \cap (active \ blacklist),
          seen |-> \E i \in Range(ids) : tmp[i] \notin active]

\* Fault variant of Expand: the loop breaks after its first round.
ExpandOnce(order, tmp, active, blacklist, needed, how_many) ==
  LET d == Draw(order, how_many)
  IN IF ~d.ok THEN [status |-> "spin", nodes |-> {}, seen |-> FALSE]
     ELSE Slice(d.ids, tmp, active, blacklist)

\* The expanding loops: draw how_many, stop when exactly `needed` nodes are
\* collected, else draw one more.
RECURSIVE Expand(_, _, _, _, _, _)
Expand(order, tmp, active, blacklist, needed, how_many) ==
  LET d == Draw(order, how_many)
      s == Slice(d.ids, tmp, active, blacklist)
  IN IF ~d.ok THEN [status |-> "spin", nodes |-> {}, seen |-> FALSE]
     ELSE IF s.status = "err" \/ Cardinality(s.nodes) = needed THEN s
     ELSE Expand(order, tmp, active, blacklist, needed, how_many + 1)

\* get_accreditation_council_node: current-cycle slice from the from-key
\* seed over temporary[e]; before-cycle slice from the same seed over
\* temporary[e-1] without the current slice; transaction slice from the
\* transaction seed over temporary[e] without both, one member fewer when
\* a drawn node was missing from the registry.
Council(in) ==
  LET m == Nmac(in.active, in.sum)
      cur == Slice(Draw(in.draw_pub, m.cur).ids, in.tmp_cur, in.active, {})
      prev == Expand(in.draw_pub, in.tmp_prev, in.active, cur.nodes, m.prev, m.prev)
      self_seen == cur.seen \/ prev.seen
      needed == m.trx - (IF self_seen THEN 1 ELSE 0)
      trx == Expand(in.draw_tx, in.tmp_cur, in.active, cur.nodes \cup prev.nodes, needed, needed)
      fail(s) == [status |-> s.status, cur |-> {}, prev |-> {}, trx |-> {}, self_seen |-> FALSE]
  IN IF cur.status # "ok" THEN fail(cur)
     ELSE IF prev.status # "ok" THEN fail(prev)
     ELSE [status |-> trx.status, cur |-> cur.nodes, prev |-> prev.nodes,
           trx |-> trx.nodes, self_seen |-> self_seen]

\* get_broadcast_node: ceil(0.10 * nnr) nodes, at most MaxBroadcast, drawn
\* expanding from the BroadcastTransactionTemp seed, no exclusion.
Broadcast(in) ==
  LET nnr == Nmac(in.active, in.sum).nnr
      k == IF (nnr + 9) \div 10 > MaxBroadcast THEN MaxBroadcast ELSE (nnr + 9) \div 10
      b == Expand(in.draw_bc, in.tmp_cur, in.active, {}, k, k)
  IN [status |-> b.status, nodes |-> b.nodes]

\* get_leader: one draw from the from-address seed, mapped through
\* temporary[e]; a node missing from the registry is the node itself (None).
Leader(in) ==
  LET id == in.tmp_cur[in.draw_from[1]]
  IN [status |-> "ok", leader |-> IF id \in in.active THEN id ELSE Self]

-----------------------------------------------------------------------------
CouncilInputs ==
  [kind : {"council"}, active : ActiveChoices, sum : Sums, tmp_cur : CurMaps,
   tmp_prev : PrevMaps, draw_pub : Orders, draw_tx : Orders]

BroadcastInputs ==
  [kind : {"broadcast"}, active : ActiveChoices, sum : Sums, tmp_cur : CurMaps,
   draw_bc : Orders]

LeaderInputs ==
  [kind : {"leader"}, active : ActiveChoices, tmp_cur : CurMaps, draw_from : Orders]

Init ==
  /\ session \in CouncilInputs \cup BroadcastInputs \cup LeaderInputs
  /\ result = None

SelectCouncil ==
  /\ session.kind = "council" /\ result = None
  /\ result' = Council(session)
  /\ UNCHANGED session

SelectBroadcast ==
  /\ session.kind = "broadcast" /\ result = None
  /\ result' = Broadcast(session)
  /\ UNCHANGED session

SelectLeader ==
  /\ session.kind = "leader" /\ result = None
  /\ result' = Leader(session)
  /\ UNCHANGED session

Next == SelectCouncil \/ SelectBroadcast \/ SelectLeader

Spec == Init /\ [][Next]_vars

-----------------------------------------------------------------------------
(* Properties                                                              *)

CouncilResults(in) ==
  [status : {"ok", "spin", "err"}, cur : SUBSET in.active, prev : SUBSET in.active,
   trx : SUBSET in.active, self_seen : BOOLEAN]

TypeOK ==
  /\ session \in CouncilInputs \cup BroadcastInputs \cup LeaderInputs
  /\ result \in {None} \cup CouncilResults(session)
                \cup [status : {"ok", "spin", "err"}, nodes : SUBSET Node]
                \cup [status : {"ok"}, leader : Node]

IsCouncil == session.kind = "council" /\ result # None

\* Reference (spec 4.5): the registry members among the draws, in draw order,
\* that are not excluded.
Candidates(order, tmp, active, excl) ==
  SelectSeq([i \in 1..Len(order) |-> tmp[order[i]]], LAMBDA x : x \in active \ excl)

FirstOf(seq, k) == Range(SubSeq(seq, 1, k))

\* The expanding loops compute the spec's selection: the current slice is
\* the registry members among the first k_cur draws, the previous and the
\* transaction slices the first k_prev and k_tx(-1) candidates in draw
\* order, and a loop spins exactly when there are fewer candidates.
CouncilIsFirstFit ==
  IsCouncil /\ result.status # "err" =>
    LET in == session
        m == Nmac(in.active, in.sum)
        cur == {in.tmp_cur[in.draw_pub[i]] : i \in 1..m.cur} \cap in.active
        pc == Candidates(in.draw_pub, in.tmp_prev, in.active, cur)
        prev == FirstOf(pc, m.prev)
        needed == m.trx - (IF result.self_seen THEN 1 ELSE 0)
        tc == Candidates(in.draw_tx, in.tmp_cur, in.active, cur \cup prev)
    IN IF Len(pc) >= m.prev /\ Len(tc) >= needed
         THEN result.status = "ok" /\ result.cur = cur /\ result.prev = prev
              /\ result.trx = FirstOf(tc, needed)
         ELSE result.status = "spin"

\* With more registered peers than nnr, council selection returns (all the
\* ids of temporary[e-1] are known).
TerminatesWhenFeasible ==
  IsCouncil /\ Nmac(session.active, session.sum).nnr <= Cardinality(session.active)
           /\ DOMAIN session.tmp_prev = 1..LastNodeId
    => result.status = "ok"

\* Council selection always returns (spec 4.5 names only StaleEpoch as a
\* failure; a transaction's leader must not hang in the selector).
CouncilTerminates == IsCouncil => result.status # "spin"

\* With temporary[e] and temporary[e-1] both present, selection never fails
\* with "node_id not found".
CouncilNoLookupError == IsCouncil => result.status # "err"
=============================================================================
