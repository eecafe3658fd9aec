-------------------------------- MODULE Join --------------------------------
(***************************************************************************)
(* How a concilium node obtains its id and its registry of peers.          *)
(*                                                                         *)
(* On start a node runs do_connect_to_network, retried every second until *)
(* it succeeds, before its own servers come up:                            *)
(*   1. ask get_id of every reachable bootstrap node, in BOOTSTRAP_NODES   *)
(*      order; a bootstrap node that gets no answer takes id 1;            *)
(*   2. take the first answer's id; the answers' BLS signatures must       *)
(*      aggregate to a valid signature over the node's record with it;     *)
(*   3. ask validate_id of every reachable bootstrap node, keep the        *)
(*      longest node list returned; all answerers must say yes;            *)
(*   4. call initial_connect on every listed node and register those that  *)
(*      say yes.                                                           *)
(* initial_connect on a node that does not know the caller checks the      *)
(* aggregate signature and spawns a task that, a second later, calls       *)
(* initial_connect back on the caller and registers it if that succeeds.   *)
(*                                                                         *)
(* A node's public key is the node itself.  An aggregate BLS signature is  *)
(* the record [signers, id]: it verifies against an aggregate public key  *)
(* exactly when the signers are the keys aggregated and the id is the one  *)
(* in the message.  Every other field of the message is fixed per node.    *)
(***************************************************************************)
EXTENDS Naturals, Sequences, FiniteSets, FiniteSetsExt, SequencesExt

CONSTANTS
    Node,          \* every node that may start, bootstrap nodes included
    BootstrapSeq,  \* BOOTSTRAP_NODES: a sequence of distinct nodes
    RestartNodes,  \* the nodes that may be restarted
    SequentialBoot, \* TRUE: a bootstrap node is started once those before it serve
    MaxRestarts    \* bound on restarts in a behaviour

BootstrapSet == Range(BootstrapSeq)

ASSUME BootstrapSet \subseteq Node /\ Len(BootstrapSeq) = Cardinality(BootstrapSet)

VARIABLES
    phase,      \* [Node -> {"off", "joining", "serving"}]
    id,         \* self_node id, 0 until set
    sig,        \* bootstrap_node_signature
    awaiting,   \* nodes_awaiting_confirmation: [Node -> [Node -> Nat]], 0 = absent
    active,     \* active_nodes by public key: [Node -> [Node -> Nat]], 0 = absent
    lastId,     \* last_node_id of the joiners' epoch in the epoch pool, 0 = no entry
    jc,         \* the local state of do_connect_to_network
    callbacks,  \* spawned connect-back tasks <<x, j, id>>: x will call j
    restarts

vars == <<phase, id, sig, awaiting, active, lastId, jc, callbacks, restarts>>

NoSig == [signers |-> {}, id |-> 0]      \* the [0; 96] initial signature
Absent == [k \in Node |-> 0]
Fresh == [pc |-> "get", pos |-> 1, resp |-> <<>>, nodes |-> Absent, ok |-> 0,
          todo |-> {}]

(* get_id hands out ids one above the highest it knows, from 2, and a     *)
(* bootstrap node with no answer takes 1: one id per node admitted.        *)
IdRange == 0..Cardinality(Node)

Known(f) == {k \in Node : f[k] # 0}

\* A bug in the key set: the server's own key is left out.
AvailableNoSelf(x) == BootstrapSet \cap Known(active[x])

(* The keys an aggregate signature is checked against on node x: its own *)
(* key if it is a bootstrap node, and every bootstrap node it has active.  *)
Available(x) == ({x} \cap BootstrapSet) \cup (BootstrapSet \cap Known(active[x]))

Verifies(s, keys, i) == keys # {} /\ s.signers = keys /\ s.id = i

\* Bugs in get_id: a retry is not given back its awaiting entry, or only
\* the joiner's own awaiting entry is consulted.
AssignedIdReissue(b, j) ==
    IF Known(awaiting[b]) # {}
      THEN Max({awaiting[b][k] : k \in Known(awaiting[b])}) + 1
      ELSE IF Known(active[b]) # {} THEN Max({active[b][k] : k \in Known(active[b])}) + 1
           ELSE 2
AssignedIdActiveOnly(b, j) ==
    IF awaiting[b][j] # 0 THEN awaiting[b][j]
    ELSE IF Known(active[b]) # {} THEN Max({active[b][k] : k \in Known(active[b])}) + 1
         ELSE 2

(* The id get_id hands to node j on bootstrap node b.                      *)
AssignedId(b, j) ==
    IF Known(awaiting[b]) # {}
      THEN IF awaiting[b][j] # 0 THEN awaiting[b][j]
           ELSE Max({awaiting[b][k] : k \in Known(awaiting[b])}) + 1
      ELSE IF Known(active[b]) # {}
             THEN Max({active[b][k] : k \in Known(active[b])}) + 1
             ELSE 2

Signers(j) == {r.b : r \in Range(jc[j].resp)}

(* The node list validate_id returns: the active nodes and the server.     *)
ListOf(b) == [k \in Node |-> IF k = b THEN id[b] ELSE active[b][k]]

Init ==
    /\ phase = [n \in Node |-> "off"]
    /\ id = [n \in Node |-> 0]
    /\ sig = [n \in Node |-> NoSig]
    /\ awaiting = [n \in Node |-> Absent]
    /\ active = [n \in Node |-> Absent]
    /\ lastId = [n \in Node |-> 0]
    /\ jc = [n \in Node |-> Fresh]
    /\ callbacks = {}
    /\ restarts = 0

(* The operator starts a node.  With SequentialBoot the bootstrap nodes   *)
(* are brought up one after another, in BOOTSTRAP_NODES order.             *)
Start(n) ==
    /\ phase[n] = "off"
    /\ SequentialBoot /\ n \in BootstrapSet =>
          \A i \in 1..Len(BootstrapSeq) :
              BootstrapSeq[i] = n => \A k \in 1..i - 1 : phase[BootstrapSeq[k]] = "serving"
    /\ phase' = [phase EXCEPT ![n] = "joining"]
    /\ UNCHANGED <<id, sig, awaiting, active, lastId, jc, callbacks, restarts>>

Retry(j) == jc' = [jc EXCEPT ![j] = Fresh]

(* do_connect_to_network, step 1: get_id on the next bootstrap node.  The *)
(* node skips itself and any node whose server is not up; get_id holds   *)
(* the awaiting write lock throughout, so it is one step.                *)
GetId(j) ==
    /\ phase[j] = "joining"
    /\ jc[j].pc = "get"
    /\ jc[j].pos <= Len(BootstrapSeq)
    /\ LET b == BootstrapSeq[jc[j].pos] IN
       \/ /\ b # j /\ phase[b] = "serving"
          /\ awaiting' = [awaiting EXCEPT ![b][j] = AssignedId(b, j)]
          /\ jc' = [jc EXCEPT ![j].pos = @ + 1,
                              ![j].resp = Append(@, [b |-> b, id |-> AssignedId(b, j)])]
       \/ /\ b = j \/ phase[b] # "serving"
          /\ jc' = [jc EXCEPT ![j].pos = @ + 1]
          /\ UNCHANGED awaiting
    /\ UNCHANGED <<phase, id, sig, active, lastId, callbacks, restarts>>

(* Step 2.  No answer: a bootstrap node takes id 1 and is done, any other *)
(* node fails and retries.  Otherwise the signatures, each over the record *)
(* with the id its signer assigned, must verify as one aggregate over the  *)
(* record with the first answer's id.                                      *)
GetIdDone(j) ==
    /\ phase[j] = "joining"
    /\ jc[j].pc = "get"
    /\ jc[j].pos > Len(BootstrapSeq)
    /\ \/ /\ jc[j].resp = <<>> /\ j \in BootstrapSet
          /\ id' = [id EXCEPT ![j] = 1]
          /\ sig' = [sig EXCEPT ![j] = [signers |-> {j}, id |-> 1]]
          /\ lastId' = [lastId EXCEPT ![j] = 1]
          /\ phase' = [phase EXCEPT ![j] = "serving"]
          /\ jc' = [jc EXCEPT ![j].pc = "done"]
       \/ /\ jc[j].resp = <<>> /\ j \notin BootstrapSet
          /\ Retry(j)
          /\ UNCHANGED <<phase, id, sig, lastId>>
       \/ /\ jc[j].resp # <<>>
          /\ IF \A r \in Range(jc[j].resp) : r.id = jc[j].resp[1].id
               THEN jc' = [jc EXCEPT ![j].pc = "validate", ![j].pos = 1]
               ELSE Retry(j)
          /\ UNCHANGED <<phase, id, sig, lastId>>
    /\ UNCHANGED <<awaiting, active, callbacks, restarts>>

(* Step 3: validate_id on the next bootstrap node b.  It says yes when b  *)
(* has j awaiting and the aggregate verifies against b's available keys; *)
(* its node list replaces j's when it is longer.                          *)
ValidateId(j) ==
    /\ phase[j] = "joining"
    /\ jc[j].pc = "validate"
    /\ jc[j].pos <= Len(BootstrapSeq)
    /\ LET b == BootstrapSeq[jc[j].pos]
           i == jc[j].resp[1].id
           yes == /\ awaiting[b][j] # 0
                  /\ Verifies([signers |-> Signers(j), id |-> i], Available(b), i)
       IN \/ /\ b # j /\ phase[b] = "serving"
             /\ jc' = [jc EXCEPT
                         ![j].pos = @ + 1,
                         ![j].ok = IF yes THEN @ + 1 ELSE @,
                         ![j].nodes = IF yes /\ Cardinality(Known(ListOf(b))) > Cardinality(Known(@))
                                        THEN ListOf(b) ELSE @]
          \/ /\ b = j \/ phase[b] # "serving"
             /\ jc' = [jc EXCEPT ![j].pos = @ + 1]
    /\ UNCHANGED <<phase, id, sig, awaiting, active, lastId, callbacks, restarts>>

(* Every node that answered get_id said yes: take the id and the          *)
(* aggregate, seed the epoch pool, and go on to connect.                   *)
ValidateDone(j) ==
    /\ phase[j] = "joining"
    /\ jc[j].pc = "validate"
    /\ jc[j].pos > Len(BootstrapSeq)
    /\ LET i == jc[j].resp[1].id IN
       IF jc[j].ok = Cardinality(Signers(j))
         THEN /\ id' = [id EXCEPT ![j] = i]
              /\ sig' = [sig EXCEPT ![j] = [signers |-> Signers(j), id |-> i]]
              /\ lastId' = [lastId EXCEPT ![j] = i]
              /\ jc' = [jc EXCEPT ![j].pc = "connect", ![j].todo = Known(jc[j].nodes)]
         ELSE /\ Retry(j)
              /\ UNCHANGED <<id, sig, lastId>>
    /\ UNCHANGED <<phase, awaiting, active, callbacks, restarts>>

(* initial_connect on node x from node c with id i and signature s: the   *)
(* answer, and the connect-back it spawns for a caller x does not know.   *)
Accepts(x, c, i, s) == active[x][c] # 0 \/ Verifies(s, Available(x), i)
Spawns(x, c, i, s) == IF active[x][c] = 0 /\ Verifies(s, Available(x), i)
                        THEN {<<x, c, i>>} ELSE {}

\* A bug in step 4: the listed node is registered under the caller's id.
ConnectOwnId(j, x) ==
    /\ phase[j] = "joining"
    /\ jc[j].pc = "connect"
    /\ x \in jc[j].todo
    /\ \/ /\ phase[x] = "serving"
          /\ callbacks' = callbacks \cup Spawns(x, j, id[j], sig[j])
          /\ active' = IF Accepts(x, j, id[j], sig[j])
                         THEN [active EXCEPT ![j][x] = id[j]] ELSE active
       \/ /\ phase[x] # "serving"
          /\ UNCHANGED <<active, callbacks>>
    /\ jc' = [jc EXCEPT ![j].todo = @ \ {x}]
    /\ UNCHANGED <<phase, id, sig, awaiting, lastId, restarts>>

(* Step 4: initial_connect on one listed node; register it on yes.        *)
Connect(j, x) ==
    /\ phase[j] = "joining"
    /\ jc[j].pc = "connect"
    /\ x \in jc[j].todo
    /\ \/ /\ phase[x] = "serving"
          /\ callbacks' = callbacks \cup Spawns(x, j, id[j], sig[j])
          /\ active' = IF Accepts(x, j, id[j], sig[j])
                         THEN [active EXCEPT ![j][x] = jc[j].nodes[x]] ELSE active
       \/ /\ phase[x] # "serving"
          /\ UNCHANGED <<active, callbacks>>
    /\ jc' = [jc EXCEPT ![j].todo = @ \ {x}]
    /\ UNCHANGED <<phase, id, sig, awaiting, lastId, restarts>>

(* do_connect_to_network returns Ok: the node starts its servers.         *)
ConnectDone(j) ==
    /\ phase[j] = "joining"
    /\ jc[j].pc = "connect"
    /\ jc[j].todo = {}
    /\ phase' = [phase EXCEPT ![j] = "serving"]
    /\ jc' = [jc EXCEPT ![j].pc = "done"]
    /\ UNCHANGED <<id, sig, awaiting, active, lastId, callbacks, restarts>>

(* The task initial_connect spawned on x: a second later it calls         *)
(* initial_connect on the new node j with x's own id and signature; on    *)
(* yes x registers j and raises last_node_id of the joiners' epoch.  If   *)
(* j's server is not up yet the call fails and the task ends.             *)
ConnectBack(c) ==
    /\ c \in callbacks
    /\ LET x == c[1]
           j == c[2]
           i == c[3]
       IN \/ /\ phase[j] = "serving"
             /\ callbacks' = (callbacks \ {c}) \cup Spawns(j, x, id[x], sig[x])
             /\ IF Accepts(j, x, id[x], sig[x])
                  THEN /\ active' = [active EXCEPT ![x][j] = i]
                       /\ lastId' = [lastId EXCEPT ![x] = IF @ < i THEN i ELSE @]
                  ELSE UNCHANGED <<active, lastId>>
          \/ /\ phase[j] # "serving"
             /\ callbacks' = callbacks \ {c}
             /\ UNCHANGED <<active, lastId>>
    /\ UNCHANGED <<phase, id, sig, awaiting, jc, restarts>>

(* A restart of node n: everything it holds is in memory and is lost,     *)
(* along with the connect-back tasks it spawned; its peers keep it in     *)
(* their registries.  The new process joins again.                        *)
Restart(n) ==
    /\ n \in RestartNodes
    /\ restarts < MaxRestarts
    /\ phase[n] # "off"
    /\ phase' = [phase EXCEPT ![n] = "joining"]
    /\ id' = [id EXCEPT ![n] = 0]
    /\ sig' = [sig EXCEPT ![n] = NoSig]
    /\ awaiting' = [awaiting EXCEPT ![n] = Absent]
    /\ active' = [active EXCEPT ![n] = Absent]
    /\ lastId' = [lastId EXCEPT ![n] = 0]
    /\ jc' = [jc EXCEPT ![n] = Fresh]
    /\ callbacks' = {c \in callbacks : c[1] # n}
    /\ restarts' = restarts + 1

Next ==
    \/ \E n \in Node : Start(n) \/ Restart(n) \/ GetId(n) \/ GetIdDone(n)
                       \/ ValidateId(n) \/ ValidateDone(n) \/ ConnectDone(n)
    \/ \E j, x \in Node : Connect(j, x)
    \/ \E c \in callbacks : ConnectBack(c)

(* The retry loop, the handlers and the spawned tasks all run when they  *)
(* can.  Bootstrap nodes are assumed to be started; other nodes may never *)
(* start, and restarts need not happen.                                   *)
Fairness ==
    /\ \A b \in BootstrapSet : WF_vars(Start(b))
    /\ \A n \in Node :
          /\ WF_vars(GetId(n)) /\ WF_vars(GetIdDone(n))
          /\ WF_vars(ValidateId(n)) /\ WF_vars(ValidateDone(n))
          /\ WF_vars(ConnectDone(n))
          /\ \A x \in Node : WF_vars(Connect(n, x))
    /\ \A c \in Node \X Node \X IdRange : WF_vars(ConnectBack(c))

Spec == Init /\ [][Next]_vars /\ Fairness


-----------------------------------------------------------------------------

(* The type of every variable; ids, awaiting entries and registry entries *)
(* stay within one id per node, as get_id's counters promise.               *)
TypeOK ==
    /\ phase \in [Node -> {"off", "joining", "serving"}]
    /\ id \in [Node -> IdRange]
    /\ awaiting \in [Node -> [Node -> IdRange]]
    /\ active \in [Node -> [Node -> IdRange]]
    /\ \A n \in Node : sig[n].signers \subseteq BootstrapSet
    /\ jc \in [Node -> [pc : {"get", "validate", "connect", "done"},
                        pos : 1..Len(BootstrapSeq) + 1,
                        resp : Seq([b : BootstrapSet, id : IdRange]),
                        nodes : [Node -> IdRange], ok : 0..Len(BootstrapSeq),
                        todo : SUBSET Node]]
    /\ lastId \in [Node -> IdRange]
    /\ callbacks \subseteq Node \X Node \X IdRange

(* No two nodes hold the same id: get_id hands out ids from the bootstrap *)
(* nodes' awaiting tables and registries, which only grow while they run. *)
UniqueIds ==
    \A n, m \in Node : n # m /\ id[n] # 0 /\ id[m] # 0 => id[n] # id[m]

(* A registry entry carries the id its node holds: the id a node is       *)
(* registered under comes from a node list or a connect-back request and   *)
(* is never refreshed.                                                     *)
RegistryTrue ==
    \A x, k \in Node : active[x][k] # 0 /\ id[k] # 0 => active[x][k] = id[k]

(* A node that has started eventually serves: the retry loop reaches an  *)
(* id every bootstrap node agrees on.                                    *)
JoinCompletes ==
    \A n \in Node : phase[n] = "joining" ~> phase[n] = "serving"

(* Once a node has registered a peer, the peer eventually registers it:   *)
(* initial_connect's connect-back closes the other half of the link.      *)
RegistryMutual ==
    \A x, k \in Node : active[x][k] # 0 ~> active[k][x] # 0

====
