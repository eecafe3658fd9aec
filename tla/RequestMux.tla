----------------------------- MODULE RequestMux -----------------------------
(***************************************************************************)
(* The response multiplexer of the transaction client (rpc/src/transaction *)
(* /client.rs), for one kind of request over one connection to one peer.  *)
(*                                                                         *)
(* connect opens a bidirectional gRPC stream per kind and spawns a         *)
(* receiver task per stream.  A request (X_request) builds a 16-byte id    *)
(* from the destination's node_id, the transaction nonce and a random u32, *)
(* inserts a oneshot sender under that id into the kind's response map,    *)
(* and pushes the request on the stream.  The peer's stream task serves   *)
(* one request at a time and echoes the id in its response; the receiver  *)
(* task removes the sender under that id and hands it the response, or    *)
(* drops the response when no sender is there.  Concurrent callers share   *)
(* the map, the stream and the receiver.                                  *)
(*                                                                         *)
(* The four kinds (leader, accreditation council, broadcast, save) are     *)
(* four copies of the same code; the module names the council one.        *)
(***************************************************************************)
EXTENDS Integers, Sequences, Functions, TLC

CONSTANTS
    Caller,           \* concurrent calls made through this client
    Dst,              \* node_id of the destination peer (a u32)
    Nonce,            \* [Caller -> Nat]: the nonce of the call's transaction
    Rand,             \* the values random::<u32>() may return
    RandomsDistinct   \* TRUE: calls with one nonce draw different randoms

VARIABLES
    pc,       \* pc[c]: "idle", "send" (sender inserted), "wait", "done"
    rnd,      \* rnd[c]: the random u32 of call c
    result,   \* result[c]: what c's receiver got: "none", "err", or the
              \*   response, named by the caller whose request it answers
    smap,     \* the response map: request id -> the caller owning the sender
    out,      \* requests on the stream, oldest first
    inb,      \* responses on the stream, oldest first
    up,       \* the gRPC stream is alive
    served    \* history: the callers whose request the peer has served

vars == <<pc, rnd, result, smap, out, inb, up, served>>

(* u32/u64::to_le_bytes: the k low bytes of x, least significant first.    *)
RECURSIVE LeBytes(_, _)
LeBytes(x, k) == IF k = 0 THEN <<>> ELSE <<x % 256>> \o LeBytes(x \div 256, k - 1)

StoreNonceU32(node_id, nonce, random_number) ==   \* fault: nonce as u32
    LeBytes(node_id, 4) \o LeBytes(nonce, 4) \o LeBytes(random_number, 4)

StoreNoRandom(node_id, nonce, random_number) ==   \* fault: random left out
    LeBytes(node_id, 4) \o LeBytes(nonce, 8) \o LeBytes(0, 4)

(* store_u32_pair: bytes 0..3 node_id, 4..11 nonce, 12..15 random.       *)
StoreU32Pair(node_id, nonce, random_number) ==
    LeBytes(node_id, 4) \o LeBytes(nonce, 8) \o LeBytes(random_number, 4)

RequestId(c) == StoreU32Pair(Dst, Nonce[c], rnd[c])

(* The peer echoes data.request_id in every response, success or failure. *)
EchoEmpty(req) == <<>>   \* fault: the fallback response with Vec::new()
EchoId(req) == req.id

Init ==
    /\ pc = [c \in Caller |-> "idle"]
    /\ rnd = [c \in Caller |-> CHOOSE r \in Rand : TRUE]
    /\ result = [c \in Caller |-> "none"]
    /\ smap = <<>>
    /\ out = <<>>
    /\ inb = <<>>
    /\ up = TRUE
    /\ served = {}

(* The oneshot channel, the id, and the insert under the write lock.  An  *)
(* insert under an id already present drops the sender it replaces, so    *)
(* the receiver of that earlier call resolves to an error.                *)
Register(c, r) ==
    /\ pc[c] = "idle"
    /\ RandomsDistinct =>
         \A d \in Caller \ {c} : pc[d] # "idle" /\ Nonce[d] = Nonce[c] => rnd[d] # r
    /\ LET id == StoreU32Pair(Dst, Nonce[c], r)
       IN /\ result' = IF id \in DOMAIN smap
                         THEN [result EXCEPT ![smap[id]] = "err"]
                         ELSE result
          /\ smap' = (id :> c) @@ smap
    /\ pc' = [pc EXCEPT ![c] = "send"]
    /\ rnd' = [rnd EXCEPT ![c] = r]
    /\ UNCHANGED <<out, inb, up, served>>

(* tx.send(...).await?: on a live stream the request is queued.  Once the *)
(* connection is gone the send either fails, and the call returns the     *)
(* error with its sender left in the map, or lands in a channel nobody    *)
(* reads any more, and the call returns a receiver that never resolves.   *)
Send(c) ==
    /\ pc[c] = "send"
    /\ \/ /\ up
          /\ out' = Append(out, [id |-> RequestId(c), from |-> c])
          /\ pc' = [pc EXCEPT ![c] = "wait"]
       \/ /\ ~up
          /\ pc' = [pc EXCEPT ![c] = "done"]
          /\ UNCHANGED out
       \/ /\ ~up
          /\ pc' = [pc EXCEPT ![c] = "wait"]
          /\ UNCHANGED out
    /\ UNCHANGED <<rnd, result, smap, inb, up, served>>

(* The peer's stream task (accreditation_council on the server): take the *)
(* next request, handle it, send one response carrying its id.            *)
Serve ==
    /\ up
    /\ out # <<>>
    /\ inb' = Append(inb, [id |-> EchoId(Head(out)), from |-> Head(out).from])
    /\ out' = Tail(out)
    /\ served' = served \cup {Head(out).from}
    /\ UNCHANGED <<pc, rnd, result, smap, up>>

ReceiveKeepEntry ==   \* fault: the sender is read with get, not removed
    /\ up
    /\ inb # <<>>
    /\ LET m == Head(inb)
       IN IF Len(m.id) = 16 /\ m.id \in DOMAIN smap
            THEN /\ result' = [result EXCEPT ![smap[m.id]] = m.from]
                 /\ UNCHANGED smap
            ELSE UNCHANGED <<result, smap>>
    /\ inb' = Tail(inb)
    /\ UNCHANGED <<pc, rnd, out, up, served>>

(* One iteration of the receiver task: an id that is not 16 bytes is      *)
(* skipped; otherwise remove the sender under the id and send the          *)
(* response on it, or print "not found" and drop the response.            *)
Receive ==
    /\ up
    /\ inb # <<>>
    /\ LET m == Head(inb)
       IN IF Len(m.id) = 16 /\ m.id \in DOMAIN smap
            THEN /\ result' = [result EXCEPT ![smap[m.id]] = m.from]
                 /\ smap' = [i \in DOMAIN smap \ {m.id} |-> smap[i]]
            ELSE UNCHANGED <<result, smap>>
    /\ inb' = Tail(inb)
    /\ UNCHANGED <<pc, rnd, out, up, served>>

(* The connection dies (the peer restarts): stream.next() returns None,   *)
(* the receiver task ends, whatever was in flight is lost.  The map is    *)
(* left as it is, so no waiting receiver is ever resolved.                *)
StreamDown ==
    /\ up
    /\ up' = FALSE
    /\ out' = <<>>
    /\ inb' = <<>>
    /\ UNCHANGED <<pc, rnd, result, smap, served>>

Next ==
    \/ \E c \in Caller : Send(c) \/ \E r \in Rand : Register(c, r)
    \/ Serve \/ Receive \/ StreamDown

(* Tokio runs every ready task; callers are free not to call, and the     *)
(* connection is free to stay up.                                         *)
Fairness ==
    /\ \A c \in Caller : WF_vars(Send(c))
    /\ WF_vars(Serve)
    /\ WF_vars(Receive)

Spec == Init /\ [][Next]_vars /\ Fairness

-----------------------------------------------------------------------------
Ended(c) == pc[c] = "done" \/ (pc[c] \in {"send", "wait"} /\ result[c] # "none")

TypeOK ==
    /\ pc \in [Caller -> {"idle", "send", "wait", "done"}]
    /\ rnd \in [Caller -> Rand]
    /\ result \in [Caller -> Caller \cup {"none", "err"}]
    /\ Range(smap) \subseteq Caller
    /\ \A id \in DOMAIN smap : Len(id) = 16 /\ Range(id) \subseteq 0..255
    /\ up \in BOOLEAN
    /\ served \subseteq Caller

(* The multiplexer implements a plain call: each call ends once, with the *)
(* answer to its own request (never one meant for a concurrent call that  *)
(* shares the map) or with an error, and only after the peer served it.   *)
Abs == INSTANCE RpcCall WITH
    state <- [c \in Caller |-> IF pc[c] = "idle" THEN "idle"
                               ELSE IF Ended(c) THEN "ended" ELSE "pending"],
    ans <- [c \in Caller |-> IF pc[c] = "done" THEN "err" ELSE result[c]],
    served <- served

MuxImplementsCall == Abs!Spec

(* The response map holds a sender for every call still waiting, under    *)
(* that call's id, and while the connection is up it holds nothing else:  *)
(* the receiver task removes a sender as it resolves it.  The entries a   *)
(* failed send leaves behind (client.rs:228) can only appear once the     *)
(* connection is gone, and then they stay for the life of the client.     *)
MapHoldsPending ==
    /\ \A c \in Caller :
         pc[c] \in {"send", "wait"} /\ result[c] = "none"
           => RequestId(c) \in DOMAIN smap /\ smap[RequestId(c)] = c
    /\ up => \A id \in DOMAIN smap :
                pc[smap[id]] \in {"send", "wait"} /\ result[smap[id]] = "none"

(* While the connection stays up, every call that was sent ends: the       *)
(* receiver task finds its sender under the echoed id and resolves it.    *)
EveryCallEndsWhileUp ==
    \A c \in Caller : pc[c] = "wait" ~> (Ended(c) \/ ~up)
====
