------------------------------- MODULE RpcCall -------------------------------
(***************************************************************************)
(* What a request/response call promises its caller, whatever carries it:  *)
(* a call that has begun ends at most once, either with the answer the    *)
(* server gave to this very request or with an error, and it is answered   *)
(* only after the server has served it.  Nothing here says that a call     *)
(* ends: that is a liveness property stated apart, since the transport     *)
(* may lose the stream.                                                    *)
(***************************************************************************)
CONSTANT Caller

NoAnswer == "none"
Err == "err"

VARIABLES
    state,    \* state[c]: "idle", "pending" or "ended"
    ans,      \* ans[c]: NoAnswer, Err, or the caller whose request was answered
    served    \* the callers whose request the server has handled

vars == <<state, ans, served>>

Init ==
    /\ state = [c \in Caller |-> "idle"]
    /\ ans = [c \in Caller |-> NoAnswer]
    /\ served = {}

Begin(c) ==
    /\ state[c] = "idle"
    /\ state' = [state EXCEPT ![c] = "pending"]
    /\ UNCHANGED <<ans, served>>

Serve(c) ==
    /\ state[c] # "idle"
    /\ c \notin served
    /\ served' = served \cup {c}
    /\ UNCHANGED <<state, ans>>

Answer(c) ==
    /\ state[c] = "pending"
    /\ c \in served
    /\ state' = [state EXCEPT ![c] = "ended"]
    /\ ans' = [ans EXCEPT ![c] = c]
    /\ UNCHANGED served

Fail(c) ==
    /\ state[c] = "pending"
    /\ state' = [state EXCEPT ![c] = "ended"]
    /\ ans' = [ans EXCEPT ![c] = Err]
    /\ UNCHANGED served

Next == \E c \in Caller : Begin(c) \/ Serve(c) \/ Answer(c) \/ Fail(c)

Spec == Init /\ [][Next]_vars

TypeOK ==
    /\ state \in [Caller -> {"idle", "pending", "ended"}]
    /\ ans \in [Caller -> Caller \cup {NoAnswer, Err}]
    /\ served \subseteq Caller
====
