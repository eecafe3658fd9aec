---------------------------- MODULE MCRequestMux ----------------------------
(* Three calls through one client to peer 2: two for the same transaction *)
(* nonce (a duplicate submission the leader handles twice), one for       *)
(* another nonce with two non-zero bytes.                                 *)
EXTENDS RequestMux, TLC

CONSTANTS c1, c2, c3

MCCaller == {c1, c2, c3}
MCNonce == (c1 :> 5) @@ (c2 :> 5) @@ (c3 :> 300)
====
