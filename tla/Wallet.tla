------------------------------- MODULE Wallet -------------------------------
(***************************************************************************)
(* The wallet side of a transfer (cli/src/lib.rs, send_to_address_handler) *)
(* and the node query it starts from (jrpc get_address_utxos).             *)
(*                                                                         *)
(* The handler asks a node for the sender's UTXOs, walks the list it gets  *)
(* back adding values until they cover the amount, and builds a           *)
(* transaction spending the walked prefix: one output of the amount to    *)
(* the receiver and, unless the prefix adds up to the amount exactly, one  *)
(* output of the rest back to the sender.  Signing, hex and JSON are left  *)
(* out; values are integers, where the code sums f32 values.              *)
(*                                                                         *)
(* An item of the list is [op |-> outpoint, value |-> value].              *)
(***************************************************************************)
EXTENDS Integers, Sequences, SequencesExt

(* get_address_utxos over the node's UTXO map (outpoint -> [pk, value]):   *)
(* every UTXO of the key, in the iteration order of the hash map, which    *)
(* the code does not fix: every order is possible.                         *)
AddressUtxos(utxos, pk) ==
    LET mine == {o \in DOMAIN utxos : utxos[o].pk = pk}
    IN {[i \in DOMAIN s |-> [op |-> s[i], value |-> utxos[s[i]].value]] :
          s \in SetToSeqs(mine)}

(* The selection loop: stop at the first item once the running sum covers *)
(* the amount, otherwise add the item.                                     *)
RECURSIVE Walk(_, _, _, _)
Walk(items, amount, needed, chosen) ==
    IF items = <<>> \/ needed >= amount
      THEN [needed |-> needed, chosen |-> chosen]
      ELSE Walk(Tail(items), amount, needed + Head(items).value,
                Append(chosen, Head(items).op))

Select(items, amount) == Walk(items, amount, 0, <<>>)

ChangeSwapped(needed, amount) == amount - needed   \* fault: operands swapped
Change(needed, amount) == needed - amount

(* The rest of the handler: refuse when the walk ran out before covering *)
(* the amount, otherwise vin is the walked prefix and vout the payment     *)
(* plus, when the prefix overshoots, the change to the sender.             *)
SendToAddress(items, from, to, amount) ==
    LET r == Select(items, amount)
        pay == [pk |-> to, value |-> amount]
    IN IF r.needed < amount
         THEN [status |-> FALSE, vin |-> <<>>, vout |-> <<>>]
         ELSE [status |-> TRUE,
               vin |-> r.chosen,
               vout |-> IF r.needed = amount
                          THEN <<pay>>
                          ELSE <<pay, [pk |-> from, value |-> Change(r.needed, amount)]>>]
====
