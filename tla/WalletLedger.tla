---------------------------- MODULE WalletLedger ----------------------------
(***************************************************************************)
(* The wallet (Wallet) against the nodes of Ledger: whatever UTXO set a    *)
(* serving node holds when the wallet queries it, the transaction the     *)
(* wallet builds from the answer is one that node's UTXO check accepts.   *)
(***************************************************************************)
EXTENDS Ledger

CONSTANT Amounts   \* amounts a user may ask send_to_address to transfer

W == INSTANCE Wallet

UtxoMap(n) == [o \in utxos[n] |-> Vout[o[1]][o[2]]]

Funds(n, a) == SumOf({o \in utxos[n] : Owner(o) = a})

(* A user who asks node n to send an amount from key a, right after        *)
(* querying n, gets a transaction exactly when a's UTXOs at n cover the    *)
(* amount, and n's validate_utxo_exist_and_values accepts it then: the     *)
(* walk over the list, in any order the node's map returns it, ends on a   *)
(* prefix whose values the payment and the change add up to.               *)
WalletTxAccepted ==
    \A n \in Node, a \in Account \ {Mint}, to \in Account \ {Mint}, amt \in Amounts :
        phase[n] = "serving" =>
            \A items \in W!AddressUtxos(UtxoMap(n), a) :
                LET r == W!SendToAddress(items, a, to, amt)
                IN /\ r.status <=> amt <= Funds(n, a)
                   /\ r.status => ValidTx(r.vin, a, r.vout, utxos[n])
====
