------------------------------ MODULE MCReducer -------------------------------
(***************************************************************************)
(* Small universes of transactions for Reducer.  Transaction ids are       *)
(* numbers: 1 is the configured INIT, 100 pays the wallets before it.  The *)
(* parties hold keys 1, 2 and 3.  A carrier holds 20 and a fee is 1 or 2.  *)
(***************************************************************************)
EXTENDS Reducer

Wallet(key, value) == [value |-> value, script_pubkey |-> p2wpkh_script(key)]
Carrier(a, b) == [value |-> 20, script_pubkey |-> carrier_script(<<a, b>>)]

Good(op, seq) ==
    [parses |-> TRUE, version_ok |-> TRUE, network_ok |-> TRUE, opcode |-> op,
     namespace_ok |-> TRUE, fields_ok |-> TRUE, sequence |-> seq, commitment |-> 1,
     h_open |-> 0, h_close |-> 0]
Mark0(m) == [value |-> 0, script_pubkey |-> marker_script(m)]

Spend(prevout, sequence, witness) ==
    [prevout |-> prevout, sequence |-> sequence, witness |-> witness,
     signatures_valid |-> TRUE]
Wit(prevout, key) == Spend(prevout, "rbf", <<"p2wpkh", key>>)
Two(prevout, sequence, a, b) == Spend(prevout, sequence, <<"carrier", a, b>>)

Tx(txid, inputs, outputs) ==
    [txid |-> txid, header_ok |-> TRUE, inputs |-> inputs, outputs |-> outputs]

\* Wallet outputs <<100, n>> of key k hold 15; <<100, 9>> is a carrier-shaped
\* output no object owns.
MCFunding ==
    [p \in {<<100, n>> : n \in 0..9} |->
        LET out == IF p[2] = 9 THEN Carrier(1, 2) ELSE Wallet((p[2] % 3) + 1, 15)
        IN  [value |-> out.value, script_pubkey |-> out.script_pubkey, height |-> 0]]

\* h_open 3 and h_close 4: valid with INIT_LEAD 1 at heights 1 and 2 only.
InitTx ==
    Tx(1, <<Spend(<<100, 0>>, "final", <<"p2wpkh", 1>>)>>,
       <<Mark0([Good("Init", 0) EXCEPT !.h_open = 3, !.h_close = 4]), Wallet(1, 14)>>)

CreateTx(txid, in0, in1) ==
    Tx(txid, <<Wit(in0, 1), Wit(in1, 2)>>,
       <<Mark0(Good("Create", 0)), Carrier(1, 2), Wallet(1, 4), Wallet(2, 5)>>)

MarkTx(txid, carrier, seq, wallet) ==
    Tx(txid, <<Two(carrier, "rbf", 1, 2), Wit(wallet, 1)>>,
       <<Mark0(Good("Mark", seq)), Carrier(1, 2), Wallet(1, 14)>>)

\* Keys 1, 2 to keys 2, 3.
RotateTx(txid, carrier, seq, w0, w1) ==
    Tx(txid, <<Two(carrier, "rbf", 1, 2), Wit(w0, 2), Wit(w1, 3)>>,
       <<Mark0(Good("Rotate", seq)), Carrier(2, 3), Wallet(2, 14), Wallet(3, 14)>>)

CloseTx(txid, carrier, seq, a, b) ==
    Tx(txid, <<Two(carrier, "rbf", a, b)>>,
       <<Mark0(Good("Close", seq)), Wallet(a, 9), Wallet(b, 9)>>)

RefundTx(txid, carrier, a, b) ==
    Tx(txid, <<Two(carrier, "refund", a, b)>>, <<Wallet(a, 9), Wallet(b, 9)>>)

-----------------------------------------------------------------------------
(* One object through every operation; all spends of one carrier compete.  With *)
(* U32_MAX = 3 the fourth operation of an object overflows its sequence.        *)

\* h_open 2 and h_close 3: valid with INIT_LEAD 1 at height 1 only.
EarlyInitTx ==
    [InitTx EXCEPT !.outputs[1] = Mark0([Good("Init", 0) EXCEPT !.h_open = 2, !.h_close = 3])]

LifecycleTxs ==
    {EarlyInitTx,
     CreateTx(2, <<100, 3>>, <<100, 1>>),
     MarkTx(3, <<2, 1>>, 1, <<100, 6>>),
     RotateTx(4, <<3, 1>>, 2, <<100, 4>>, <<100, 2>>),
     CloseTx(5, <<4, 1>>, 3, 2, 3),
     \* refunds of the first and of the second carrier
     RefundTx(6, <<2, 1>>, 1, 2),
     RefundTx(7, <<3, 1>>, 1, 2),
     \* repeats sequence 1
     [MarkTx(8, <<3, 1>>, 1, <<3, 2>>) EXCEPT !.outputs[3] = Wallet(1, 13)],
     \* a MARK at the last sequence number, then CLOSEs past it and around it
     Tx(9, <<Two(<<4, 1>>, "rbf", 2, 3), Wit(<<4, 2>>, 2)>>,
        <<Mark0(Good("Mark", 3)), Carrier(2, 3), Wallet(2, 13)>>),
     CloseTx(10, <<9, 1>>, 4, 2, 3),
     CloseTx(11, <<9, 1>>, 0, 2, 3)}

-----------------------------------------------------------------------------
(* Two objects, and transactions that touch both or neither. *)

PairTxs ==
    {InitTx,
     CreateTx(2, <<100, 3>>, <<100, 1>>),
     CreateTx(3, <<100, 6>>, <<100, 4>>),
     \* MARKs the first object and sends its carrier to the wrong keys
     [MarkTx(4, <<2, 1>>, 1, <<2, 2>>) EXCEPT !.outputs[2] = Carrier(1, 3),
                                              !.outputs[3] = Wallet(1, 3)],
     \* spends both carriers, unmarked and with one marker
     Tx(5, <<Two(<<2, 1>>, "rbf", 1, 2), Two(<<3, 1>>, "rbf", 1, 2)>>, <<Wallet(1, 39)>>),
     Tx(6, <<Two(<<3, 1>>, "rbf", 1, 2), Two(<<2, 1>>, "rbf", 1, 2)>>,
        <<Mark0(Good("Close", 1)), Wallet(1, 19), Wallet(2, 19)>>),
     \* two markers on one carrier
     Tx(7, <<Two(<<3, 1>>, "rbf", 1, 2)>>,
        <<Wallet(1, 9), Mark0(Good("Close", 1)), Mark0(Good("Mark", 1))>>),
     \* a MARK of a carrier-shaped output that no object owns
     [MarkTx(8, <<100, 9>>, 1, <<3, 2>>) EXCEPT !.outputs[3] = Wallet(1, 3)],
     \* a coinbase with a marker
     Tx(9, <<Spend(ZERO_OUTPOINT, "final", <<"none">>)>>, <<Wallet(3, 50), Mark0(Good("Create", 0))>>)}
===============================================================================
