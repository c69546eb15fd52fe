-------------------------------- MODULE Tandem --------------------------------
(***************************************************************************)
(* The protocol data of tandem-core (types.rs, marker.rs): keys, scripts,  *)
(* inputs as the verifier resolves them, marker fields and object records. *)
(*                                                                         *)
(* Data is abstracted to what the reducer tells apart.  A hash is the term *)
(* it commits to, so hashes never collide.  A script or a witness is a     *)
(* tagged tuple.  A parsed payload is a record of the facts its bytes are  *)
(* tested for.  None is a distinguished value: 0 for a key, <<>> for a key *)
(* pair, NoHeight for a height.                                            *)
(***************************************************************************)
EXTENDS Integers, Sequences, FiniteSets

CONSTANTS
    INIT_TXID,        \* binding.init_txid: the configured INIT transaction
    CARRIER_VALUE,    \* value of every carrier output
    REFUND_DELAY,     \* blocks before an unmarked refund is mature
    FOUNDING_WINDOW,  \* h_close - h_open
    INIT_LEAD,        \* blocks between INIT and h_open, at least
    CHANGE_FLOOR,     \* smallest change output
    U32_MAX           \* largest u32: bounds state_seq, h_open and h_close

ASSUME ParameterAssumption ==
    /\ INIT_TXID \in Nat \ {0}
    /\ CARRIER_VALUE \in Nat \ {0}
    /\ REFUND_DELAY \in Nat
    /\ FOUNDING_WINDOW \in Nat
    /\ INIT_LEAD \in Nat \ {0}
    /\ CHANGE_FLOOR \in Nat
    /\ U32_MAX \in Nat

-----------------------------------------------------------------------------
(* Outpoints, keys and scripts. *)

Txid == Nat
OutPoint == Nat \X Nat

ZERO == 0                       \* Hash32::ZERO
ZERO_OUTPOINT == <<0, 0>>       \* OutPointRef::ZERO, also the coinbase prevout
NoHeight == -1                  \* prevout_height: None

\* The successor carrier of a CREATE, MARK or ROTATE is always vout 1.
successor(txid) == <<txid, 1>>

\* SHA256 over the namespace and the CREATE outpoint: the CREATE txid names it.
object_key(create_txid) == create_txid

ZERO_KEY == 0
NoKeys == <<>>

is_valid(key) == key # ZERO_KEY

checked(key0, key1) ==
    IF is_valid(key0) /\ is_valid(key1) /\ key0 < key1
    THEN <<key0, key1>> ELSE NoKeys

contains(keys, key) == key = keys[1] \/ key = keys[2]

p2wpkh_script(key) == <<"p2wpkh", key>>
carrier_script(keys) == <<"carrier", keys[1], keys[2]>>
marker_script(m) == <<"marker", m>>

\* An OP_RETURN output, whether or not it is a marker candidate.
is_op_return(script) == script[1] \in {"op_return", "marker"}

-----------------------------------------------------------------------------
(* Inputs as resolve_transaction presents them:                            *)
(* [prevout, sequence, witness, signatures_valid, prevout_value,           *)
(*  prevout_script, prevout_height].  A witness is the shape it reveals:   *)
(* <<"p2wpkh", key>>, <<"carrier", key0, key1>> or <<"none">>.             *)

p2wpkh_revealed(in) ==
    in.witness[1] = "p2wpkh" /\ in.prevout_script[1] = "p2wpkh"

p2wpkh_key(in) ==
    IF /\ p2wpkh_revealed(in)
       /\ is_valid(in.witness[2])
       /\ p2wpkh_script(in.witness[2]) = in.prevout_script
    THEN in.witness[2] ELSE ZERO_KEY

carrier_revealed(in) ==
    in.witness[1] = "carrier" /\ in.prevout_script[1] = "carrier"

carrier_keys(in) ==
    IF /\ carrier_revealed(in)
       /\ checked(in.witness[2], in.witness[3]) # NoKeys
       /\ carrier_script(checked(in.witness[2], in.witness[3])) = in.prevout_script
    THEN checked(in.witness[2], in.witness[3]) ELSE NoKeys

\* Fault: an output of the same block counts as confirmed earlier.
has_confirmation(in, height) ==
    in.prevout_height # NoHeight /\ in.prevout_height <= height

has_earlier_confirmation(in, height) ==
    in.prevout_height # NoHeight /\ in.prevout_height < height

-----------------------------------------------------------------------------
(* Marker candidates.  The fields of a marker m are the tests its bytes    *)
(* undergo: parses (MarkerCandidate::parse succeeds), version_ok,          *)
(* network_ok, namespace_ok, fields_ok (fixed and reserved bytes), and the *)
(* values opcode, sequence, commitment, h_open and h_close.                *)

Opcode == {"Init", "Create", "Mark", "Rotate", "Close"}

\* A foreign INIT (another deployment's) is not a candidate at all.
marker_candidates(tx) ==
    {i \in DOMAIN tx.outputs :
        /\ tx.outputs[i].script_pubkey[1] = "marker"
        /\ ~(tx.outputs[i].script_pubkey[2].opcode = "Init" /\ tx.txid # INIT_TXID)}

marker_at(tx, i) == tx.outputs[i].script_pubkey[2]

\* Vec index to u32 vout.
vout(i) == i - 1

attempted_event_type(m) ==
    IF m.version_ok /\ m.opcode \in Opcode THEN m.opcode ELSE "Invalid"

has_other_op_return(tx) ==
    \E i \in DOMAIN tx.outputs : i # 1 /\ is_op_return(tx.outputs[i].script_pubkey)

-----------------------------------------------------------------------------
(* Objects and the chain state they live in. *)

TerminalStatus == {"Closed", "Refunded", "ExitedNoncanonical"}

AwaitingInit == [state |-> "AwaitingInit"]
ActiveProtocol(init_height, open, close) ==
    [state |-> "Active", init_height |-> init_height, h_open |-> open, h_close |-> close]
FailedInit(reason, init_height) ==
    [state |-> "FailedInit", reason |-> reason, init_height |-> init_height]

EmptyMap == [x \in {} |-> x]

\* BTreeMap::insert and BTreeMap::remove of a set of keys.
MapInsert(map, key, value) ==
    [x \in DOMAIN map \cup {key} |-> IF x = key THEN value ELSE map[x]]
MapRemove(map, keys) == [x \in DOMAIN map \ keys |-> map[x]]

\* ChainState::new.  chained_root starts as the pre-INIT empty root.
NewChainState ==
    [protocol_status |-> AwaitingInit, tip_height |-> NoHeight, tip_hash |-> <<>>,
     chained_root |-> <<"STATE-EMPTY">>, objects |-> EmptyMap, active |-> EmptyMap]

counters(st) ==
    [founding_created |-> Cardinality({k \in DOMAIN st.objects : st.objects[k].founding}),
     all_objects |-> Cardinality(DOMAIN st.objects),
     active_objects |->
        Cardinality({k \in DOMAIN st.objects : st.objects[k].status = "Active"})]

\* The roots commit to their inputs (roots.rs); a chained root also to its
\* predecessor.
block_root(previous, hash, height, events, objects, count) ==
    <<previous, hash, height, events, objects, count>>
===============================================================================
