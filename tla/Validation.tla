------------------------------ MODULE Validation ------------------------------
(***************************************************************************)
(* The validators of tandem-core (reducer.rs).  Each returns the reason of *)
(* its first failing check, in the code's order, or "Valid".               *)
(*                                                                         *)
(* C is the set of input positions that spend an active carrier, with at   *)
(* most one element; C = {} is the code's `carrier: None`.  A checked_sub  *)
(* that must leave a positive fee is a comparison.                         *)
(***************************************************************************)
EXTENDS Tandem

AllRbf(tx) == \A i \in DOMAIN tx.inputs : tx.inputs[i].sequence = "rbf"

\* version 2 and lock_time 0.
check_tx_header(tx) == tx.header_ok

check_output_shape(tx, v, count) ==
    Len(tx.outputs) = count /\ v = 0 /\ ~has_other_op_return(tx)

check_provenance(tx, height) ==
    \A i \in DOMAIN tx.inputs : has_earlier_confirmation(tx.inputs[i], height)

check_transition_input_scripts(tx, carriers, wallets) ==
    /\ \A i \in carriers : carrier_revealed(tx.inputs[i])
    /\ \A i \in wallets : p2wpkh_revealed(tx.inputs[i])

check_signatures(tx) == \A i \in DOMAIN tx.inputs : tx.inputs[i].signatures_valid

object_at(st, outpoint) == st.objects[st.active[outpoint]]

\* fee / 2 + fee % 2 and fee / 2.
CeilHalf(fee) == (fee \div 2) + (fee % 2)
FloorHalf(fee) == fee \div 2

\* What input i pays beyond the change in output j.
debit(tx, i, j) == tx.inputs[i].prevout_value - tx.outputs[j].value

-----------------------------------------------------------------------------
validate_configured_init(height, tx) ==
    LET M   == marker_candidates(tx)
        i   == CHOOSE x \in M : TRUE
        m   == marker_at(tx, i)
        in  == tx.inputs[1]
        key == p2wpkh_key(in)
    IN  IF \E x, y \in M : x # y       THEN "MultipleMarkers" ELSE
        IF M = {} \/ ~m.parses         THEN "BadMarkerEncodingOrLength" ELSE
        IF ~m.version_ok               THEN "UnknownVersion" ELSE
        IF ~m.network_ok               THEN "WrongNetwork" ELSE
        IF m.opcode \notin Opcode      THEN "UnknownOpcode" ELSE
        IF m.opcode # "Init" \/ ~m.fields_ok THEN "UnsupportedOrReservedField" ELSE
        IF ~check_tx_header(tx)        THEN "BadTxVersionOrLocktime" ELSE
        IF Len(tx.inputs) # 1 \/ in.sequence # "final" THEN "BadInputCountOrOrder" ELSE
        IF ~check_output_shape(tx, vout(i), 2) THEN "BadOutputCountOrOrder" ELSE
        IF ~has_earlier_confirmation(in, height) THEN "UnconfirmedOrSameBlockPrevout" ELSE
        IF ~p2wpkh_revealed(in)        THEN "BadInputScript" ELSE
        IF key = ZERO_KEY              THEN "BadKeyOrderOrBinding" ELSE
        IF ~in.signatures_valid        THEN "BadSignatureOrSighash" ELSE
        IF \/ tx.outputs[1].value # 0
           \/ tx.outputs[2].script_pubkey # p2wpkh_script(key)
                                       THEN "BadOutputScriptOrValue" ELSE
        IF debit(tx, 1, 2) <= 0        THEN "NonpositiveOrInvalidFee" ELSE
        IF tx.outputs[2].value < CHANGE_FLOOR THEN "BadFeeSplitOrChange" ELSE
        IF \/ m.h_open + FOUNDING_WINDOW > U32_MAX
           \/ height + INIT_LEAD > U32_MAX
           \/ m.h_open + FOUNDING_WINDOW # m.h_close
           \/ height + INIT_LEAD > m.h_open
                                       THEN "BadHeightOrPhase" ELSE
        "Valid"

\* Fault: CREATE is accepted as soon as INIT is.
PhaseOpenAtInit(st, height) == st.protocol_status.state = "Active"

PhaseOpen(st, height) ==
    st.protocol_status.state = "Active" /\ ~(height < st.protocol_status.h_open)

validate_create(st, height, tx, v, m) ==
    LET key0 == p2wpkh_key(tx.inputs[1])
        key1 == p2wpkh_key(tx.inputs[2])
        keys == checked(key0, key1)
        fee  == debit(tx, 1, 3) + debit(tx, 2, 4) - CARRIER_VALUE
        half == CARRIER_VALUE \div 2
    IN  IF ~m.fields_ok                THEN "UnsupportedOrReservedField" ELSE
        IF ~check_tx_header(tx)        THEN "BadTxVersionOrLocktime" ELSE
        IF Len(tx.inputs) # 2 \/ ~AllRbf(tx) THEN "BadInputCountOrOrder" ELSE
        IF ~check_output_shape(tx, v, 4) THEN "BadOutputCountOrOrder" ELSE
        IF ~check_provenance(tx, height) THEN "UnconfirmedOrSameBlockPrevout" ELSE
        IF ~check_transition_input_scripts(tx, {}, {1, 2}) THEN "BadInputScript" ELSE
        IF keys = NoKeys               THEN "BadKeyOrderOrBinding" ELSE
        IF ~check_signatures(tx)       THEN "BadSignatureOrSighash" ELSE
        IF \/ tx.outputs[1].value # 0
           \/ tx.outputs[2].value # CARRIER_VALUE
           \/ tx.outputs[2].script_pubkey # carrier_script(keys)
           \/ tx.outputs[3].script_pubkey # p2wpkh_script(key0)
           \/ tx.outputs[4].script_pubkey # p2wpkh_script(key1)
                                       THEN "BadOutputScriptOrValue" ELSE
        IF debit(tx, 1, 3) < 0 \/ debit(tx, 2, 4) < 0 \/ fee <= 0
                                       THEN "NonpositiveOrInvalidFee" ELSE
        IF \/ debit(tx, 1, 3) # half + CeilHalf(fee)
           \/ debit(tx, 2, 4) # half + FloorHalf(fee)
           \/ tx.outputs[3].value < CHANGE_FLOOR
           \/ tx.outputs[4].value < CHANGE_FLOOR
                                       THEN "BadFeeSplitOrChange" ELSE
        IF ~PhaseOpen(st, height)      THEN "BadHeightOrPhase" ELSE
        "Valid"

\* Fault: the marker's sequence is not compared.
SequenceFailureUncompared(st, tx, m, C) ==
    IF C = {} \/ tx.inputs[1].prevout # object_at(st, tx.inputs[1].prevout).current_outpoint
    THEN "PredecessorNotActive" ELSE "Valid"

\* Fault: the increment is not checked against the width of a u32.
SequenceFailureUnbounded(st, tx, m, C) ==
    LET obj == object_at(st, tx.inputs[1].prevout)
    IN  IF C = {} \/ tx.inputs[1].prevout # obj.current_outpoint
                                       THEN "PredecessorNotActive" ELSE
        IF m.sequence # obj.state_seq + 1 THEN "BadStateSequence" ELSE
        "Valid"

\* Checks shared by MARK, ROTATE and CLOSE once the shape is right: the spent
\* carrier is an object's current one and the marker carries the next sequence.
SequenceFailure(st, tx, m, C) ==
    LET obj == object_at(st, tx.inputs[1].prevout)
    IN  IF C = {} \/ tx.inputs[1].prevout # obj.current_outpoint
                                       THEN "PredecessorNotActive" ELSE
        IF obj.state_seq + 1 > U32_MAX \/ m.sequence # obj.state_seq + 1
                                       THEN "BadStateSequence" ELSE
        "Valid"

validate_mark(st, height, tx, v, m, C) ==
    LET obj     == object_at(st, tx.inputs[1].prevout)
        keys    == carrier_keys(tx.inputs[1])
        sponsor == p2wpkh_key(tx.inputs[2])
    IN  IF ~m.fields_ok                THEN "UnsupportedOrReservedField" ELSE
        IF ~check_tx_header(tx)        THEN "BadTxVersionOrLocktime" ELSE
        IF Len(tx.inputs) # 2 \/ ~AllRbf(tx) \/ ~(C \subseteq {1})
                                       THEN "BadInputCountOrOrder" ELSE
        IF ~check_output_shape(tx, v, 3) THEN "BadOutputCountOrOrder" ELSE
        IF ~check_provenance(tx, height) THEN "UnconfirmedOrSameBlockPrevout" ELSE
        IF ~check_transition_input_scripts(tx, {1}, {2}) THEN "BadInputScript" ELSE
        IF \/ keys = NoKeys
           \/ sponsor = ZERO_KEY
           \/ C # {} /\ obj.keys # keys
           \/ ~contains(keys, sponsor)
                                       THEN "BadKeyOrderOrBinding" ELSE
        IF ~check_signatures(tx)       THEN "BadSignatureOrSighash" ELSE
        IF \/ tx.outputs[1].value # 0
           \/ tx.outputs[2].value # CARRIER_VALUE
           \/ tx.outputs[3].script_pubkey # p2wpkh_script(sponsor)
                                       THEN "BadOutputScriptOrValue" ELSE
        IF debit(tx, 2, 3) <= 0        THEN "NonpositiveOrInvalidFee" ELSE
        IF tx.outputs[3].value < CHANGE_FLOOR THEN "BadFeeSplitOrChange" ELSE
        IF SequenceFailure(st, tx, m, C) # "Valid" THEN SequenceFailure(st, tx, m, C) ELSE
        IF tx.outputs[2].script_pubkey # carrier_script(obj.keys) THEN "BadSuccessor" ELSE
        IF m.commitment = ZERO         THEN "BadCommitment" ELSE
        "Valid"

validate_rotate(st, height, tx, v, m, C) ==
    LET obj  == object_at(st, tx.inputs[1].prevout)
        old  == carrier_keys(tx.inputs[1])
        key0 == p2wpkh_key(tx.inputs[2])
        key1 == p2wpkh_key(tx.inputs[3])
        keys == checked(key0, key1)
        fee  == debit(tx, 2, 3) + debit(tx, 3, 4)
    IN  IF ~m.fields_ok                THEN "UnsupportedOrReservedField" ELSE
        IF ~check_tx_header(tx)        THEN "BadTxVersionOrLocktime" ELSE
        IF Len(tx.inputs) # 3 \/ ~AllRbf(tx) \/ ~(C \subseteq {1})
                                       THEN "BadInputCountOrOrder" ELSE
        IF ~check_output_shape(tx, v, 4) THEN "BadOutputCountOrOrder" ELSE
        IF ~check_provenance(tx, height) THEN "UnconfirmedOrSameBlockPrevout" ELSE
        IF ~check_transition_input_scripts(tx, {1}, {2, 3}) THEN "BadInputScript" ELSE
        IF \/ old = NoKeys
           \/ keys = NoKeys
           \/ C # {} /\ obj.keys # old
           \/ old = keys
                                       THEN "BadKeyOrderOrBinding" ELSE
        IF ~check_signatures(tx)       THEN "BadSignatureOrSighash" ELSE
        IF \/ tx.outputs[1].value # 0
           \/ tx.outputs[2].value # CARRIER_VALUE
           \/ tx.outputs[3].script_pubkey # p2wpkh_script(key0)
           \/ tx.outputs[4].script_pubkey # p2wpkh_script(key1)
                                       THEN "BadOutputScriptOrValue" ELSE
        IF debit(tx, 2, 3) < 0 \/ debit(tx, 3, 4) < 0 \/ fee <= 0
                                       THEN "NonpositiveOrInvalidFee" ELSE
        IF \/ debit(tx, 2, 3) # CeilHalf(fee)
           \/ debit(tx, 3, 4) # FloorHalf(fee)
           \/ tx.outputs[3].value < CHANGE_FLOOR
           \/ tx.outputs[4].value < CHANGE_FLOOR
                                       THEN "BadFeeSplitOrChange" ELSE
        IF SequenceFailure(st, tx, m, C) # "Valid" THEN SequenceFailure(st, tx, m, C) ELSE
        IF tx.outputs[2].script_pubkey # carrier_script(keys) THEN "BadSuccessor" ELSE
        "Valid"

validate_close(st, height, tx, v, m, C) ==
    LET obj  == object_at(st, tx.inputs[1].prevout)
        keys == carrier_keys(tx.inputs[1])
    IN  IF ~m.fields_ok                THEN "UnsupportedOrReservedField" ELSE
        IF ~check_tx_header(tx)        THEN "BadTxVersionOrLocktime" ELSE
        IF Len(tx.inputs) # 1 \/ ~AllRbf(tx) \/ ~(C \subseteq {1})
                                       THEN "BadInputCountOrOrder" ELSE
        IF ~check_output_shape(tx, v, 3) THEN "BadOutputCountOrOrder" ELSE
        IF ~check_provenance(tx, height) THEN "UnconfirmedOrSameBlockPrevout" ELSE
        IF ~check_transition_input_scripts(tx, {1}, {}) THEN "BadInputScript" ELSE
        IF keys = NoKeys \/ (C # {} /\ obj.keys # keys)
                                       THEN "BadKeyOrderOrBinding" ELSE
        IF ~check_signatures(tx)       THEN "BadSignatureOrSighash" ELSE
        IF \/ tx.outputs[1].value # 0
           \/ tx.outputs[2].script_pubkey # p2wpkh_script(keys[1])
           \/ tx.outputs[3].script_pubkey # p2wpkh_script(keys[2])
                                       THEN "BadOutputScriptOrValue" ELSE
        IF tx.outputs[2].value + tx.outputs[3].value >= CARRIER_VALUE
                                       THEN "NonpositiveOrInvalidFee" ELSE
        IF tx.outputs[2].value = 0 \/ tx.outputs[2].value # tx.outputs[3].value
                                       THEN "BadFeeSplitOrChange" ELSE
        SequenceFailure(st, tx, m, C)

\* Fault: a refund is mature one block early.
RefundMatureEarly(in, height) == in.prevout_height + REFUND_DELAY <= height + 1

RefundMature(in, height) == in.prevout_height + REFUND_DELAY <= height

\* Every failure of a refund has the same reason, so this one is a predicate.
validate_refund(height, tx, obj) ==
    LET in == tx.inputs[1]
    IN  /\ check_tx_header(tx)
        /\ Len(tx.inputs) = 1
        /\ Len(tx.outputs) = 2
        /\ \A i \in DOMAIN tx.outputs : ~is_op_return(tx.outputs[i].script_pubkey)
        /\ in.sequence = "refund"
        /\ in.prevout = obj.current_outpoint
        /\ has_earlier_confirmation(in, height)
        /\ carrier_keys(in) = obj.keys
        /\ in.signatures_valid
        /\ RefundMature(in, height)
        /\ tx.outputs[1].script_pubkey = p2wpkh_script(obj.keys[1])
        /\ tx.outputs[2].script_pubkey = p2wpkh_script(obj.keys[2])
        /\ tx.outputs[1].value # 0
        /\ tx.outputs[1].value = tx.outputs[2].value
        /\ tx.outputs[1].value + tx.outputs[2].value < CARRIER_VALUE

\* Header checks, then the validator of the opcode.  INIT is never accepted
\* outside apply_block's own INIT path.
validate_single(st, height, tx, v, m, C) ==
    IF ~m.parses                       THEN "BadMarkerEncodingOrLength" ELSE
    IF ~m.version_ok                   THEN "UnknownVersion" ELSE
    IF ~m.network_ok                   THEN "WrongNetwork" ELSE
    IF m.opcode \notin Opcode          THEN "UnknownOpcode" ELSE
    IF m.opcode = "Init"               THEN "UnsupportedOrReservedField" ELSE
    IF ~m.namespace_ok                 THEN "WrongNamespace" ELSE
    IF m.opcode = "Create"             THEN validate_create(st, height, tx, v, m) ELSE
    IF m.opcode = "Mark"               THEN validate_mark(st, height, tx, v, m, C) ELSE
    IF m.opcode = "Rotate"             THEN validate_rotate(st, height, tx, v, m, C) ELSE
    validate_close(st, height, tx, v, m, C)
===============================================================================
