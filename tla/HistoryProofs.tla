---------------------------- MODULE HistoryProofs -----------------------------
(***************************************************************************)
(* What the published events of a branch say about its objects: every      *)
(* processing action of Reducer has an Effect, EventInv holds in every     *)
(* state, and Reducer's event properties follow.                           *)
(***************************************************************************)
EXTENDS EventProofs, FiniteSetTheorems

\* The provers of a leaf that names none, in this order.
USE SMT, Zenon, SMTT(30)

-----------------------------------------------------------------------------
(* Further facts that the validators establish. *)

\* CREATE pays the carrier of the accepted keys with output 1, from two wallets.
LEMMA CreateOutputs ==
    ASSUME NEW st, NEW height, NEW tx, Outcome(st, height, tx) = "Create",
           tx.outputs \in Seq(RawOutput)
    PROVE  /\ 2 \in DOMAIN tx.outputs
           /\ tx.outputs[2].value = CARRIER_VALUE
           /\ tx.outputs[2].script_pubkey
                = carrier_script(checked(p2wpkh_key(tx.inputs[1]), p2wpkh_key(tx.inputs[2])))
           /\ \A a \in {1, 2} : p2wpkh_revealed(tx.inputs[a])
<1> DEFINE C == carrier_spends(st, tx)
<1>1. PICK i \in marker_candidates(tx) :
            /\ validate_single(st, height, tx, vout(i), marker_at(tx, i), C) = "Valid"
            /\ marker_at(tx, i).opcode = "Create"
  BY OperationIsValidated
<1>2. validate_create(st, height, tx, vout(i), marker_at(tx, i)) = "Valid"
  BY <1>1 DEF validate_single
<1>3. Len(tx.outputs) = 4
  BY <1>2 DEF validate_create, check_output_shape
<1>4. 2 \in DOMAIN tx.outputs
  BY <1>3
<1>5. /\ tx.outputs[2].value = CARRIER_VALUE
      /\ tx.outputs[2].script_pubkey
            = carrier_script(checked(p2wpkh_key(tx.inputs[1]), p2wpkh_key(tx.inputs[2])))
  BY <1>2 DEF validate_create
<1>6. check_transition_input_scripts(tx, {}, {1, 2})
  BY <1>2 DEF validate_create
<1> QED
  BY <1>4, <1>5, <1>6 DEF check_transition_input_scripts

\* MARK, ROTATE and CLOSE spend a carrier of an earlier block.  MARK and ROTATE
\* pay the successor carrier, of the old or of the new keys, with output 1.
LEMMA TransitionOutputs ==
    ASSUME NEW st, NEW height, NEW tx, tx.outputs \in Seq(RawOutput),
           NEW op \in {"Mark", "Rotate", "Close"}, Outcome(st, height, tx) = op
    PROVE  /\ check_provenance(tx, height)
           /\ tx.inputs[1].prevout = object_at(st, tx.inputs[1].prevout).current_outpoint
           /\ op # "Close" => 2 \in DOMAIN tx.outputs /\ tx.outputs[2].value = CARRIER_VALUE
           /\ op = "Mark" => tx.outputs[2].script_pubkey
                                = carrier_script(object_at(st, tx.inputs[1].prevout).keys)
           /\ op = "Rotate" => tx.outputs[2].script_pubkey
                = carrier_script(checked(p2wpkh_key(tx.inputs[2]), p2wpkh_key(tx.inputs[3])))
<1> DEFINE C == carrier_spends(st, tx)
<1>1. PICK i \in marker_candidates(tx) :
            /\ validate_single(st, height, tx, vout(i), marker_at(tx, i), C) = "Valid"
            /\ marker_at(tx, i).opcode = op
  BY OperationIsValidated
<1> DEFINE m == marker_at(tx, i)
<1>2. CASE op = "Mark"
  <2>1. validate_mark(st, height, tx, vout(i), m, C) = "Valid"
    BY <1>1, <1>2 DEF validate_single
  <2>2. /\ Len(tx.outputs) = 3 /\ check_provenance(tx, height)
        /\ tx.outputs[2].value = CARRIER_VALUE
        /\ SequenceFailure(st, tx, m, C) = "Valid"
        /\ tx.outputs[2].script_pubkey
            = carrier_script(object_at(st, tx.inputs[1].prevout).keys)
    BY <2>1 DEF validate_mark, check_output_shape
  <2> QED
    BY <1>2, <2>2 DEF SequenceFailure
<1>3. CASE op = "Rotate"
  <2>1. validate_rotate(st, height, tx, vout(i), m, C) = "Valid"
    BY <1>1, <1>3 DEF validate_single
  <2>2. /\ Len(tx.outputs) = 4 /\ check_provenance(tx, height)
        /\ tx.outputs[2].value = CARRIER_VALUE
        /\ SequenceFailure(st, tx, m, C) = "Valid"
        /\ tx.outputs[2].script_pubkey
            = carrier_script(checked(p2wpkh_key(tx.inputs[2]), p2wpkh_key(tx.inputs[3])))
    BY <2>1 DEF validate_rotate, check_output_shape
  <2> QED
    BY <1>3, <2>2 DEF SequenceFailure
<1>4. CASE op = "Close"
  <2>1. validate_close(st, height, tx, vout(i), m, C) = "Valid"
    BY <1>1, <1>4 DEF validate_single
  <2>2. check_provenance(tx, height) /\ SequenceFailure(st, tx, m, C) = "Valid"
    BY <2>1 DEF validate_close
  <2> QED
    BY <1>4, <2>2 DEF SequenceFailure
<1> QED
  BY <1>2, <1>3, <1>4

\* REFUND spends a mature carrier of an earlier block.
LEMMA RefundInput ==
    ASSUME NEW st, NEW height, NEW tx, Outcome(st, height, tx) = "Refund", IsSeq(tx.inputs)
    PROVE  LET in == tx.inputs[1]
           IN  /\ in.prevout = object_at(st, in.prevout).current_outpoint
               /\ has_earlier_confirmation(in, height)
               /\ RefundMature(in, height)
<1> DEFINE C == carrier_spends(st, tx)
           i == CHOOSE x \in marker_candidates(tx) : TRUE
           reason == validate_single(st, height, tx, vout(i), marker_at(tx, i), C)
<1>1. reason \in FailureReason \cup {"Valid"}
  BY ValidatorsReturnReasons
<1>2. marker_candidates(tx) # {} => reason = "Valid" /\ marker_at(tx, i).opcode = "Refund"
  BY <1>1 DEF Outcome, FailureReason
<1>3. marker_candidates(tx) = {}
  BY <1>2 DEF validate_single, Opcode
<1>4. C = {1}
  BY RefundIsValidated
<1>5. validate_refund(height, tx, object_at(st, tx.inputs[CHOOSE x \in C : TRUE].prevout))
  BY <1>3 DEF Outcome
<1>6. (CHOOSE x \in C : TRUE) = 1
  BY <1>4
<1> QED
  BY <1>5, <1>6, Zenon DEF validate_refund

\* A transaction is ignored only when it has no marker and spends no carrier.
LEMMA IgnoredSpendsNothing ==
    ASSUME NEW st, NEW height, NEW tx, Outcome(st, height, tx) = "Ignored"
    PROVE  carrier_spends(st, tx) = {}
<1> DEFINE C == carrier_spends(st, tx)
           i == CHOOSE x \in marker_candidates(tx) : TRUE
           reason == validate_single(st, height, tx, vout(i), marker_at(tx, i), C)
<1>1. reason \in FailureReason \cup {"Valid"}
  BY ValidatorsReturnReasons
<1>2. marker_candidates(tx) # {} => reason = "Valid" /\ marker_at(tx, i).opcode = "Ignored"
  BY <1>1 DEF Outcome, FailureReason
<1>3. marker_candidates(tx) = {}
  BY <1>2 DEF validate_single, Opcode
<1> QED
  BY <1>3 DEF Outcome


-----------------------------------------------------------------------------
(* Every processing action has an effect. *)

\* A transaction that spends no carrier and at most leaves one bare event.
LEMMA BareEffect ==
    ASSUME InTransactions, NEW bare, Processed(state, bare),
           carrier_spends(state, CurrentTx) = {},
           \A e \in bare : /\ e.object_key = ZERO /\ e.event_type # "Refund"
                           /\ e.height = block.height /\ e.tx_index = index,
           \A e, f \in bare : e = f,
           state.protocol_status.state = "Active" \/ bare = {}
    PROVE  \E keys, event, left : Effect(keys, event, left)
<1>1. state' = state /\ {EmptyMap[k] : k \in {}} \cup bare = bare
  BY DEF Processed
<1>2. SpentKeys(state, CurrentTx) = {}
  BY DEF SpentKeys
<1>3. Processed(state', {EmptyMap[k] : k \in {}} \cup bare)
  BY <1>1
<1>4. Effect({}, EmptyMap, bare)
  BY <1>1, <1>2, <1>3 DEF Effect
<1> QED
  BY <1>4

\* FailedInit, the INIT transaction, ignored transactions and failed markers.
LEMMA QuietEffect ==
    ASSUME ReducerInv, InitBlockEmpty,
           SkipTransaction \/ ProcessInit \/ ProcessIgnored \/ ProcessInvalid
    PROVE  \E keys, event, bare : Effect(keys, event, bare)
<1>1. DOMAIN state.objects = {} => carrier_spends(state, CurrentTx) = {}
  BY DEF carrier_spends
<1>2. CASE SkipTransaction
  <2>1. InTransactions /\ Processed(state, {}) /\ state.protocol_status.state = "FailedInit"
    BY <1>2 DEF SkipTransaction
  <2>2. DOMAIN state.objects = {}
    BY <2>1 DEF ReducerInv, Sound, CreatedAfterOpen
  <2> QED
    BY <1>1, <2>1, <2>2, BareEffect
<1>3. CASE ProcessInit
  <2> DEFINE e == valid_event_base(CurrentTx, EventIndex(CurrentTx), "Init", ZERO,
                                   U32_MAX, ZERO_OUTPOINT, ZERO_OUTPOINT)
  <2>1. /\ InTransactions /\ Processed(state, {e}) /\ state.protocol_status.state = "Active"
        /\ before.protocol_status = AwaitingInit
    BY <1>3 DEF ProcessInit
  <2>2. carrier_spends(state, CurrentTx) = {}
    BY <1>1, <2>1 DEF InitBlockEmpty, InTransactions
  <2>3. /\ e.object_key = ZERO /\ e.event_type # "Refund"
        /\ e.height = block.height /\ e.tx_index = index
    BY DEF valid_event_base, Event
  <2> HIDE DEF e
  <2> QED
    BY <2>1, <2>2, <2>3, BareEffect
<1>4. CASE ProcessIgnored
  <2>1. InTransactions /\ Processed(state, {}) /\ Outcome(state, block.height, CurrentTx) = "Ignored"
    BY <1>4 DEF ProcessIgnored, Process
  <2> QED
    BY <2>1, IgnoredSpendsNothing, BareEffect
<1>5. CASE ProcessInvalid
  <2> DEFINE reason == Outcome(state, block.height, CurrentTx)
             e == bare_invalid_event(CurrentTx, EventIndex(CurrentTx),
                                     AttemptedType(CurrentTx), reason)
  <2>1. /\ InTransactions /\ Processed(state, {e}) /\ state.protocol_status.state = "Active"
        /\ carrier_spends(state, CurrentTx) = {}
    BY <1>5 DEF ProcessInvalid, Process
  <2>2. /\ e.object_key = ZERO /\ e.event_type # "Refund"
        /\ e.height = block.height /\ e.tx_index = index
    BY NeverAttemptsRefund DEF bare_invalid_event, Event
  <2> HIDE DEF e
  <2> QED
    BY <2>1, <2>2, BareEffect
<1> QED
  BY <1>2, <1>3, <1>4, <1>5

\* The objects after a step that changes none but that of key, to o.
LEMMA OneEffect ==
    ASSUME InTransactions, NEW st, NEW key, NEW o, NEW e, Processed(st, {e}),
           state.protocol_status.state = "Active",
           st.protocol_status = state.protocol_status,
           st.objects = [k \in DOMAIN state.objects \cup {key} |->
                            IF k = key THEN o ELSE state.objects[k]],
           SpentKeys(state, CurrentTx) \subseteq {key},
           Touched(key, o, e),
           IF key \in DOMAIN state.objects THEN Advanced(state.objects[key], o, e)
           ELSE e.event_type = "Create" /\ o.chapter_count = 0
    PROVE  \E keys, event, bare : Effect(keys, event, bare)
<1> DEFINE E == [k \in {key} |-> e]
<1>1. state' = st
  BY DEF Processed
<1>2. /\ DOMAIN st.objects = DOMAIN state.objects \cup {key}
      /\ st.objects[key] = o
      /\ \A k \in DOMAIN state.objects \ {key} : st.objects[k] = state.objects[k]
  OBVIOUS
<1>3. {E[k] : k \in {key}} \cup {} = {e} /\ E[key] = e
  OBVIOUS
<1> HIDE DEF E
<1>4. Processed(state', {E[k] : k \in {key}} \cup {})
  BY <1>1, <1>3
<1>5. Effect({key}, E, {})
  BY <1>1, <1>2, <1>3, <1>4 DEF Effect
<1> QED
  BY <1>5

\* What a transaction that stores the object o at one key and appends the event e leaves in st.
StoresOne(st, key, o, e) ==
    /\ st.protocol_status = state.protocol_status
    /\ st.objects = [k \in DOMAIN state.objects \cup {key} |->
                        IF k = key THEN o ELSE state.objects[k]]
    /\ SpentKeys(state, CurrentTx) \subseteq {key}
    /\ Touched(key, o, e)
    /\ IF key \in DOMAIN state.objects THEN Advanced(state.objects[key], o, e)
       ELSE e.event_type = "Create" /\ o.chapter_count = 0

\* OneEffect, for a transaction known by what it stores.
LEMMA StoredEffect ==
    ASSUME InTransactions, NEW st, NEW key, NEW o, NEW e, Processed(st, {e}),
           state.protocol_status.state = "Active", StoresOne(st, key, o, e)
    PROVE  \E keys, event, bare : Effect(keys, event, bare)
BY OneEffect DEF StoresOne

\* The fields of an object that a noncanonical spend ends.
LEMMA EndedFields ==
    ASSUME NEW o \in ObjectState, NEW status, NEW txid
    PROVE  LET new == Ended(o, status, txid)
           IN  /\ new.status = status /\ new.current_outpoint = ZERO_OUTPOINT
               /\ new.object_key = o.object_key /\ new.genesis = o.genesis
               /\ new.founding = o.founding /\ new.create_height = o.create_height
               /\ new.state_seq = o.state_seq /\ new.chapter_count = o.chapter_count
BY DEF Ended, ObjectState

\* A noncanonical spend: one event for each carrier it consumes.
LEMMA ExitEffect ==
    ASSUME ReducerInv, RanksDistinct, ZERO \notin DOMAIN state.objects, ProcessExit
    PROVE  \E keys, event, bare : Effect(keys, event, bare)
<1> DEFINE tx == CurrentTx
           reason == Outcome(state, block.height, tx)
           K == SpentKeys(state, tx)
           st == terminate_object(state, K, "ExitedNoncanonical", tx.txid)
           E == [k \in K |-> Event(tx, EventIndex(tx), Cardinality({j \in K : j < k}),
                                   "ExitedNoncanonical", "TerminalNoncanonical", reason, k,
                                   state.objects[k].state_seq,
                                   state.objects[k].current_outpoint, ZERO_OUTPOINT)]
<1>1. /\ InTransactions /\ state.protocol_status.state = "Active"
      /\ Processed(st, exit_events(tx, EventIndex(tx), reason, K))
  BY DEF ProcessExit, Process
<1>2. ViewOK(tx) /\ Sound(state, mined)
  BY <1>1, CurrentIsFresh DEF ReducerInv
<1>3. K \in SUBSET DOMAIN state.objects /\ \A k \in K : state.objects[k].status = "Active"
  BY <1>2, SpentAreActive
<1>4. /\ state.objects \in [DOMAIN state.objects -> ObjectState]
      /\ DOMAIN state.objects \subseteq Nat
  BY <1>2, SoundTypes DEF Txid
<1>5. \A k, l \in K : Cardinality({x \in K : x < k}) = Cardinality({x \in K : x < l}) => k = l
  BY <1>1 DEF RanksDistinct
<1>6. /\ st.protocol_status = state.protocol_status
      /\ st.objects = [k \in DOMAIN state.objects |->
                        IF k \in K THEN Ended(state.objects[k], "ExitedNoncanonical", tx.txid)
                        ELSE state.objects[k]]
  BY <1>2 DEF terminate_object, Sound, ChainStateOK
<1>7. exit_events(tx, EventIndex(tx), reason, K) = {E[k] : k \in K} \cup {}
  BY DEF exit_events
<1>8. \A k \in K :
        /\ E[k].object_key = k /\ E[k].height = block.height /\ E[k].tx_index = index
        /\ E[k].sub_index = Cardinality({j \in K : j < k})
        /\ E[k].event_type = "ExitedNoncanonical"
        /\ E[k].validity_class = "TerminalNoncanonical"
        /\ E[k].state_seq = state.objects[k].state_seq
        /\ E[k].predecessor = state.objects[k].current_outpoint
        /\ E[k].successor = ZERO_OUTPOINT
  BY DEF Event
<1> HIDE DEF E, st, K, reason
<1>9. state' = st /\ Processed(state', {E[k] : k \in K} \cup {})
  BY <1>1, <1>7 DEF Processed
<1>10. ASSUME NEW k \in K
       PROVE  /\ Touched(k, st.objects[k], E[k])
              /\ Advanced(state.objects[k], st.objects[k], E[k])
  <2> DEFINE old == state.objects[k]
             o == Ended(old, "ExitedNoncanonical", tx.txid)
  <2>1. st.objects[k] = o /\ old \in ObjectState /\ old.status = "Active" /\ k # ZERO
    BY <1>3, <1>4, <1>6
  <2> HIDE DEF old
  <2>2. /\ o.status = "ExitedNoncanonical" /\ o.current_outpoint = ZERO_OUTPOINT
        /\ o.object_key = old.object_key /\ o.genesis = old.genesis
        /\ o.founding = old.founding /\ o.create_height = old.create_height
        /\ o.state_seq = old.state_seq /\ o.chapter_count = old.chapter_count
        /\ old.chapter_count \in Nat
    BY <2>1, EndedFields, ParameterAssumption DEF ObjectState
  <2> HIDE DEF o
  <2>3. E[k].state_seq = old.state_seq /\ E[k].predecessor = old.current_outpoint
    BY <1>8, Zenon DEF old
  <2>4. Touched(k, o, E[k])
    BY <1>8, <2>1, <2>2, <2>3, Zenon DEF Touched, StatusAfter
  <2>5. Advances(old, o)
    BY <2>1, <2>2 DEF Advances
  <2>6. /\ E[k].validity_class # "ValidOperation" /\ E[k].event_type # "Refund"
        /\ E[k].event_type # "Create" /\ E[k].event_type # "Mark"
    BY <1>8, Zenon
  <2>7. o.chapter_count = old.chapter_count + (IF E[k].event_type = "Mark" THEN 1 ELSE 0)
    BY <2>2, <2>6
  <2>8. Advanced(old, o, E[k])
    BY <2>1, <2>3, <2>5, <2>6, <2>7 DEF Advanced
  <2> QED
    BY <2>1, <2>4, <2>8 DEF old
<1>11. ASSUME NEW k \in K, NEW l \in K, E[k].sub_index = E[l].sub_index
       PROVE  k = l
  <2>1. Cardinality({x \in K : x < k}) = Cardinality({x \in K : x < l})
    BY <1>8, <1>11
  <2> QED
    BY <1>5, <2>1
<1>12. /\ DOMAIN st.objects = DOMAIN state.objects \cup K
       /\ \A k \in DOMAIN state.objects \ K : st.objects[k] = state.objects[k]
  BY <1>3, <1>6
<1>13. Effect(K, E, {})
  BY <1>1, <1>3, <1>6, <1>9, <1>10, <1>11, <1>12, ZenonT(30) DEF Effect, K
<1> QED
  BY <1>13

\* The carrier of an indexed object is an unspent output.
LEMMA IndexedIsCarried ==
    ASSUME NEW st, NEW ids, NEW utxo, NEW evs, Sound(st, ids), Level(st, utxo, ids, evs),
           NEW p \in DOMAIN st.active
    PROVE  /\ st.active[p] \in DOMAIN st.objects
           /\ st.objects[st.active[p]].status = "Active"
           /\ st.objects[st.active[p]].current_outpoint = p
           /\ p \in DOMAIN utxo
           /\ utxo[p].value = CARRIER_VALUE
           /\ utxo[p].script_pubkey = carrier_script(st.objects[st.active[p]].keys)
<1>1. /\ st.active[p] \in DOMAIN st.objects
      /\ st.objects[st.active[p]].status = "Active"
      /\ st.objects[st.active[p]].current_outpoint = p
  BY DEF Sound, IndexCoherent
<1>2. Carried(st.objects[st.active[p]], utxo)
  BY <1>1 DEF Level, ObjectOK
<1> QED
  BY <1>1, <1>2 DEF Carried

\* A wallet input spends no carrier.
LEMMA WalletsAreNoCarriers ==
    ASSUME ReducerInv, Level(state, coins, mined, BranchEvents), ResolvedOK, InTransactions,
           NEW a \in DOMAIN CurrentTx.inputs, p2wpkh_revealed(CurrentTx.inputs[a])
    PROVE  a \notin carrier_spends(state, CurrentTx)
<1> DEFINE in == CurrentTx.inputs[a]
<1> SUFFICES ASSUME in.prevout \in DOMAIN state.active PROVE FALSE
  BY DEF carrier_spends
<1>1. PICK keys : in.prevout \in DOMAIN coins /\ coins[in.prevout].script_pubkey = carrier_script(keys)
  BY IndexedIsCarried DEF ReducerInv
<1>2. in.prevout_script = carrier_script(keys)
  BY <1>1, CurrentInputs DEF CoinMatches
<1> QED
  BY <1>2 DEF p2wpkh_revealed, carrier_script

\* CREATE adds an object and spends no carrier.
LEMMA CreateEffect ==
    ASSUME ReducerInv, Level(state, coins, mined, BranchEvents), ResolvedOK, ProcessCreate
    PROVE  \E keys, event, bare : Effect(keys, event, bare)
<1> DEFINE tx == CurrentTx
           keys == checked(p2wpkh_key(tx.inputs[1]), p2wpkh_key(tx.inputs[2]))
           o == NewObject(state, block.height, tx, keys)
           st == insert_object(state, o)
           e == valid_event_base(tx, EventIndex(tx), "Create", o.object_key, 0,
                                 ZERO_OUTPOINT, successor(tx.txid))
<1>1. /\ InTransactions /\ state.protocol_status.state = "Active" /\ Processed(st, {e})
      /\ Outcome(state, block.height, tx) = "Create"
  BY DEF ProcessCreate, Process
<1>2. ViewOK(tx) /\ Sound(state, mined) /\ tx.txid \notin mined /\ tx.txid # 0
  BY <1>1, CurrentIsFresh, CurrentInputs, ZenonT(30) DEF ReducerInv
<1>3. DOMAIN tx.inputs = {1, 2}
  BY <1>1, <1>2, CreateIsValidated, ZenonT(30) DEF ViewOK
<1>4. /\ 2 \in DOMAIN tx.outputs
      /\ tx.outputs[2].value = CARRIER_VALUE
      /\ tx.outputs[2].script_pubkey = carrier_script(keys)
      /\ \A a \in {1, 2} : p2wpkh_revealed(tx.inputs[a])
  BY <1>1, <1>2, CreateOutputs DEF ViewOK
<1>5. SpentKeys(state, tx) = {}
  <2>1. \A a \in carrier_spends(state, tx) : a \in DOMAIN tx.inputs
    BY DEF carrier_spends
  <2>2. carrier_spends(state, tx) = {}
    BY <1>1, <1>3, <1>4, <2>1, WalletsAreNoCarriers, ZenonT(30)
  <2> QED
    BY <2>2 DEF SpentKeys
<1>6. /\ o.object_key = tx.txid /\ o.status = "Active" /\ o.state_seq = 0 /\ o.chapter_count = 0
      /\ o.current_outpoint = successor(tx.txid) /\ o.keys = keys
  BY DEF NewObject, object_key
<1> HIDE DEF o
<1>7. /\ e.object_key = tx.txid /\ e.height = block.height /\ e.tx_index = index
      /\ e.event_type = "Create" /\ e.state_seq = 0 /\ e.successor = successor(tx.txid)
  BY <1>6 DEF valid_event_base, Event
<1>8. /\ st.protocol_status = state.protocol_status
      /\ st.objects = [k \in DOMAIN state.objects \cup {tx.txid} |->
                        IF k = tx.txid THEN o ELSE state.objects[k]]
  BY <1>2, <1>6 DEF insert_object, MapInsert, Sound, ChainStateOK
<1> HIDE DEF e, st, keys
<1>9. Touched(tx.txid, o, e)
  BY <1>2, <1>4, <1>6, <1>7 DEF Touched, StatusAfter, ZERO
<1>10. tx.txid \notin DOMAIN state.objects
  BY <1>2 DEF Sound, KnownTo
<1> QED
  <2>1. e.event_type = "Create" /\ o.chapter_count = 0
    BY <1>6, <1>7, Zenon
  <2>2. StoresOne(st, tx.txid, o, e)
    BY <1>5, <1>8, <1>9, <1>10, <2>1, ZenonT(30) DEF StoresOne
  <2> QED
    BY <1>1, <2>2, StoredEffect, ZenonT(30)

\* The transaction's only carrier is that of the current object.
LEMMA OnlyCurrentSpent ==
    ASSUME ReducerInv, carrier_spends(state, CurrentTx) = {1}
    PROVE  SpentKeys(state, CurrentTx) = {CurrentObject.object_key}
<1>1. state.active[CurrentTx.inputs[1].prevout] = CurrentObject.object_key
  BY ZenonT(30) DEF ReducerInv, Sound, IndexCoherent, CurrentObject, object_at, carrier_spends
<1> QED
  BY <1>1 DEF SpentKeys

\* What move_carrier stores.
Moves(st, o, txid) ==
    LET moved == [o EXCEPT !.current_outpoint = successor(txid)]
    IN  /\ move_carrier(st, o, txid).protocol_status = st.protocol_status
        /\ move_carrier(st, o, txid).objects =
             [k \in DOMAIN st.objects \cup {o.object_key} |->
                 IF k = o.object_key THEN moved ELSE st.objects[k]]
        /\ moved.status = o.status /\ moved.current_outpoint = successor(txid)
        /\ moved.object_key = o.object_key /\ moved.genesis = o.genesis
        /\ moved.founding = o.founding /\ moved.create_height = o.create_height
        /\ moved.state_seq = o.state_seq /\ moved.chapter_count = o.chapter_count
        /\ moved.keys = o.keys

\* move_carrier stores the object with its new outpoint, and changes no other.
LEMMA MovedObject ==
    ASSUME NEW st, NEW ids, Sound(st, ids), NEW o \in ObjectState, NEW txid,
           o.object_key \in DOMAIN st.objects
    PROVE  Moves(st, o, txid)
<1> DEFINE moved == [o EXCEPT !.current_outpoint = successor(txid)]
<1>1. /\ moved.status = o.status /\ moved.current_outpoint = successor(txid)
      /\ moved.object_key = o.object_key /\ moved.genesis = o.genesis
      /\ moved.founding = o.founding /\ moved.create_height = o.create_height
      /\ moved.state_seq = o.state_seq /\ moved.chapter_count = o.chapter_count
      /\ moved.keys = o.keys
  BY DEF ObjectState
<1> HIDE DEF moved
<1>2. /\ move_carrier(st, o, txid).protocol_status = st.protocol_status
      /\ move_carrier(st, o, txid).objects = MapInsert(st.objects, o.object_key, moved)
  BY <1>1 DEF move_carrier, insert_object, Sound, ChainStateOK, moved
<1> QED
  BY <1>1, <1>2 DEF Moves, MapInsert, moved

\* MARK and ROTATE spend the current carrier and create the next.
LEMMA MoveOutputs ==
    ASSUME NEW st, NEW height, NEW tx, tx.outputs \in Seq(RawOutput),
           NEW op \in {"Mark", "Rotate"}, Outcome(st, height, tx) = op
    PROVE  /\ check_provenance(tx, height)
           /\ tx.inputs[1].prevout = object_at(st, tx.inputs[1].prevout).current_outpoint
           /\ 2 \in DOMAIN tx.outputs /\ tx.outputs[2].value = CARRIER_VALUE
<1>1. op \in {"Mark", "Rotate", "Close"} /\ op # "Close"
  OBVIOUS
<1> QED
  BY <1>1, TransitionOutputs

\* MARK and ROTATE: o is the current object with its next sequence.
LEMMA MoveEffect ==
    ASSUME ReducerInv, ZERO \notin DOMAIN state.objects, InTransactions,
           NEW type \in {"Mark", "Rotate"}, Outcome(state, block.height, CurrentTx) = type,
           NEW o \in ObjectState,
           o.status = "Active",
           o.object_key = CurrentObject.object_key,
           o.genesis = CurrentObject.genesis,
           o.founding = CurrentObject.founding,
           o.create_height = CurrentObject.create_height,
           o.state_seq = CurrentObject.state_seq + 1,
           o.chapter_count = CurrentObject.chapter_count + (IF type = "Mark" THEN 1 ELSE 0),
           CurrentTx.outputs[2].script_pubkey = carrier_script(o.keys),
           state.protocol_status.state = "Active",
           Processed(move_carrier(state, o, CurrentTx.txid),
                     {valid_event_base(CurrentTx, EventIndex(CurrentTx), type, o.object_key,
                                       o.state_seq, CurrentObject.current_outpoint,
                                       successor(CurrentTx.txid))})
    PROVE  \E keys, event, bare : Effect(keys, event, bare)
<1> DEFINE tx == CurrentTx
           obj == CurrentObject
           key == obj.object_key
           st == move_carrier(state, o, tx.txid)
           new == [o EXCEPT !.current_outpoint = successor(tx.txid)]
           e == valid_event_base(tx, EventIndex(tx), type, o.object_key, o.state_seq,
                                 obj.current_outpoint, successor(tx.txid))
<1>1. ViewOK(tx) /\ Sound(state, mined)
  BY CurrentIsFresh, ZenonT(30) DEF ReducerInv
<1>2. carrier_spends(state, tx) = {1}
  BY <1>1, TransitionIsValidated DEF ViewOK
<1>3. /\ key \in DOMAIN state.objects /\ state.objects[key] = obj /\ obj.status = "Active"
      /\ key # ZERO
  BY <1>2, CurrentIsActive
<1>4. SpentKeys(state, tx) \subseteq {key}
  BY <1>2, OnlyCurrentSpent
<1>5. /\ check_provenance(tx, block.height)
      /\ tx.inputs[1].prevout = obj.current_outpoint
      /\ 2 \in DOMAIN tx.outputs /\ tx.outputs[2].value = CARRIER_VALUE
  <2>1. tx.outputs \in Seq(RawOutput)
    BY <1>1, Zenon DEF ViewOK
  <2> QED
    BY <2>1, MoveOutputs, Zenon DEF CurrentObject
<1>6. 1 \in DOMAIN tx.inputs /\ has_earlier_confirmation(tx.inputs[1], block.height)
  BY <1>2, <1>5 DEF check_provenance, carrier_spends
<1>7. /\ st.protocol_status = state.protocol_status
      /\ st.objects = [k \in DOMAIN state.objects \cup {key} |->
                        IF k = key THEN new ELSE state.objects[k]]
      /\ new.status = "Active" /\ new.current_outpoint = successor(tx.txid)
      /\ new.object_key = key /\ new.genesis = obj.genesis
      /\ new.founding = obj.founding /\ new.create_height = obj.create_height
      /\ new.state_seq = o.state_seq /\ new.chapter_count = o.chapter_count
      /\ new.keys = o.keys
  <2>1. o.object_key \in DOMAIN state.objects
    BY <1>3, Zenon
  <2>2. Moves(state, o, tx.txid)
    BY <1>1, <2>1, MovedObject, ZenonT(30)
  <2>3. o.object_key = key /\ o.status = "Active" /\ o.genesis = obj.genesis
        /\ o.founding = obj.founding /\ o.create_height = obj.create_height
    OBVIOUS
  <2> HIDE DEF obj, key, tx
  <2> QED
    BY ONLY <2>2, <2>3 DEF Moves, st, new
<1>8. /\ e.object_key = key /\ e.height = block.height /\ e.tx_index = index
      /\ e.event_type = type /\ e.state_seq = o.state_seq
      /\ e.predecessor = obj.current_outpoint /\ e.successor = successor(tx.txid)
  BY DEF valid_event_base, Event
<1>9. Processed(st, {e})
  BY Zenon
<1> HIDE DEF e, st, new, obj
<1>10. Touched(key, new, e)
  BY <1>3, <1>5, <1>7, <1>8, ZenonT(30) DEF Touched, StatusAfter, obj
<1>11. Advances(obj, new)
  BY <1>3, <1>7, ZenonT(30) DEF Advances, obj
<1>12. Advanced(obj, new, e)
  BY <1>3, <1>5, <1>6, <1>7, <1>8, <1>11, Zenon DEF Advanced, obj
<1>13. IF key \in DOMAIN state.objects THEN Advanced(state.objects[key], new, e)
       ELSE e.event_type = "Create" /\ new.chapter_count = 0
  BY <1>3, <1>12, Zenon
<1> HIDE DEF key
<1> QED
  <2>1. StoresOne(st, key, new, e)
    BY <1>4, <1>7, <1>10, <1>13, ZenonT(30) DEF StoresOne
  <2> QED
    BY <1>9, <2>1, StoredEffect, ZenonT(30)

\* MARK moves the carrier, adds a chapter and keeps the keys.
LEMMA MarkEffect ==
    ASSUME ReducerInv, ZERO \notin DOMAIN state.objects, ProcessMark
    PROVE  \E keys, event, bare : Effect(keys, event, bare)
<1> DEFINE tx == CurrentTx
           obj == CurrentObject
           seq == marker_at(tx, 1).sequence
           o == Marked(obj, seq)
<1>1. /\ InTransactions /\ state.protocol_status.state = "Active"
      /\ Outcome(state, block.height, tx) = "Mark"
      /\ Processed(move_carrier(state, o, tx.txid),
                   {valid_event_base(tx, EventIndex(tx), "Mark", obj.object_key, seq,
                                     obj.current_outpoint, successor(tx.txid))})
  BY ZenonT(30) DEF ProcessMark, Process
<1>2. ViewOK(tx)
  BY <1>1, CurrentIsFresh
<1>3. /\ carrier_spends(state, tx) = {1}
      /\ seq = obj.state_seq + 1
      /\ ~(obj.state_seq + 1 > U32_MAX)
      /\ tx.outputs[2].script_pubkey = carrier_script(obj.keys)
  <2>1. tx.outputs \in Seq(RawOutput)
    BY <1>2, Zenon DEF ViewOK
  <2> QED
    BY <1>1, <2>1, TransitionIsValidated, TransitionOutputs, ZenonT(30) DEF CurrentObject
<1>4. obj \in ObjectState /\ obj.status = "Active" /\ obj.chapter_count <= obj.state_seq
  BY <1>3, CurrentIsActive
<1> HIDE DEF obj, seq, tx
<1>5. /\ o \in ObjectState /\ o.status = "Active" /\ o.object_key = obj.object_key
      /\ o.genesis = obj.genesis /\ o.founding = obj.founding
      /\ o.create_height = obj.create_height /\ o.state_seq = seq
  BY <1>3, <1>4, MarkedObject
<1>6. o.keys = obj.keys /\ o.chapter_count = obj.chapter_count + 1
  BY <1>4 DEF Marked, ObjectState
<1> HIDE DEF o
<1>7. Processed(move_carrier(state, o, tx.txid),
                {valid_event_base(tx, EventIndex(tx), "Mark", o.object_key, o.state_seq,
                                  obj.current_outpoint, successor(tx.txid))})
  BY <1>1, <1>5
<1> QED
  BY <1>1, <1>3, <1>5, <1>6, <1>7, MoveEffect, ZenonT(30) DEF obj, tx

\* ROTATE moves the carrier and installs new keys.
LEMMA RotateEffect ==
    ASSUME ReducerInv, ZERO \notin DOMAIN state.objects, ProcessRotate
    PROVE  \E keys, event, bare : Effect(keys, event, bare)
<1> DEFINE tx == CurrentTx
           obj == CurrentObject
           seq == marker_at(tx, 1).sequence
           pair == checked(p2wpkh_key(tx.inputs[2]), p2wpkh_key(tx.inputs[3]))
           o == Rotated(obj, seq, pair)
<1>1. /\ InTransactions /\ state.protocol_status.state = "Active"
      /\ Outcome(state, block.height, tx) = "Rotate"
      /\ Processed(move_carrier(state, o, tx.txid),
                   {valid_event_base(tx, EventIndex(tx), "Rotate", obj.object_key, seq,
                                     obj.current_outpoint, successor(tx.txid))})
  BY DEF ProcessRotate, Process
<1>2. ViewOK(tx)
  BY <1>1, CurrentIsFresh
<1>3. /\ carrier_spends(state, tx) = {1}
      /\ seq = obj.state_seq + 1
      /\ ~(obj.state_seq + 1 > U32_MAX)
  <2>1. tx.outputs \in Seq(RawOutput)
    BY <1>2, Zenon DEF ViewOK
  <2> QED
    BY <1>1, <2>1, TransitionIsValidated, ZenonT(30) DEF CurrentObject
<1>4. tx.outputs[2].script_pubkey = carrier_script(pair)
  BY <1>1, <1>2, TransitionOutputs, ZenonT(30) DEF ViewOK
<1>5. pair \in Nat \X Nat
  <2>1. DOMAIN tx.inputs = 1..3 /\ pair # NoKeys
    BY <1>1, <1>2, RotateIsValidated, ZenonT(30) DEF ViewOK
  <2>2. 2 \in 1..3 /\ 3 \in 1..3
    OBVIOUS
  <2>3. tx.inputs[2].witness \in Witness /\ tx.inputs[3].witness \in Witness
    BY <1>2, <2>1, <2>2, ZenonT(30) DEF ViewOK
  <2> QED
    BY <2>1, <2>3, CheckedKeys, ZenonT(30)
<1>6. obj \in ObjectState /\ obj.status = "Active" /\ obj.chapter_count <= obj.state_seq
  BY <1>3, CurrentIsActive
<1> HIDE DEF obj, seq, tx, pair
<1>7. /\ o \in ObjectState /\ o.status = "Active" /\ o.object_key = obj.object_key
      /\ o.genesis = obj.genesis /\ o.founding = obj.founding
      /\ o.create_height = obj.create_height /\ o.state_seq = seq
  BY <1>3, <1>5, <1>6, RotatedObject
<1>8. o.keys = pair /\ o.chapter_count = obj.chapter_count + 0
  <2>1. o.keys = pair /\ o.chapter_count = obj.chapter_count /\ obj.chapter_count \in 0..U32_MAX
    BY <1>6 DEF Rotated, ObjectState
  <2> QED
    BY <2>1, ParameterAssumption
<1> HIDE DEF o
<1>9. Processed(move_carrier(state, o, tx.txid),
                {valid_event_base(tx, EventIndex(tx), "Rotate", o.object_key, o.state_seq,
                                  obj.current_outpoint, successor(tx.txid))})
  BY <1>1, <1>7
<1> QED
  BY <1>1, <1>3, <1>4, <1>7, <1>8, <1>9, MoveEffect DEF obj, tx

\* CLOSE and REFUND: the current object ends as new, and seq is its last sequence.
LEMMA EndEffect ==
    ASSUME ReducerInv, ZERO \notin DOMAIN state.objects, InTransactions,
           state.protocol_status.state = "Active",
           carrier_spends(state, CurrentTx) = {1},
           CurrentTx.inputs[1].prevout = CurrentObject.current_outpoint,
           has_earlier_confirmation(CurrentTx.inputs[1], block.height),
           NEW type \in {"Close", "Refund"}, NEW st, NEW new, NEW event_index, NEW seq,
           type = "Refund" => RefundMature(CurrentTx.inputs[1], block.height),
           IF type = "Close" THEN seq = CurrentObject.state_seq + 1
                             ELSE seq = CurrentObject.state_seq,
           new = [Ended(CurrentObject, StatusAfter(type), CurrentTx.txid)
                    EXCEPT !.state_seq = seq],
           st.protocol_status = state.protocol_status,
           st.objects = [k \in DOMAIN state.objects |->
                            IF k = CurrentObject.object_key THEN new ELSE state.objects[k]],
           Processed(st, {valid_event_base(CurrentTx, event_index, type,
                                           CurrentObject.object_key, seq,
                                           CurrentObject.current_outpoint, ZERO_OUTPOINT)})
    PROVE  \E keys, event, bare : Effect(keys, event, bare)
<1> DEFINE tx == CurrentTx
           obj == CurrentObject
           key == obj.object_key
           e == valid_event_base(tx, event_index, type, key, seq, obj.current_outpoint,
                                 ZERO_OUTPOINT)
<1>1. /\ obj \in ObjectState
      /\ key \in DOMAIN state.objects /\ state.objects[key] = obj /\ obj.status = "Active"
      /\ key # ZERO
  BY CurrentIsActive
<1>2. SpentKeys(state, tx) \subseteq {key} /\ 1 \in DOMAIN tx.inputs
  BY OnlyCurrentSpent DEF carrier_spends
<1>3. /\ e.object_key = key /\ e.height = block.height /\ e.tx_index = index
      /\ e.event_type = type /\ e.state_seq = seq
      /\ e.predecessor = obj.current_outpoint /\ e.successor = ZERO_OUTPOINT
  BY DEF valid_event_base, Event
<1>4. Processed(st, {e}) /\ tx.inputs[1].prevout = obj.current_outpoint
      /\ new = [Ended(obj, StatusAfter(type), tx.txid) EXCEPT !.state_seq = seq]
      /\ IF type = "Close" THEN seq = obj.state_seq + 1 ELSE seq = obj.state_seq
  OBVIOUS
<1>5. st.objects = [k \in DOMAIN state.objects \cup {key} |->
                        IF k = key THEN new ELSE state.objects[k]]
  <2>1. DOMAIN state.objects \cup {key} = DOMAIN state.objects
    BY <1>1
  <2> QED
    BY <2>1
<1> HIDE DEF e, obj
<1>6. /\ new.status = StatusAfter(type) /\ new.current_outpoint = ZERO_OUTPOINT
      /\ new.object_key = obj.object_key /\ new.genesis = obj.genesis
      /\ new.founding = obj.founding /\ new.create_height = obj.create_height
      /\ new.state_seq = seq /\ new.chapter_count = obj.chapter_count
  BY <1>1, <1>4, ZenonT(30) DEF Ended, ObjectState
<1>7. new.status \in {"Closed", "Refunded"} /\ (type = "Refund" => new.status = "Refunded")
  BY <1>6 DEF StatusAfter
<1>8. Touched(key, new, e)
  BY <1>1, <1>3, <1>6, <1>7 DEF Touched
<1>9. Advances(obj, new)
  BY <1>1, <1>4, <1>6, <1>7 DEF Advances
<1>10. new.chapter_count = obj.chapter_count + (IF e.event_type = "Mark" THEN 1 ELSE 0)
  <2>1. obj.chapter_count \in 0..U32_MAX /\ e.event_type # "Mark"
    BY <1>1, <1>3 DEF ObjectState
  <2> QED
    BY <1>6, <2>1, ParameterAssumption
<1>11. Advanced(obj, new, e)
  BY <1>1, <1>2, <1>3, <1>4, <1>9, <1>10 DEF Advanced
<1> HIDE DEF key
<1> QED
  <2>1. key \in DOMAIN state.objects /\ state.objects[key] = obj
    BY <1>1, Zenon
  <2>2. StoresOne(st, key, new, e)
    BY <1>2, <1>5, <1>8, <1>11, <2>1, ZenonT(30) DEF StoresOne
  <2> QED
    BY <1>4, <2>2, StoredEffect, ZenonT(30)

\* What terminate_object, and a sequence set after it, store for one key.
Terminates(st, key, status, txid, seq) ==
    LET new == terminate_object(st, {key}, status, txid)
    IN  /\ new.protocol_status = st.protocol_status
        /\ new.objects = [k \in DOMAIN st.objects |->
             IF k = key THEN Ended(st.objects[key], status, txid) ELSE st.objects[k]]
        /\ set_sequence(new, key, seq).protocol_status = st.protocol_status
        /\ set_sequence(new, key, seq).objects =
             MapInsert(new.objects, key, WithSequence(new.objects[key], seq))

\* terminate_object ends the object of the key and no other.
LEMMA TerminatedObject ==
    ASSUME NEW st, NEW ids, Sound(st, ids), NEW key \in DOMAIN st.objects, NEW status, NEW txid,
           NEW seq
    PROVE  Terminates(st, key, status, txid, seq)
BY DEF Terminates, Sound, ChainStateOK, terminate_object, set_sequence

\* CLOSE ends the object with its next sequence.
LEMMA CloseEffect ==
    ASSUME ReducerInv, ZERO \notin DOMAIN state.objects, ProcessClose
    PROVE  \E keys, event, bare : Effect(keys, event, bare)
<1> DEFINE tx == CurrentTx
           obj == CurrentObject
           key == obj.object_key
           seq == marker_at(tx, 1).sequence
           mid == terminate_object(state, {key}, "Closed", tx.txid)
           st == set_sequence(mid, key, seq)
           new == [Ended(obj, "Closed", tx.txid) EXCEPT !.state_seq = seq]
<1>1. /\ InTransactions /\ state.protocol_status.state = "Active"
      /\ Outcome(state, block.height, tx) = "Close"
      /\ Processed(st, {valid_event_base(tx, EventIndex(tx), "Close", key, seq,
                                         obj.current_outpoint, ZERO_OUTPOINT)})
  BY DEF ProcessClose, Process
<1>2. ViewOK(tx) /\ Sound(state, mined)
  BY <1>1, CurrentIsFresh DEF ReducerInv
<1>3. carrier_spends(state, tx) = {1} /\ seq = obj.state_seq + 1
  BY <1>1, <1>2, TransitionIsValidated, ZenonT(30) DEF ViewOK, CurrentObject
<1>4. check_provenance(tx, block.height) /\ tx.inputs[1].prevout = obj.current_outpoint
  BY <1>1, <1>2, TransitionOutputs, ZenonT(30) DEF ViewOK, CurrentObject
<1>5. has_earlier_confirmation(tx.inputs[1], block.height)
  BY <1>3, <1>4 DEF check_provenance, carrier_spends
<1>6. key \in DOMAIN state.objects /\ state.objects[key] = obj
  BY <1>3, CurrentIsActive
<1> HIDE DEF obj, seq
<1>7. /\ st.protocol_status = state.protocol_status
      /\ mid.objects = [k \in DOMAIN state.objects |->
                IF k = key THEN Ended(obj, "Closed", tx.txid) ELSE state.objects[k]]
      /\ st.objects = MapInsert(mid.objects, key, WithSequence(mid.objects[key], seq))
  <2>1. state.objects[key] = obj /\ key \in DOMAIN state.objects /\ Sound(state, mined)
    BY <1>2, <1>6
  <2> HIDE DEF key, tx
  <2>2. Terminates(state, key, "Closed", tx.txid, seq)
    BY <2>1, TerminatedObject, ZenonT(30)
  <2> QED
    BY <2>1, <2>2, ZenonT(30) DEF Terminates
<1>8. new = WithSequence(mid.objects[key], seq)
  BY <1>6, <1>7, Zenon DEF WithSequence
<1> HIDE DEF new, mid, st
<1>9. st.objects = [k \in DOMAIN state.objects |-> IF k = key THEN new ELSE state.objects[k]]
  BY <1>6, <1>7, <1>8 DEF MapInsert
<1>10. new = [Ended(obj, StatusAfter("Close"), tx.txid) EXCEPT !.state_seq = seq]
  BY DEF new, StatusAfter
<1> QED
  BY <1>1, <1>3, <1>4, <1>5, <1>7, <1>9, <1>10, EndEffect DEF obj

\* REFUND ends the object at its sequence.
LEMMA RefundEffect ==
    ASSUME ReducerInv, ZERO \notin DOMAIN state.objects, ProcessRefund
    PROVE  \E keys, event, bare : Effect(keys, event, bare)
<1> DEFINE tx == CurrentTx
           obj == CurrentObject
           key == obj.object_key
           seq == obj.state_seq
           st == terminate_object(state, {key}, "Refunded", tx.txid)
           new == Ended(obj, "Refunded", tx.txid)
<1>1. /\ InTransactions /\ state.protocol_status.state = "Active"
      /\ Outcome(state, block.height, tx) = "Refund"
      /\ Processed(st, {valid_event_base(tx, U32_MAX, "Refund", key, seq,
                                         obj.current_outpoint, ZERO_OUTPOINT)})
  BY DEF ProcessRefund, Process
<1>2. ViewOK(tx) /\ Sound(state, mined)
  BY <1>1, CurrentIsFresh DEF ReducerInv
<1>3. carrier_spends(state, tx) = {1}
  BY <1>1, <1>2, RefundIsValidated DEF ViewOK
<1>4. /\ tx.inputs[1].prevout = obj.current_outpoint
      /\ has_earlier_confirmation(tx.inputs[1], block.height)
      /\ RefundMature(tx.inputs[1], block.height)
  BY <1>1, <1>2, RefundInput, ZenonT(30) DEF ViewOK, CurrentObject
<1>5. key \in DOMAIN state.objects /\ state.objects[key] = obj /\ obj \in ObjectState
  BY <1>3, CurrentIsActive
<1> HIDE DEF obj
<1>6. /\ st.protocol_status = state.protocol_status
      /\ st.objects = [k \in DOMAIN state.objects |->
                IF k = key THEN new ELSE state.objects[k]]
  <2> HIDE DEF key, tx
  <2>1. Terminates(state, key, "Refunded", tx.txid, seq)
    BY <1>2, <1>5, TerminatedObject, ZenonT(30)
  <2> QED
    BY <1>5, <2>1, ZenonT(30) DEF Terminates
<1>7. new = [Ended(obj, StatusAfter("Refund"), tx.txid) EXCEPT !.state_seq = seq]
  BY <1>5, Zenon DEF StatusAfter, Ended, ObjectState
<1> HIDE DEF new, st
<1> QED
  BY <1>1, <1>3, <1>4, <1>6, <1>7, EndEffect DEF obj

\* Every step that processes a transaction has an effect.
LEMMA ProcessingHasEffect ==
    ASSUME ReducerInv, RanksDistinct, Level(state, coins, mined, BranchEvents), ResolvedOK,
           InitBlockEmpty,
           \/ SkipTransaction \/ ProcessInit \/ ProcessIgnored \/ ProcessInvalid
           \/ ProcessExit \/ ProcessCreate \/ ProcessMark \/ ProcessRotate
           \/ ProcessClose \/ ProcessRefund
    PROVE  \E keys, event, bare : Effect(keys, event, bare)
<1>1. ZERO \notin DOMAIN state.objects
  BY DEF Level
<1> QED
  BY <1>1, QuietEffect, ExitEffect, CreateEffect, MarkEffect, RotateEffect, CloseEffect,
     RefundEffect

-----------------------------------------------------------------------------
(* Every step keeps objects, unspent outputs and events in agreement. *)

\* Processing a transaction preserves the event invariant.
LEMMA ProcessingKeepsEvents ==
    ASSUME ReducerInv, LinkInv, EventInv, RanksDistinct,
           \/ SkipTransaction \/ ProcessInit \/ ProcessIgnored \/ ProcessInvalid
           \/ ProcessExit \/ ProcessCreate \/ ProcessMark \/ ProcessRotate
           \/ ProcessClose \/ ProcessRefund
    PROVE  EventInv'
<1>1. Level(state, coins, mined, BranchEvents) /\ ResolvedOK /\ InitBlockEmpty
  BY DEF EventInv
<1>2. PICK keys, event, bare : Effect(keys, event, bare)
  BY <1>1, ProcessingHasEffect
<1>3. Level(state', coins', mined', BranchEvents')
  BY <1>2, EffectKeepsLevel
<1>4. ResolvedOK' /\ BlockEventsOK'
  BY <1>2, EffectKeepsResolved, EffectKeepsBlockEvents
<1>5. InitBlockEmpty'
  BY <1>1, <1>2, ProcessingKeepsInitBlockEmpty, ZenonT(30)
<1>6. reducing /\ UNCHANGED <<undo, journal, before, reducing>>
  BY <1>2 DEF Effect, Processed, InTransactions
<1> QED
  BY <1>3, <1>4, <1>5, <1>6, ZenonT(30) DEF EventInv

\* Every step of apply_block and disconnect_block preserves the event invariant.
LEMMA NextKeepsEvents ==
    ReducerInv /\ LinkInv /\ RanksDistinct /\ EventInv /\ [Next]_vars => EventInv'
<1> SUFFICES ASSUME ReducerInv, LinkInv, RanksDistinct, EventInv, [Next]_vars PROVE EventInv'
  OBVIOUS
<1>1. CASE \E height \in 1..MaxHeight, previous \in {state.tip_hash, <<>>} :
              \/ BeginInitBlock(height, previous)
              \/ BeginFailedInitBlock(height, previous)
              \/ BeginBlock(height, previous)
  BY <1>1, InitBlockKeepsEvents, FailedInitBlockKeepsEvents, LaterBlockKeepsEvents
<1>2. CASE \/ SkipTransaction \/ ProcessInit \/ ProcessIgnored \/ ProcessInvalid
           \/ ProcessExit \/ ProcessCreate \/ ProcessMark \/ ProcessRotate
           \/ ProcessClose \/ ProcessRefund
  BY <1>2, ProcessingKeepsEvents
<1>3. CASE FinishBlock
  BY <1>3, FinishKeepsEvents
<1>4. CASE DisconnectBlock
  BY <1>4, DisconnectKeepsEvents
<1>5. CASE UNCHANGED vars
  BY <1>5, ZenonT(30) DEF vars, EventInv, BranchEvents, ResolvedOK, InitBlockEmpty, BlockEventsOK,
              OneOperationPerBlock, EventKeysUnique
<1> QED
  BY <1>1, <1>2, <1>3, <1>4, <1>5 DEF Next

-----------------------------------------------------------------------------
\* What the published events of a branch say about its objects.

\* Elements of a finite set of numbers differ in how many are below them.
LEMMA RanksDiffer ==
    ASSUME NEW keys \in SUBSET Nat, IsFiniteSet(keys), NEW k \in keys, NEW l \in keys,
           Cardinality({x \in keys : x < k}) = Cardinality({x \in keys : x < l})
    PROVE  k = l
<1> DEFINE Below(y) == {x \in keys : x < y}
<1>1. ASSUME NEW y \in keys, NEW z \in keys, y < z
      PROVE  Cardinality(Below(y)) # Cardinality(Below(z))
  <2>1. IsFiniteSet(Below(z))
    BY FS_Subset
  <2>2. Below(y) \in SUBSET Below(z) /\ y \in Below(z) /\ y \notin Below(y)
    <3>1. y \in Nat /\ z \in Nat /\ ~ (y < y)
      BY <1>1
    <3>2. ASSUME NEW x \in keys, x < y
          PROVE  x < z
      BY <1>1, <3>1, <3>2
    <3> QED
      BY <1>1, <3>1, <3>2, Zenon
  <2>3. Below(y) # Below(z)
    BY <2>2
  <2> HIDE DEF Below
  <2> QED
    BY <2>1, <2>2, <2>3, FS_Subset
<1>2. k < l \/ l < k \/ k = l
  OBVIOUS
<1> QED
  BY <1>1, <1>2

\* A transaction spends finitely many carriers.
LEMMA SpentKeysFinite ==
    ASSUME NEW st, NEW tx, IsSeq(tx.inputs)
    PROVE  IsFiniteSet(SpentKeys(st, tx))
<1> DEFINE C == carrier_spends(st, tx)
           T == SpentKeys(st, tx)
           f == [i \in C |-> st.active[tx.inputs[i].prevout]]
<1>1. Len(tx.inputs) \in Nat /\ DOMAIN tx.inputs = 1..Len(tx.inputs)
  BY SequencesAreSeq
<1>2. IsFiniteSet(1..Len(tx.inputs)) /\ C \in SUBSET (1..Len(tx.inputs))
  BY <1>1, FS_Interval DEF carrier_spends
<1>3. IsFiniteSet(C)
  BY <1>2, FS_Subset, ZenonT(30)
<1>4. f \in Surjection(C, T)
  BY DEF SpentKeys, Surjection
<1> QED
  BY <1>3, <1>4, FS_Surjection

\* The exit events of a transaction have different sub_index values.
LEMMA RanksAreDistinct == ReducerInv => RanksDistinct
<1> SUFFICES ASSUME ReducerInv, InTransactions
             PROVE  RanksDistinct
  BY DEF RanksDistinct
<1> DEFINE K == SpentKeys(state, CurrentTx)
<1>1. ViewOK(CurrentTx) /\ Sound(state, mined)
  BY CurrentIsFresh, ZenonT(30) DEF ReducerInv
<1>2. K \in SUBSET DOMAIN state.objects /\ DOMAIN state.objects \subseteq Nat
  BY <1>1, SpentAreActive, SoundTypes, Zenon DEF Txid
<1>3. IsFiniteSet(K)
  BY <1>1, SpentKeysFinite, ZenonT(30) DEF ViewOK
<1>4. K \in SUBSET Nat
  BY <1>2
<1> HIDE DEF K
<1>5. \A k, l \in K : Cardinality({x \in K : x < k}) = Cardinality({x \in K : x < l}) => k = l
  BY <1>3, <1>4, RanksDiffer
<1> QED
  BY <1>5 DEF RanksDistinct, K

-----------------------------------------------------------------------------
(* Theorems. *)

\* Objects, unspent outputs and published events agree in every reachable state,
\* and in every state that a rollback can restore.
THEOREM EventInvariant ==
    Spec => []EventInv
BY InitEvents, NextKeepsEvents, RanksAreDistinct, ReducerInvariant, LinkInvariant, PTL DEF Spec

\* No spend of a carrier escapes process_transaction: whatever the blocks and
\* the rollbacks, the indexed outpoints are unspent carriers of their objects.
THEOREM CarriersUnspent ==
    Spec => []CarrierUnspent
<1>1. ReducerInv /\ EventInv => CarrierUnspent
  <2> SUFFICES ASSUME ReducerInv, EventInv, NEW p \in DOMAIN state.active
               PROVE  /\ p \in DOMAIN coins
                      /\ coins[p].value = CARRIER_VALUE
                      /\ coins[p].script_pubkey
                            = carrier_script(state.objects[state.active[p]].keys)
    BY ZenonT(30) DEF CarrierUnspent
  <2>1. /\ state.active[p] \in DOMAIN state.objects
        /\ state.objects[state.active[p]].status = "Active"
        /\ state.objects[state.active[p]].current_outpoint = p
    BY Zenon DEF ReducerInv, Sound, IndexCoherent
  <2> QED
    BY <2>1, Zenon DEF EventInv, Level, ObjectOK, Carried
<1> QED
  BY <1>1, ReducerInvariant, EventInvariant, PTL

\* check_provenance: an object takes at most one valid operation per block.
THEOREM OperationsPerBlock ==
    Spec => []OneOperationPerBlock
<1>1. EventInv => OneOperationPerBlock
  BY Zenon DEF EventInv, BlockEventsOK
<1> QED
  BY <1>1, EventInvariant, PTL

\* The primary key of canonical_events identifies an event, however many
\* carriers a transaction spends.
THEOREM EventsKeyed ==
    Spec => []EventKeysUnique
<1>1. EventInv => EventKeysUnique
  BY DEF EventInv, BlockEventsOK
<1> QED
  BY <1>1, EventInvariant, PTL

\* A valid refund is REFUND_DELAY blocks later than every other event of its object.
THEOREM RefundsAreMature ==
    Spec => []RefundAfterDelay
<1>1. EventInv => RefundAfterDelay
  BY Zenon DEF EventInv, Level, RefundsMature, RefundAfterDelay
<1> QED
  BY <1>1, EventInvariant, PTL

\* The last event of an object is unique: two would each come before the other.
LEMMA LastIsUnique ==
    ASSUME NEW mine, NEW last \in mine,
           \A e \in mine : e.height \in Nat /\ e.tx_index \in Int,
           \A f \in mine : f = last \/ Precedes(f, last)
    PROVE  (CHOOSE e \in mine : \A f \in mine : f = e \/ Precedes(f, e)) = last
<1> DEFINE P(e) == \A f \in mine : f = e \/ Precedes(f, e)
<1>1. ASSUME NEW e \in mine, P(e) PROVE e = last
  <2> SUFFICES ASSUME e # last PROVE FALSE
    OBVIOUS
  <2>1. Precedes(e, last) /\ Precedes(last, e)
    BY <1>1
  <2> QED
    BY <2>1 DEF Precedes
<1>2. P(last)
  OBVIOUS
<1> HIDE DEF P
<1>3. (CHOOSE e \in mine : P(e)) = last
  BY <1>1, <1>2
<1> QED
  BY <1>3 DEF P

\* The events of the branch alone determine every object: its status, sequence,
\* carrier and chapters.
THEOREM EventsDetermineObjects ==
    Spec => []EventsExplainObjects
<1>1. EventInv => EventsExplainObjects
  <2> SUFFICES ASSUME EventInv PROVE EventsExplainObjects
    BY ZenonT(30)
  <2>1. /\ ZERO \notin DOMAIN state.objects
        /\ \A k \in DOMAIN state.objects : Explained(state.objects[k], k, BranchEvents)
        /\ \A e \in BranchEvents : EventOK(e, state)
    BY Zenon DEF EventInv, Level, ObjectOK
  <2>2. {e.object_key : e \in BranchEvents} \ {ZERO} = DOMAIN state.objects
    <3>1. ASSUME NEW k \in DOMAIN state.objects
          PROVE  \E e \in BranchEvents : e.object_key = k
      BY <2>1 DEF Explained, EventsOf
    <3>2. ASSUME NEW e \in BranchEvents, e.object_key # ZERO
          PROVE  e.object_key \in DOMAIN state.objects
      BY <2>1, <3>2, ZenonT(30) DEF EventOK
    <3> QED
      BY <2>1, <3>1, <3>2
  <2>3. ASSUME NEW k \in DOMAIN state.objects
        PROVE  LET mine == {e \in BranchEvents : e.object_key = k}
                   last == CHOOSE e \in mine : \A f \in mine : f = e \/ Precedes(f, e)
                   obj  == state.objects[k]
               IN  /\ \A e \in mine : e.event_type # "Create" =>
                        \E f \in mine : Precedes(f, e) /\ f.successor = e.predecessor
                   /\ obj.status = StatusAfter(last.event_type)
                   /\ obj.state_seq = last.state_seq
                   /\ obj.current_outpoint = last.successor
                   /\ obj.chapter_count = Cardinality({e \in mine : e.event_type = "Mark"})
    <3> DEFINE mine == {e \in BranchEvents : e.object_key = k}
               obj == state.objects[k]
    <3>1. mine = EventsOf(BranchEvents, k)
      BY DEF EventsOf
    <3>2. {e \in mine : e.event_type = "Mark"} = MarksOf(BranchEvents, k)
      BY DEF MarksOf
    <3>3. \A e \in mine : e.height \in Nat /\ e.tx_index \in Int
      BY <2>1 DEF EventOK
    <3>4. Explained(obj, k, BranchEvents)
      BY <2>1, ZenonT(30)
    <3> HIDE DEF mine, obj
    <3>5. PICK last \in mine : /\ \A f \in mine : f = last \/ Precedes(f, last)
                               /\ obj.status = StatusAfter(last.event_type)
                               /\ obj.state_seq = last.state_seq
                               /\ obj.current_outpoint = last.successor
      BY <3>1, <3>4, ZenonT(30) DEF Explained
    <3>6. (CHOOSE e \in mine : \A f \in mine : f = e \/ Precedes(f, e)) = last
      BY <3>3, <3>5, LastIsUnique
    <3>7. /\ \A e \in mine : e.event_type # "Create" =>
                \E f \in mine : Precedes(f, e) /\ f.successor = e.predecessor
          /\ obj.chapter_count = Cardinality({e \in mine : e.event_type = "Mark"})
      BY <3>1, <3>2, <3>4, FS_CountingElements, Zenon DEF Explained
    <3>8. LET l == CHOOSE e \in mine : \A f \in mine : f = e \/ Precedes(f, e)
          IN  /\ obj.status = StatusAfter(l.event_type)
              /\ obj.state_seq = l.state_seq
              /\ obj.current_outpoint = l.successor
      BY <3>5, <3>6, ZenonT(30)
    <3> QED
      BY <3>7, <3>8, ZenonT(30) DEF mine, obj
  <2> QED
    BY <2>2, <2>3, ZenonT(30) DEF EventsExplainObjects
<1> QED
  BY <1>1, EventInvariant, PTL

\* Except for a rollback, no step forgets an object, touches a terminal one,
\* rewrites an identity or skips a sequence number.
THEOREM ObjectsAdvance ==
    Spec => ObjectsOnlyAdvance
<1> DEFINE A == ~Disconnecting =>
                    \A k \in DOMAIN state.objects :
                        /\ k \in DOMAIN state'.objects
                        /\ Advances(state.objects[k], state'.objects[k])
<1>1. ReducerInv /\ EventInv /\ [Next]_vars => [A]_vars
  <2> SUFFICES ASSUME ReducerInv, EventInv, Next PROVE A
    OBVIOUS
  <2>1. state'.objects = state.objects => A
    BY DEF Advances
  <2>2. CASE \E height \in 1..MaxHeight, previous \in {state.tip_hash, <<>>} :
                \/ BeginInitBlock(height, previous)
                \/ BeginFailedInitBlock(height, previous)
                \/ BeginBlock(height, previous)
    <3>1. state' = state \/ \E status : state' = [state EXCEPT !.protocol_status = status]
      <4>1. ASSUME NEW height, NEW previous, BeginInitBlock(height, previous)
            PROVE  \E status : state' = [state EXCEPT !.protocol_status = status]
        BY <4>1, ZenonT(30) DEF BeginInitBlock
      <4>2. ASSUME NEW height, NEW previous, BeginFailedInitBlock(height, previous)
            PROVE  \E status : state' = [state EXCEPT !.protocol_status = status]
        BY <4>2 DEF BeginFailedInitBlock
      <4>3. ASSUME NEW height, NEW previous, BeginBlock(height, previous)
            PROVE  state' = state
        BY <4>3, ZenonT(30) DEF BeginBlock
      <4> QED
        BY <2>2, <4>1, <4>2, <4>3
    <3>2. state'.objects = state.objects
      BY <3>1, ZenonT(30) DEF ReducerInv, TypeOK, ChainStateOK
    <3> QED
      BY <2>1, <3>2, ZenonT(30)
  <2>3. CASE \/ SkipTransaction \/ ProcessInit \/ ProcessIgnored \/ ProcessInvalid
             \/ ProcessExit \/ ProcessCreate \/ ProcessMark \/ ProcessRotate
             \/ ProcessClose \/ ProcessRefund
    <3>1. PICK keys, event, bare : Effect(keys, event, bare)
      BY <2>3, RanksAreDistinct, ProcessingHasEffect, Zenon DEF EventInv
    <3>2. /\ DOMAIN state'.objects = DOMAIN state.objects \cup keys
          /\ \A k \in DOMAIN state.objects \ keys : state'.objects[k] = state.objects[k]
          /\ \A k \in keys : k \in DOMAIN state.objects =>
                Advances(state.objects[k], state'.objects[k])
      BY <3>1, Zenon DEF Effect, Advanced
    <3> QED
      BY <3>2, Zenon DEF Advances
  <2>4. CASE FinishBlock
    <3>1. state'.objects = state.objects
      BY <2>4 DEF FinishBlock, ReducerInv, TypeOK, ChainStateOK
    <3> QED
      BY <2>1, <3>1
  <2>5. CASE DisconnectBlock
    <3>1. Len(journal) \in Nat /\ Len(journal') = Len(journal) - 1
      BY <2>5, DisconnectedJournal, ZenonT(30)
    <3> QED
      BY <3>1 DEF Disconnecting
  <2> QED
    BY <2>2, <2>3, <2>4, <2>5 DEF Next
<1> QED
  BY <1>1, ReducerInvariant, EventInvariant, PTL DEF Spec, ObjectsOnlyAdvance
================================================================================
