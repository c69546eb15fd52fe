------------------------------- MODULE Reducer --------------------------------
(***************************************************************************)
(* tandem-core's reducer: apply_block and disconnect_block over the blocks *)
(* of one Bitcoin branch, with the inverse journal the store keeps.        *)
(*                                                                         *)
(* apply_block runs in memory with nothing else in between.  It is split   *)
(* into a Begin step, one step per transaction and FinishBlock, and no     *)
(* other action is enabled until it finishes.  A block that apply_block    *)
(* rejects changes nothing, so a rejection is a guard that fails.          *)
(*                                                                         *)
(* Bitcoin (external) is the set of unspent outputs and of confirmed       *)
(* transaction ids: a block spends only unspent outputs, each once, and    *)
(* never repeats a transaction id.  Nothing else is assumed of blocks, not *)
(* even that relative locktimes or signatures were checked.                *)
(***************************************************************************)
EXTENDS Validation

CONSTANTS
    Transaction,   \* raw transactions that blocks may contain
    Funding,       \* outputs that exist before the first processed block
    MaxHeight,     \* bound on block heights
    MaxBlockTxs    \* bound on transactions per block

VARIABLES
    coins,     \* external: unspent outpoint -> [value, script_pubkey, height]
    mined,     \* external: confirmed transaction ids
    undo,      \* external: <<coins, mined>> before each connected block
    state,     \* ChainState
    journal,   \* BlockDeltas of the connected blocks, oldest first
    block,     \* BlockView being reduced
    index,     \* number of its transactions already processed
    before,    \* apply_block's clone of the state
    events,    \* events of the block so far
    reducing   \* TRUE inside apply_block

vars == <<coins, mined, undo, state, journal, block, index, before, events, reducing>>

NoBlock == [hash |-> <<>>, previous_hash |-> <<>>, height |-> 0, transactions |-> <<>>]

-----------------------------------------------------------------------------
(* Bitcoin. *)

Marker ==
    [parses : BOOLEAN, version_ok : BOOLEAN, network_ok : BOOLEAN,
     opcode : Opcode \cup {"Unknown"}, namespace_ok : BOOLEAN, fields_ok : BOOLEAN,
     sequence : Nat, commitment : Nat, h_open : Nat, h_close : Nat]

Script ==
    ({"p2wpkh"} \X Nat) \cup ({"carrier"} \X Nat \X Nat) \cup ({"marker"} \X Marker)
    \cup {<<"op_return">>, <<"other">>}

Witness == ({"p2wpkh"} \X Nat) \cup ({"carrier"} \X Nat \X Nat) \cup {<<"none">>}

RawInput == [prevout : OutPoint, sequence : {"rbf", "final", "refund"},
             witness : Witness, signatures_valid : BOOLEAN]
RawOutput == [value : Nat, script_pubkey : Script]
RawTransaction == [txid : Nat \ {0}, header_ok : BOOLEAN,
                   inputs : Seq(RawInput), outputs : Seq(RawOutput)]
Coin == [value : Nat, script_pubkey : Script, height : Nat]

ASSUME BitcoinAssumption ==
    /\ Transaction \subseteq RawTransaction
    /\ DOMAIN Funding \subseteq (Nat \ {0}) \X Nat
    /\ \A p \in DOMAIN Funding : Funding[p] \in Coin
    /\ MaxHeight \in Nat
    /\ MaxBlockTxs \in Nat

Prevouts(tx) == {tx.inputs[i].prevout : i \in DOMAIN tx.inputs} \ {ZERO_OUTPOINT}
Outpoints(tx) == {<<tx.txid, vout(j)>> : j \in DOMAIN tx.outputs}

CoinOf(tx, p, height) ==
    [value |-> tx.outputs[p[2] + 1].value,
     script_pubkey |-> tx.outputs[p[2] + 1].script_pubkey,
     height |-> height]

\* The unspent outputs after tx confirms at height.
Confirm(utxo, tx, height) ==
    [p \in (DOMAIN utxo \ Prevouts(tx)) \cup Outpoints(tx) |->
        IF p \in Outpoints(tx) THEN CoinOf(tx, p, height) ELSE utxo[p]]

\* txs may be the transactions of a block on top of the current branch.
Minable(txs) ==
    /\ \A i \in DOMAIN txs : txs[i].txid \notin mined
    /\ \A i, j \in DOMAIN txs : txs[i].txid = txs[j].txid => i = j
    /\ \A i \in DOMAIN txs : \A p \in Prevouts(txs[i]) :
            \/ p \in DOMAIN coins
            \/ \E j \in 1..(i - 1) : p \in Outpoints(txs[j])
    /\ \A i, j \in DOMAIN txs : \A a \in DOMAIN txs[i].inputs, b \in DOMAIN txs[j].inputs :
            /\ txs[i].inputs[a].prevout = txs[j].inputs[b].prevout
            /\ txs[i].inputs[a].prevout # ZERO_OUTPOINT
            => i = j /\ a = b

\* The parent output of an input: of the same block before any other, since
\* block() looks its local map up first.
ParentCoin(txs, height, p) ==
    IF \E i \in DOMAIN txs : p \in Outpoints(txs[i])
    THEN CoinOf(txs[CHOOSE i \in DOMAIN txs : p \in Outpoints(txs[i])], p, height)
    ELSE coins[p]

resolve_input(txs, height, in) ==
    LET coin == IF in.prevout = ZERO_OUTPOINT
                THEN [value |-> 0, script_pubkey |-> <<"none">>, height |-> NoHeight]
                ELSE ParentCoin(txs, height, in.prevout)
    IN  [prevout |-> in.prevout, sequence |-> in.sequence, witness |-> in.witness,
         signatures_valid |-> in.signatures_valid /\ in.prevout # ZERO_OUTPOINT,
         prevout_value |-> coin.value, prevout_script |-> coin.script_pubkey,
         prevout_height |-> coin.height]

resolve_transaction(txs, height, tx) ==
    [txid |-> tx.txid, header_ok |-> tx.header_ok, outputs |-> tx.outputs,
     inputs |-> [i \in DOMAIN tx.inputs |-> resolve_input(txs, height, tx.inputs[i])]]

\* A block hash commits to the parent, the height and the transactions.
BlockView(height, previous, txs) ==
    [hash |-> Append(previous, <<height, [i \in DOMAIN txs |-> txs[i].txid]>>),
     previous_hash |-> previous, height |-> height,
     transactions |-> [i \in DOMAIN txs |-> resolve_transaction(txs, height, txs[i])]]

BlockTxs == UNION {[1..n -> Transaction] : n \in 0..MaxBlockTxs}

-----------------------------------------------------------------------------
(* Events. *)

Event(tx, event_index, sub_index, type, class, reason, key, seq, pred, succ) ==
    [height |-> block.height, tx_index |-> index, event_index |-> event_index,
     sub_index |-> sub_index, event_type |-> type, validity_class |-> class,
     reason |-> reason, txid |-> tx.txid, object_key |-> key, state_seq |-> seq,
     predecessor |-> pred, successor |-> succ]

valid_event_base(tx, event_index, type, key, seq, pred, succ) ==
    Event(tx, event_index, 0, type, "ValidOperation", "Valid", key, seq, pred, succ)

bare_invalid_event(tx, event_index, type, reason) ==
    Event(tx, event_index, 0, type, "InvalidNoState", reason, ZERO, U32_MAX,
          ZERO_OUTPOINT, ZERO_OUTPOINT)

\* Fault: every exit event has sub_index 0.
exit_events_unnumbered(tx, event_index, reason, keys) ==
    {Event(tx, event_index, 0, "ExitedNoncanonical",
           "TerminalNoncanonical", reason, key, state.objects[key].state_seq,
           state.objects[key].current_outpoint, ZERO_OUTPOINT) : key \in keys}

\* One event per consumed carrier, numbered in object-key order.
exit_events(tx, event_index, reason, keys) ==
    {Event(tx, event_index, Cardinality({k \in keys : k < key}), "ExitedNoncanonical",
           "TerminalNoncanonical", reason, key, state.objects[key].state_seq,
           state.objects[key].current_outpoint, ZERO_OUTPOINT) : key \in keys}

-----------------------------------------------------------------------------
(* process_transaction: what a transaction is, then what it does. *)

carrier_spends(st, tx) ==
    {i \in DOMAIN tx.inputs :
        /\ tx.inputs[i].prevout \in DOMAIN st.active
        /\ st.active[tx.inputs[i].prevout] \in DOMAIN st.objects}

\* Fault: only the first consumed carrier is terminated.
SpentKeysFirstOnly(st, tx) ==
    LET C == carrier_spends(st, tx)
    IN  {st.active[tx.inputs[i].prevout] : i \in {x \in C : \A y \in C : x <= y}}

SpentKeys(st, tx) == {st.active[tx.inputs[i].prevout] : i \in carrier_spends(st, tx)}

Several(S) == \E x, y \in S : x # y

\* event_index: the lowest candidate vout, u32::MAX without a marker.
EventIndex(tx) ==
    LET M == marker_candidates(tx)
    IN  IF M = {} THEN U32_MAX ELSE vout(CHOOSE i \in M : \A j \in M : i <= j)

\* The branch of process_transaction that tx takes: "Ignored", "Refund", the
\* opcode of a valid operation, or the reason of the failure.
Outcome(st, height, tx) ==
    LET M == marker_candidates(tx)
        C == carrier_spends(st, tx)
        i == CHOOSE x \in M : TRUE
        m == marker_at(tx, i)
        reason == validate_single(st, height, tx, vout(i), m, C)
        obj == object_at(st, tx.inputs[CHOOSE x \in C : TRUE].prevout)
    IN  IF Several(M)                  THEN "MultipleMarkers" ELSE
        IF Several(C)                  THEN "MultipleCarriers" ELSE
        IF M # {}                      THEN IF reason = "Valid" THEN m.opcode ELSE reason ELSE
        IF C = {}                      THEN "Ignored" ELSE
        IF Len(tx.inputs) # 1 \/ Len(tx.outputs) # 2 THEN "UnmarkedCarrierSpend" ELSE
        IF validate_refund(height, tx, obj) THEN "Refund" ELSE "BadRefundShapeOrMaturity"

FailureReason ==
    {"MultipleMarkers", "MultipleCarriers", "BadMarkerEncodingOrLength", "UnknownVersion",
     "WrongNetwork", "UnknownOpcode", "UnsupportedOrReservedField", "WrongNamespace",
     "BadTxVersionOrLocktime", "BadInputCountOrOrder", "BadOutputCountOrOrder",
     "UnconfirmedOrSameBlockPrevout", "BadInputScript", "BadKeyOrderOrBinding",
     "BadSignatureOrSighash", "BadOutputScriptOrValue", "NonpositiveOrInvalidFee",
     "BadFeeSplitOrChange", "BadHeightOrPhase", "PredecessorNotActive", "BadStateSequence",
     "BadSuccessor", "BadCommitment", "UnmarkedCarrierSpend", "BadRefundShapeOrMaturity"}

\* Only a transaction with exactly one candidate names the attempted operation.
AttemptedType(tx) ==
    LET M == marker_candidates(tx)
    IN  IF Several(M) \/ M = {} THEN "Invalid"
        ELSE attempted_event_type(marker_at(tx, CHOOSE i \in M : TRUE))

Ended(obj, status, txid) ==
    [obj EXCEPT !.status = status, !.current_outpoint = ZERO_OUTPOINT, !.terminal_txid = txid]

\* The carriers of keys leave the index and their objects end.
terminate_object(st, keys, status, txid) ==
    [st EXCEPT
        !.active = MapRemove(st.active, {st.objects[k].current_outpoint : k \in keys}),
        !.objects = [k \in DOMAIN st.objects |->
            IF k \in keys THEN Ended(st.objects[k], status, txid) ELSE st.objects[k]]]

\* active.insert and objects.insert.
insert_object(st, obj) ==
    [st EXCEPT !.active = MapInsert(st.active, obj.current_outpoint, obj.object_key),
               !.objects = MapInsert(st.objects, obj.object_key, obj)]

\* Fault: the predecessor stays in the index.
move_carrier_keeps_predecessor(st, obj, txid) ==
    insert_object(st, [obj EXCEPT !.current_outpoint = successor(txid)])

\* The carrier of obj moves to the successor output.
move_carrier(st, obj, txid) ==
    insert_object([st EXCEPT !.active = MapRemove(st.active, {obj.current_outpoint})],
                  [obj EXCEPT !.current_outpoint = successor(txid)])

WithSequence(obj, seq) == [obj EXCEPT !.state_seq = seq]

\* CLOSE: `stored.state_seq = sequence` after terminate_object.
set_sequence(st, key, seq) ==
    [st EXCEPT !.objects = MapInsert(st.objects, key, WithSequence(st.objects[key], seq))]

Marked(obj, seq) ==
    [obj EXCEPT !.state_seq = seq, !.chapter_count = obj.chapter_count + 1]

Rotated(obj, seq, keys) == [obj EXCEPT !.state_seq = seq, !.keys = keys]

NewObject(st, height, tx, keys) ==
    [object_key |-> object_key(tx.txid), genesis |-> successor(tx.txid),
     founding |-> st.protocol_status.h_open <= height /\ height < st.protocol_status.h_close,
     status |-> "Active", create_height |-> height, state_seq |-> 0,
     current_outpoint |-> successor(tx.txid), keys |-> keys,
     terminal_txid |-> ZERO, chapter_count |-> 0]

-----------------------------------------------------------------------------
(* apply_block. *)

\* Fault: the parent hash is not compared.
validate_linkage_height_only(height, previous) ==
    state.tip_height # NoHeight => height = state.tip_height + 1

validate_linkage(height, previous) ==
    state.tip_height # NoHeight =>
        /\ height = state.tip_height + 1
        /\ previous = state.tip_hash

StartBlock(height, previous, txs) ==
    /\ block' = BlockView(height, previous, txs)
    /\ before' = state
    /\ undo' = Append(undo, <<coins, mined>>)
    /\ reducing' = TRUE
    /\ UNCHANGED <<coins, mined, journal, index>>

\* The configured INIT is in txs and valid at height: the protocol is active
\* before the first transaction of the block is processed.
BeginInitBlock(height, previous) ==
    /\ ~reducing
    /\ validate_linkage(height, previous)
    /\ state.protocol_status = AwaitingInit
    /\ \E txs \in BlockTxs : \E i \in DOMAIN txs :
        /\ txs[i].txid = INIT_TXID
        /\ Minable(txs)
        /\ LET tx == resolve_transaction(txs, height, txs[i])
               m  == marker_at(tx, CHOOSE x \in marker_candidates(tx) : TRUE)
           IN  /\ validate_configured_init(height, tx) = "Valid"
               /\ state' = [state EXCEPT !.protocol_status =
                                ActiveProtocol(height, m.h_open, m.h_close)]
        /\ events' = {}
        /\ StartBlock(height, previous, txs)

\* The configured INIT is in txs and invalid: the deployment is dead.
BeginFailedInitBlock(height, previous) ==
    /\ ~reducing
    /\ validate_linkage(height, previous)
    /\ state.protocol_status = AwaitingInit
    /\ \E txs \in BlockTxs : \E i \in DOMAIN txs :
        /\ txs[i].txid = INIT_TXID
        /\ Minable(txs)
        /\ LET tx == resolve_transaction(txs, height, txs[i])
               reason == validate_configured_init(height, tx)
           IN  /\ reason # "Valid"
               /\ state' = [state EXCEPT !.protocol_status = FailedInit(reason, height)]
               /\ events' = {[bare_invalid_event(tx, EventIndex(tx), AttemptedType(tx), reason)
                                EXCEPT !.height = height, !.tx_index = i - 1]}
        /\ StartBlock(height, previous, txs)

BeginBlock(height, previous) ==
    /\ ~reducing
    /\ validate_linkage(height, previous)
    /\ state.protocol_status # AwaitingInit
    /\ \E txs \in BlockTxs :
        /\ Minable(txs)
        /\ StartBlock(height, previous, txs)
    /\ events' = {}
    /\ UNCHANGED state

CurrentTx == block.transactions[index + 1]

\* One transaction is processed: st is the new state, new its events.
Processed(st, new) ==
    /\ state' = st
    /\ events' = events \cup new
    /\ index' = index + 1
    /\ coins' = Confirm(coins, CurrentTx, block.height)
    /\ mined' = mined \cup {CurrentTx.txid}
    /\ UNCHANGED <<undo, journal, block, before, reducing>>

InTransactions == reducing /\ index < Len(block.transactions)

\* FailedInit: no transaction is looked at, in the INIT block or later.
SkipTransaction ==
    /\ InTransactions
    /\ state.protocol_status.state = "FailedInit"
    /\ Processed(state, {})

\* The INIT transaction itself, in its own block.
ProcessInit ==
    /\ InTransactions
    /\ state.protocol_status.state = "Active"
    /\ before.protocol_status = AwaitingInit
    /\ CurrentTx.txid = INIT_TXID
    /\ Processed(state, {valid_event_base(CurrentTx, EventIndex(CurrentTx), "Init", ZERO,
                                          U32_MAX, ZERO_OUTPOINT, ZERO_OUTPOINT)})

\* process_transaction is called and takes one of the branches.
Process(outcomes) ==
    /\ InTransactions
    /\ state.protocol_status.state = "Active"
    /\ ~(before.protocol_status = AwaitingInit /\ CurrentTx.txid = INIT_TXID)
    /\ Outcome(state, block.height, CurrentTx) \in outcomes

ProcessIgnored ==
    /\ Process({"Ignored"})
    /\ Processed(state, {})

\* A failed marker that spends no carrier leaves a record and no state.
ProcessInvalid ==
    /\ Process(FailureReason)
    /\ carrier_spends(state, CurrentTx) = {}
    /\ Processed(state, {bare_invalid_event(CurrentTx, EventIndex(CurrentTx),
                                            AttemptedType(CurrentTx),
                                            Outcome(state, block.height, CurrentTx))})

\* terminate_carriers: any other spend of carriers ends all their objects.
ProcessExit ==
    /\ Process(FailureReason)
    /\ carrier_spends(state, CurrentTx) # {}
    /\ LET keys == SpentKeys(state, CurrentTx)
       IN  Processed(terminate_object(state, keys, "ExitedNoncanonical", CurrentTx.txid),
                     exit_events(CurrentTx, EventIndex(CurrentTx),
                                 Outcome(state, block.height, CurrentTx), keys))

ProcessCreate ==
    /\ Process({"Create"})
    /\ LET tx   == CurrentTx
           keys == checked(p2wpkh_key(tx.inputs[1]), p2wpkh_key(tx.inputs[2]))
           obj  == NewObject(state, block.height, tx, keys)
       IN  Processed(
             insert_object(state, obj),
             {valid_event_base(tx, EventIndex(tx), "Create", obj.object_key, 0,
                               ZERO_OUTPOINT, successor(tx.txid))})

\* The object whose carrier is input 0 of the current transaction.
CurrentObject == object_at(state, CurrentTx.inputs[1].prevout)

ProcessMark ==
    /\ Process({"Mark"})
    /\ LET tx  == CurrentTx
           obj == CurrentObject
           m   == marker_at(tx, 1)
       IN  Processed(
             move_carrier(state, Marked(obj, m.sequence), tx.txid),
             {valid_event_base(tx, EventIndex(tx), "Mark", obj.object_key, m.sequence,
                               obj.current_outpoint, successor(tx.txid))})

ProcessRotate ==
    /\ Process({"Rotate"})
    /\ LET tx   == CurrentTx
           obj  == CurrentObject
           m    == marker_at(tx, 1)
           keys == checked(p2wpkh_key(tx.inputs[2]), p2wpkh_key(tx.inputs[3]))
       IN  Processed(
             move_carrier(state, Rotated(obj, m.sequence, keys), tx.txid),
             {valid_event_base(tx, EventIndex(tx), "Rotate", obj.object_key, m.sequence,
                               obj.current_outpoint, successor(tx.txid))})

\* Fault: the stored object keeps its old sequence.
ProcessCloseStaleSequence ==
    /\ Process({"Close"})
    /\ LET tx  == CurrentTx
           obj == CurrentObject
           m   == marker_at(tx, 1)
       IN  Processed(terminate_object(state, {obj.object_key}, "Closed", tx.txid),
             {valid_event_base(tx, EventIndex(tx), "Close", obj.object_key, m.sequence,
                               obj.current_outpoint, ZERO_OUTPOINT)})

ProcessClose ==
    /\ Process({"Close"})
    /\ LET tx  == CurrentTx
           obj == CurrentObject
           m   == marker_at(tx, 1)
           st  == terminate_object(state, {obj.object_key}, "Closed", tx.txid)
       IN  Processed(set_sequence(st, obj.object_key, m.sequence),
             {valid_event_base(tx, EventIndex(tx), "Close", obj.object_key, m.sequence,
                               obj.current_outpoint, ZERO_OUTPOINT)})

ProcessRefund ==
    /\ Process({"Refund"})
    /\ LET tx  == CurrentTx
           obj == CurrentObject
       IN  Processed(terminate_object(state, {obj.object_key}, "Refunded", tx.txid),
             {valid_event_base(tx, U32_MAX, "Refund", obj.object_key, obj.state_seq,
                               obj.current_outpoint, ZERO_OUTPOINT)})

\* Roots, counters and the new tip; the delta goes to the journal.
FinishBlock ==
    /\ reducing
    /\ index = Len(block.transactions)
    /\ LET root == block_root(state.chained_root, block.hash, block.height, events,
                              state.objects, counters(state))
           st   == [state EXCEPT !.tip_height = block.height, !.tip_hash = block.hash,
                                 !.chained_root = root]
       IN  /\ state' = st
           /\ journal' = Append(journal,
                [before |-> before, block_hash |-> block.hash,
                 previous_hash |-> block.previous_hash, height |-> block.height,
                 events |-> events, chained_root |-> root])
           /\ before' = st
    /\ block' = NoBlock
    /\ index' = 0
    /\ events' = {}
    /\ reducing' = FALSE
    /\ UNCHANGED <<coins, mined, undo>>

\* disconnect_block with the newest delta; Bitcoin forgets the block too.
DisconnectBlock ==
    /\ ~reducing
    /\ journal # <<>>
    /\ LET delta == journal[Len(journal)]
           last  == undo[Len(undo)]
       IN  /\ state.tip_hash = delta.block_hash
           /\ state.tip_height = delta.height
           /\ state' = delta.before
           /\ before' = delta.before
           /\ coins' = last[1]
           /\ mined' = last[2]
    /\ journal' = SubSeq(journal, 1, Len(journal) - 1)
    /\ undo' = SubSeq(undo, 1, Len(undo) - 1)
    /\ UNCHANGED <<block, index, events, reducing>>

-----------------------------------------------------------------------------
Init ==
    /\ coins = Funding
    /\ mined = {p[1] : p \in DOMAIN Funding}
    /\ undo = <<>>
    /\ state = NewChainState
    /\ journal = <<>>
    /\ block = NoBlock
    /\ index = 0
    /\ before = NewChainState
    /\ events = {}
    /\ reducing = FALSE

\* A block may claim any height and either a right or a wrong parent.
Next ==
    \/ \E height \in 1..MaxHeight, previous \in {state.tip_hash, <<>>} :
        \/ BeginInitBlock(height, previous)
        \/ BeginFailedInitBlock(height, previous)
        \/ BeginBlock(height, previous)
    \/ SkipTransaction
    \/ ProcessInit
    \/ ProcessIgnored
    \/ ProcessInvalid
    \/ ProcessExit
    \/ ProcessCreate
    \/ ProcessMark
    \/ ProcessRotate
    \/ ProcessClose
    \/ ProcessRefund
    \/ FinishBlock
    \/ DisconnectBlock

Spec == Init /\ [][Next]_vars

-----------------------------------------------------------------------------
(* Properties. *)

ObjectState ==
    [object_key : Txid, genesis : OutPoint, founding : BOOLEAN,
     status : {"Active"} \cup TerminalStatus, create_height : Nat,
     state_seq : 0..U32_MAX, current_outpoint : OutPoint, keys : Nat \X Nat,
     terminal_txid : Txid, chapter_count : 0..U32_MAX]

ProtocolStatus ==
    {AwaitingInit}
    \cup [state : {"Active"}, init_height : Nat, h_open : Nat, h_close : Nat]
    \cup [state : {"FailedInit"}, reason : FailureReason, init_height : Nat]

\* Hashes and roots are whatever they commit to.
ChainStateOK(st) ==
    /\ st \in [protocol_status : ProtocolStatus, tip_height : Nat \cup {NoHeight},
               tip_hash : {st.tip_hash}, chained_root : {st.chained_root},
               objects : [DOMAIN st.objects -> ObjectState],
               active : [DOMAIN st.active -> Txid]]
    /\ DOMAIN st.objects \subseteq Txid
    /\ DOMAIN st.active \subseteq OutPoint

\* The machine widths of ChainState: an object's state_seq and chapter_count
\* fit a u32 in the current state, in the clone and in every journal entry.
TypeOK ==
    /\ ChainStateOK(state)
    /\ ChainStateOK(before)
    /\ \A i \in DOMAIN journal : ChainStateOK(journal[i].before)
    /\ index \in 0..Len(block.transactions)
    /\ reducing \in BOOLEAN
    /\ Len(undo) = Len(journal) + (IF reducing THEN 1 ELSE 0)

IndexCoherent(st) ==
    /\ \A p \in DOMAIN st.active :
        /\ st.active[p] \in DOMAIN st.objects
        /\ st.objects[st.active[p]].status = "Active"
        /\ st.objects[st.active[p]].current_outpoint = p
    /\ \A k \in DOMAIN st.objects :
        /\ st.objects[k].object_key = k
        /\ IF st.objects[k].status = "Active"
           THEN /\ st.objects[k].current_outpoint \in DOMAIN st.active
                /\ st.active[st.objects[k].current_outpoint] = k
           ELSE st.objects[k].current_outpoint = ZERO_OUTPOINT

\* The two maps that process_transaction updates one after the other, `active`
\* and `objects`, agree after every transaction and after every rollback: an
\* outpoint is indexed exactly when it is the carrier of one active object.
ActiveIndexCoherent == IndexCoherent(state)

\* The carrier of every active object is an unspent output of the branch, with
\* the carrier value and the object's own keys: no spend of a carrier, in any
\* block, by any number of inputs, escapes the reducer.
CarrierUnspent ==
    \A p \in DOMAIN state.active :
        /\ p \in DOMAIN coins
        /\ coins[p].value = CARRIER_VALUE
        /\ coins[p].script_pubkey = carrier_script(state.objects[state.active[p]].keys)

ChaptersBounded(st) ==
    \A k \in DOMAIN st.objects :
        /\ st.objects[k].chapter_count <= st.objects[k].state_seq
        /\ st.objects[k].state_seq <= U32_MAX

\* What apply_valid_operation's expect("chapter count bounded by state
\* sequence") relies on: the chapter increment cannot overflow, because chapters
\* never outnumber the checked state sequence.
ChapterCountBounded == ChaptersBounded(state)

\* check_provenance lets an object take one valid operation per block: its
\* carrier must be confirmed in an earlier block.
OneOperationPerBlock ==
    \A e, f \in events :
        /\ e.object_key = f.object_key /\ e.object_key # ZERO
        /\ e.validity_class = "ValidOperation" /\ f.validity_class = "ValidOperation"
        => e = f

BranchEvents == (UNION {journal[i].events : i \in DOMAIN journal}) \cup events

StatusAfter(type) ==
    CASE type = "Close" -> "Closed"
      [] type = "Refund" -> "Refunded"
      [] type = "ExitedNoncanonical" -> "ExitedNoncanonical"
      [] OTHER -> "Active"

Precedes(e, f) == e.height < f.height \/ (e.height = f.height /\ e.tx_index < f.tx_index)

\* The published events of the branch alone determine every object: each event
\* spends the outpoint the previous one created, the last one gives status,
\* sequence and carrier, and the MARKs count the chapters.
EventsExplainObjects ==
    /\ {e.object_key : e \in BranchEvents} \ {ZERO} = DOMAIN state.objects
    /\ \A k \in DOMAIN state.objects :
        LET mine == {e \in BranchEvents : e.object_key = k}
            last == CHOOSE e \in mine : \A f \in mine : f = e \/ Precedes(f, e)
            obj  == state.objects[k]
        IN  /\ \A e \in mine : e.event_type # "Create" =>
                \E f \in mine : Precedes(f, e) /\ f.successor = e.predecessor
            /\ obj.status = StatusAfter(last.event_type)
            /\ obj.state_seq = last.state_seq
            /\ obj.current_outpoint = last.successor
            /\ obj.chapter_count = Cardinality({e \in mine : e.event_type = "Mark"})

\* A refund counts as valid only REFUND_DELAY blocks after the last operation
\* of its object, over the whole branch: any MARK or ROTATE restarts the delay.
RefundAfterDelay ==
    \A e, f \in BranchEvents :
        /\ e.event_type = "Refund" /\ e.object_key = f.object_key /\ e # f
        => f.height + REFUND_DELAY <= e.height

\* The primary key of canonical_events: no two events of a block share transaction,
\* event and sub index, however many carriers a transaction spends.
EventKeysUnique ==
    \A e, f \in events :
        <<e.tx_index, e.event_index, e.sub_index>> = <<f.tx_index, f.event_index, f.sub_index>>
        => e = f

CreatedAfterOpen(st) ==
    \A k \in DOMAIN st.objects :
        /\ st.protocol_status.state = "Active"
        /\ st.objects[k].create_height >= st.protocol_status.h_open

\* An object exists only in an active deployment and was created at or after
\* h_open, although the INIT block activates the protocol for its own, and even
\* earlier, transactions.
ObjectsOnlyAfterOpen == CreatedAfterOpen(state)

\* The journal is one contiguous branch: every block extends the one below it,
\* and its inverse entry holds exactly the tip and root that block left.
JournalLinked ==
    \A i \in DOMAIN journal :
        LET next == IF i = Len(journal) THEN before ELSE journal[i + 1].before
        IN  /\ next.tip_hash = journal[i].block_hash
            /\ next.tip_height = journal[i].height
            /\ next.chained_root = journal[i].chained_root
            /\ i > 1 => /\ journal[i].previous_hash = journal[i - 1].block_hash
                        /\ journal[i].height = journal[i - 1].height + 1

Connected == INSTANCE CanonicalChain WITH
    chain <- [i \in DOMAIN journal |->
                [hash |-> journal[i].block_hash, previous_hash |-> journal[i].previous_hash,
                 height |-> journal[i].height]]

\* What apply_block and disconnect_block promise together: the processed blocks
\* change only by one linked block at the tip, whatever heights and parents the
\* offered blocks claim.
BranchIsCanonical == Connected!Spec

Disconnecting == Len(journal') < Len(journal)

Advances(old, new) ==
    \/ new = old
    \/ /\ old.status = "Active"
       /\ <<new.object_key, new.genesis, new.founding, new.create_height>>
            = <<old.object_key, old.genesis, old.founding, old.create_height>>
       /\ new.state_seq = old.state_seq + 1
            \/ (new.status \in {"Refunded", "ExitedNoncanonical"} /\ new.state_seq = old.state_seq)

\* Except for a rollback, no step forgets an object, touches a terminal one,
\* rewrites an identity, or moves a carrier without advancing the sequence by one.
ObjectsOnlyAdvance ==
    [][~Disconnecting =>
        \A k \in DOMAIN state.objects :
            /\ k \in DOMAIN state'.objects
            /\ Advances(state.objects[k], state'.objects[k])]_vars

-----------------------------------------------------------------------------
(* The inductive invariant behind the theorems of ReducerProofs. *)

\* Every object and every carrier comes from a confirmed transaction.
KnownTo(st, ids) ==
    /\ DOMAIN st.objects \subseteq ids
    /\ \A p \in DOMAIN st.active : p[1] \in ids

Sound(st, ids) ==
    /\ ChainStateOK(st)
    /\ IndexCoherent(st)
    /\ ChaptersBounded(st)
    /\ CreatedAfterOpen(st)
    /\ KnownTo(st, ids)

\* The transactions still to be processed are new and differ from each other.
PendingFresh ==
    \A i \in DOMAIN block.transactions : i > index =>
        /\ block.transactions[i].txid \notin mined
        /\ \A j \in DOMAIN block.transactions :
            block.transactions[i].txid = block.transactions[j].txid => i = j

IsSeq(s) == s \in Seq({s[i] : i \in DOMAIN s})

ViewOK(tx) ==
    /\ tx.txid \in Txid
    /\ tx.outputs \in Seq(RawOutput)
    /\ IsSeq(tx.inputs)
    /\ \A a \in DOMAIN tx.inputs : tx.inputs[a].witness \in Witness

BlockOK ==
    /\ block.height \in Nat
    /\ IsSeq(block.transactions)
    /\ \A i \in DOMAIN block.transactions : ViewOK(block.transactions[i])

StacksOK ==
    /\ IsSeq(journal)
    /\ IsSeq(undo)
    /\ \A i \in DOMAIN journal : Sound(journal[i].before, undo[i][2])

\* The state is sound for the confirmed transactions, and every state a
\* rollback can restore is sound for the transactions confirmed then: new
\* carriers therefore never collide with indexed ones.
ReducerInv ==
    /\ TypeOK
    /\ Sound(state, mined)
    /\ Sound(before, IF reducing THEN undo[Len(undo)][2] ELSE mined)
    /\ StacksOK
    /\ BlockOK
    /\ PendingFresh
    /\ ~reducing => block = NoBlock /\ index = 0

\* JournalLinked made inductive: the block being reduced extends the tip of the
\* clone, and between blocks the clone is the state itself.
LinkInv ==
    /\ JournalLinked
    /\ \A i \in DOMAIN journal : journal[i].height \in Nat
    /\ reducing /\ before.tip_height # NoHeight =>
        /\ block.previous_hash = before.tip_hash
        /\ block.height = before.tip_height + 1
    /\ ~reducing => state = before
===============================================================================
