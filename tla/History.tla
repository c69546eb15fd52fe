------------------------------- MODULE History --------------------------------
(***************************************************************************)
(* How the objects, the unspent outputs and the published events of a      *)
(* branch belong together: the inductive invariant EventInv behind         *)
(* Reducer's event properties, and what one processed transaction does.    *)
(***************************************************************************)
EXTENDS Reducer, Functions


-----------------------------------------------------------------------------
(* The inductive invariant. *)

\* The carrier of o is an unspent output with the right value and keys.
Carried(o, utxo) ==
    /\ o.current_outpoint \in DOMAIN utxo
    /\ utxo[o.current_outpoint].value = CARRIER_VALUE
    /\ utxo[o.current_outpoint].script_pubkey = carrier_script(o.keys)

EventsOf(evs, k) == {e \in evs : e.object_key = k}
MarksOf(evs, k) == {e \in evs : e.object_key = k /\ e.event_type = "Mark"}

\* The last event of k is the one that left o, and each but the first continues
\* an earlier one.  Its MARKs are as many as its chapters.
Explained(o, k, evs) ==
    /\ \E last \in EventsOf(evs, k) :
        /\ \A f \in EventsOf(evs, k) : f = last \/ Precedes(f, last)
        /\ o.status = StatusAfter(last.event_type)
        /\ o.state_seq = last.state_seq
        /\ o.current_outpoint = last.successor
    /\ \A e \in EventsOf(evs, k) : e.event_type # "Create" =>
        \E f \in EventsOf(evs, k) : Precedes(f, e) /\ f.successor = e.predecessor
    /\ o.chapter_count \in Nat
    /\ ExistsBijection(1 .. o.chapter_count, MarksOf(evs, k))

\* Unspent outputs belong to confirmed transactions.
UtxoOK(utxo, ids) ==
    \A p \in DOMAIN utxo : p[1] \in ids /\ p[1] # 0 /\ utxo[p].height \in Nat

\* An active object's carrier is unspent and no older than its last event.
ObjectOK(o, k, utxo, evs) ==
    /\ o.status = "Active" =>
        /\ Carried(o, utxo)
        /\ \A e \in EventsOf(evs, k) : e.event_type # "Refund"
                                       /\ e.height <= utxo[o.current_outpoint].height
    /\ Explained(o, k, evs)

RefundsMature(evs) ==
    \A e, f \in evs :
        e.event_type = "Refund" /\ e.object_key = f.object_key /\ e # f
        => f.height + REFUND_DELAY <= e.height

\* An event is about a known object, or about none and then no refund.
EventOK(e, st) ==
    /\ e.height \in Nat
    /\ e.tx_index \in Int
    /\ IF e.object_key = ZERO THEN e.event_type # "Refund"
                              ELSE e.object_key \in DOMAIN st.objects

\* Objects, unspent outputs and events of one point of the branch agree.
Level(st, utxo, ids, evs) ==
    /\ UtxoOK(utxo, ids)
    /\ ZERO \notin DOMAIN st.objects
    /\ \A k \in DOMAIN st.objects : ObjectOK(st.objects[k], k, utxo, evs)
    /\ \A e \in evs : EventOK(e, st)
    /\ RefundsMature(evs)

\* A point between two blocks: no event is above its tip.
Snapshot(st, utxo, ids, evs) ==
    /\ Level(st, utxo, ids, evs)
    /\ \A e \in evs : e.height <= st.tip_height

EventsBelow(j, n) == UNION {j[i].events : i \in 1..n}

CoinMatches(in, coin) ==
    /\ in.prevout_value = coin.value
    /\ in.prevout_script = coin.script_pubkey
    /\ in.prevout_height = coin.height

\* Inputs carry the output they spend: one of the same block, or an unspent one
\* of the branch.
ResolvedOK ==
    \A i \in DOMAIN block.transactions :
        /\ block.transactions[i].txid # 0
        /\ \A a \in DOMAIN block.transactions[i].inputs :
            LET in == block.transactions[i].inputs[a]
            IN  /\ \A j \in DOMAIN block.transactions :
                    in.prevout \in Outpoints(block.transactions[j]) =>
                        CoinMatches(in, CoinOf(block.transactions[j], in.prevout, block.height))
                /\ i > index /\ in.prevout \in DOMAIN coins => CoinMatches(in, coins[in.prevout])

\* In the INIT block itself no object can be created.
InitBlockEmpty ==
    reducing /\ before.protocol_status = AwaitingInit /\ state.protocol_status.state = "Active" =>
        /\ block.height < state.protocol_status.h_open
        /\ DOMAIN state.objects = {}

\* The events of the block being reduced.
BlockEventsOK ==
    /\ ~reducing => events = {}
    /\ \A e \in events : e.height = block.height
    /\ IF state.protocol_status.state = "Active"
       THEN \A e \in events : e.tx_index < index
       ELSE \A e, f \in events : e = f
    /\ OneOperationPerBlock
    /\ EventKeysUnique

EventInv ==
    /\ Level(state, coins, mined, BranchEvents)
    /\ Snapshot(before, IF reducing THEN undo[Len(undo)][1] ELSE coins,
                IF reducing THEN undo[Len(undo)][2] ELSE mined,
                EventsBelow(journal, Len(journal)))
    /\ \A i \in DOMAIN journal :
        Snapshot(journal[i].before, undo[i][1], undo[i][2], EventsBelow(journal, i - 1))
    /\ ResolvedOK
    /\ InitBlockEmpty
    /\ BlockEventsOK

-----------------------------------------------------------------------------
(* What one processed transaction does. *)

\* An object of key k is left as o, with event e.
Touched(k, o, e) ==
    /\ k # ZERO
    /\ e.object_key = k /\ e.height = block.height /\ e.tx_index = index
    /\ o.status = StatusAfter(e.event_type)
    /\ o.state_seq = e.state_seq
    /\ o.current_outpoint = e.successor
    /\ o.status = "Active" =>
        /\ o.current_outpoint = successor(CurrentTx.txid)
        /\ 2 \in DOMAIN CurrentTx.outputs
        /\ CurrentTx.outputs[2].value = CARRIER_VALUE
        /\ CurrentTx.outputs[2].script_pubkey = carrier_script(o.keys)

\* An active object old becomes o.  A valid operation spends a carrier that an
\* earlier block confirmed, a refund one that is old enough.
Advanced(old, o, e) ==
    /\ old.status = "Active"
    /\ Advances(old, o)
    /\ e.event_type # "Create"
    /\ e.predecessor = old.current_outpoint
    /\ o.chapter_count = old.chapter_count + (IF e.event_type = "Mark" THEN 1 ELSE 0)
    /\ e.validity_class = "ValidOperation" \/ e.event_type = "Refund" =>
        /\ 1 \in DOMAIN CurrentTx.inputs
        /\ CurrentTx.inputs[1].prevout = old.current_outpoint
        /\ has_earlier_confirmation(CurrentTx.inputs[1], block.height)
    /\ e.event_type = "Refund" => RefundMature(CurrentTx.inputs[1], block.height)

\* The current transaction touches the objects of keys, one event each, or
\* leaves at most one event that is about no object.
Effect(keys, event, bare) ==
    /\ InTransactions
    /\ Processed(state', {event[k] : k \in keys} \cup bare)
    /\ state'.protocol_status = state.protocol_status
    /\ DOMAIN state'.objects = DOMAIN state.objects \cup keys
    /\ \A k \in DOMAIN state.objects \ keys : state'.objects[k] = state.objects[k]
    /\ SpentKeys(state, CurrentTx) \subseteq keys
    /\ \A k \in keys :
        /\ Touched(k, state'.objects[k], event[k])
        /\ IF k \in DOMAIN state.objects
           THEN Advanced(state.objects[k], state'.objects[k], event[k])
           ELSE event[k].event_type = "Create" /\ state'.objects[k].chapter_count = 0
    /\ \A k, l \in keys : event[k].sub_index = event[l].sub_index => k = l
    /\ \A e \in bare : /\ e.object_key = ZERO /\ e.event_type # "Refund"
                       /\ e.height = block.height /\ e.tx_index = index
    /\ \A e, f \in bare : e = f
    /\ keys = {} \/ bare = {}
    /\ state.protocol_status.state = "Active" \/ (keys = {} /\ bare = {})

\* The sub_index of exit events, how many smaller keys the current transaction
\* ends, differs from event to event.
RanksDistinct ==
    InTransactions =>
        \A k, l \in SpentKeys(state, CurrentTx) :
            Cardinality({x \in SpentKeys(state, CurrentTx) : x < k})
                = Cardinality({x \in SpentKeys(state, CurrentTx) : x < l}) => k = l

=============================================================================
