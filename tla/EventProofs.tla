----------------------------- MODULE EventProofs ------------------------------
(***************************************************************************)
(* Objects, unspent outputs and events of a branch agree: the Effect of a  *)
(* processed transaction, and starting, finishing and rolling back a block,*)
(* keep EventInv.                                                          *)
(***************************************************************************)
EXTENDS ReducerProofs

\* The provers of a leaf that names none, in this order.
USE SMT, Zenon, SMTT(30)

-----------------------------------------------------------------------------
(* An effect keeps objects, unspent outputs and events in agreement. *)

\* The unspent outputs after the current transaction.
LEMMA CoinsAfter ==
    ASSUME ReducerInv, UtxoOK(coins, mined), ResolvedOK, InTransactions,
           coins' = Confirm(coins, CurrentTx, block.height),
           mined' = mined \cup {CurrentTx.txid}
    PROVE  /\ UtxoOK(coins', mined')
           /\ \A p \in DOMAIN coins \ Prevouts(CurrentTx) :
                p \in DOMAIN coins' /\ coins'[p] = coins[p]
           /\ 2 \in DOMAIN CurrentTx.outputs =>
                LET p == successor(CurrentTx.txid)
                IN  /\ p \in DOMAIN coins'
                    /\ coins'[p].value = CurrentTx.outputs[2].value
                    /\ coins'[p].script_pubkey = CurrentTx.outputs[2].script_pubkey
                    /\ coins'[p].height = block.height
           /\ \A p \in DOMAIN coins' :
                \/ p \in DOMAIN coins /\ coins'[p] = coins[p]
                \/ p \in Outpoints(CurrentTx) /\ coins'[p] = CoinOf(CurrentTx, p, block.height)
<1> DEFINE tx == CurrentTx
           Out == Outpoints(tx)
           Keep == DOMAIN coins \ Prevouts(tx)
           C(p) == CoinOf(tx, p, block.height)
<1>1. coins' = [p \in Keep \cup Out |-> IF p \in Out THEN C(p) ELSE coins[p]]
  BY DEF Confirm
<1>2. tx.txid \notin mined /\ tx.txid # 0 /\ tx.outputs \in Seq(RawOutput) /\ block.height \in Nat
  BY CurrentIsFresh, CurrentInputs DEF ReducerInv, BlockOK, ViewOK
<1>3. \A p \in Out : p[1] = tx.txid
  BY DEF Outpoints
<1>4. \A p \in DOMAIN coins : p[1] \in mined /\ p[1] # 0 /\ coins[p].height \in Nat
  BY DEF UtxoOK
<1>5. \A p : C(p).height = block.height
  BY DEF CoinOf
<1>6. 2 \in DOMAIN tx.outputs =>
        LET p == successor(tx.txid)
        IN  p \in Out /\ C(p).value = tx.outputs[2].value
            /\ C(p).script_pubkey = tx.outputs[2].script_pubkey
  BY DEF successor, Outpoints, vout, CoinOf
<1> HIDE DEF Out, C, Keep
<1>7. DOMAIN coins' = Keep \cup Out /\ Keep \subseteq DOMAIN coins
  BY <1>1 DEF Keep
<1>8. \A p \in Keep : p \notin Out
  BY <1>2, <1>3, <1>4, <1>7
<1>9. /\ \A p \in Keep : p \in DOMAIN coins' /\ coins'[p] = coins[p]
      /\ \A p \in Out : p \in DOMAIN coins' /\ coins'[p] = C(p)
  BY <1>1, <1>7, <1>8
<1>10. UtxoOK(coins', mined')
  BY <1>2, <1>3, <1>4, <1>5, <1>7, <1>9 DEF UtxoOK
<1> QED
  BY <1>5, <1>6, <1>7, <1>9, <1>10 DEF Keep, Out, C

\* The carrier of an object that the transaction does not touch stays unspent.
LEMMA UntouchedIsUnspent ==
    ASSUME ReducerInv, Level(state, coins, mined, BranchEvents),
           NEW k \in DOMAIN state.objects, state.objects[k].status = "Active",
           k \notin SpentKeys(state, CurrentTx)
    PROVE  state.objects[k].current_outpoint \in DOMAIN coins \ Prevouts(CurrentTx)
<1> DEFINE p == state.objects[k].current_outpoint
<1>1. p \in DOMAIN state.active /\ state.active[p] = k
  BY DEF ReducerInv, Sound, IndexCoherent
<1>2. p \in DOMAIN coins
  BY DEF Level, ObjectOK, Carried
<1>3. ASSUME p \in Prevouts(CurrentTx) PROVE FALSE
  <2>1. PICK a \in DOMAIN CurrentTx.inputs : CurrentTx.inputs[a].prevout = p
    BY <1>3 DEF Prevouts
  <2>2. a \in carrier_spends(state, CurrentTx)
    BY <1>1, <2>1 DEF carrier_spends
  <2> QED
    BY <1>1, <2>1, <2>2 DEF SpentKeys
<1> QED
  BY <1>2, <1>3, ZenonT(30)

\* A set numbered up to n, with one more element, is numbered up to n + 1.
LEMMA OneMore ==
    ASSUME NEW n \in Nat, NEW S, ExistsBijection(1 .. n, S), NEW x, x \notin S
    PROVE  ExistsBijection(1 .. (n + 1), S \cup {x})
<1>1. PICK f \in [1 .. n -> S] : /\ \A i, j \in 1 .. n : f[i] = f[j] => i = j
                                /\ \A y \in S : \E i \in 1 .. n : f[i] = y
  BY Zenon DEF ExistsBijection, Bijection, Injection, Surjection, IsInjective
<1> DEFINE g == [i \in 1 .. (n + 1) |-> IF i = n + 1 THEN x ELSE f[i]]
<1>2. \A i \in 1 .. (n + 1) : i # n + 1 => i \in 1 .. n
  OBVIOUS
<1>3. n + 1 \in 1 .. (n + 1) /\ 1 .. n \subseteq 1 .. (n + 1) /\ n + 1 \notin 1 .. n
  OBVIOUS
<1>4. g \in [1 .. (n + 1) -> S \cup {x}]
  BY <1>1, <1>2
<1>5. g[n + 1] = x /\ \A i \in 1 .. n : g[i] = f[i] /\ g[i] \in S
  BY <1>1, <1>3
<1> HIDE DEF g
<1>6. \A i, j \in 1 .. (n + 1) : g[i] = g[j] => i = j
  BY <1>1, <1>2, <1>5
<1>7. \A y \in S \cup {x} : \E i \in 1 .. (n + 1) : g[i] = y
  BY <1>1, <1>3, <1>5
<1>8. g \in Bijection(1 .. (n + 1), S \cup {x})
  BY <1>4, <1>6, <1>7 DEF Bijection, Injection, Surjection, IsInjective
<1> QED
  BY <1>8, Zenon DEF ExistsBijection

\* A later event explains the object it leaves.
LEMMA ExplainedByNext ==
    ASSUME NEW k, NEW evs, NEW more, NEW old, NEW o, NEW e,
           Explained(old, k, evs),
           EventsOf(more, k) = EventsOf(evs, k) \cup {e},
           \A f \in EventsOf(evs, k) : f.height \in Nat /\ f.tx_index \in Int /\ Precedes(f, e),
           e.height \in Nat, e.tx_index \in Int,
           o.status = StatusAfter(e.event_type),
           o.state_seq = e.state_seq,
           o.current_outpoint = e.successor,
           e.predecessor = old.current_outpoint,
           o.chapter_count = old.chapter_count + (IF e.event_type = "Mark" THEN 1 ELSE 0)
    PROVE  Explained(o, k, more)
<1> DEFINE S == EventsOf(evs, k)
           T == EventsOf(more, k)
           M == MarksOf(evs, k)
           N == MarksOf(more, k)
<1>1. T = S \cup {e}
  OBVIOUS
<1>2. M = {f \in S : f.event_type = "Mark"} /\ N = {f \in T : f.event_type = "Mark"}
  BY DEF EventsOf, MarksOf
<1>3. e \notin S
  BY DEF Precedes
<1>4. PICK last \in S : old.current_outpoint = last.successor
  BY DEF Explained
<1>5. /\ \A f \in S : f.event_type # "Create" =>
            \E g \in S : Precedes(g, f) /\ g.successor = f.predecessor
      /\ old.chapter_count \in Nat /\ ExistsBijection(1 .. old.chapter_count, M)
  BY DEF Explained
<1> HIDE DEF S, T, M, N
<1>6. e \in T /\ \A f \in T : f = e \/ Precedes(f, e)
  BY <1>1 DEF S
<1>7. ASSUME NEW f \in T, f.event_type # "Create"
      PROVE  \E g \in T : Precedes(g, f) /\ g.successor = f.predecessor
  <2>1. CASE f \in S
    BY <1>1, <1>5, <1>7, <2>1
  <2>2. CASE f = e
    BY <1>1, <1>4, <2>2 DEF S
  <2> QED
    BY <1>1, <2>1, <2>2
<1>8. o.chapter_count \in Nat /\ ExistsBijection(1 .. o.chapter_count, N)
  <2>1. CASE e.event_type = "Mark"
    <3>1. N = M \cup {e} /\ e \notin M
      BY <1>1, <1>2, <1>3, <2>1
    <3> QED
      BY <1>5, <2>1, <3>1, OneMore
  <2>2. CASE e.event_type # "Mark"
    <3>1. N = M
      BY <1>1, <1>2, <2>2
    <3> QED
      BY <1>5, <2>2, <3>1
  <2> QED
    BY <2>1, <2>2
<1> QED
  BY <1>6, <1>7, <1>8 DEF Explained, T, N

\* The first event of an object explains it.
LEMMA ExplainedByFirst ==
    ASSUME NEW k, NEW more, NEW o, NEW e,
           EventsOf(more, k) = {e},
           e.event_type = "Create",
           o.status = StatusAfter(e.event_type),
           o.state_seq = e.state_seq,
           o.current_outpoint = e.successor,
           o.chapter_count = 0
    PROVE  Explained(o, k, more)
<1>1. MarksOf(more, k) = {}
  <2>1. MarksOf(more, k) = {f \in EventsOf(more, k) : f.event_type = "Mark"}
    BY DEF MarksOf, EventsOf
  <2> QED
    BY <2>1
<1>2. ExistsBijection(1 .. 0, {})
  <2> DEFINE f == [i \in 1 .. 0 |-> i]
  <2>1. f \in [1 .. 0 -> {}]
    OBVIOUS
  <2>2. f \in Bijection(1 .. 0, {})
    BY <2>1 DEF Bijection, Injection, Surjection, IsInjective
  <2> QED
    BY <2>2 DEF ExistsBijection
<1> QED
  BY <1>1, <1>2 DEF Explained

\* The events of the branch are those of the journal and of the current block.
LEMMA BranchIsJournal ==
    ASSUME IsSeq(journal)
    PROVE  BranchEvents = EventsBelow(journal, Len(journal)) \cup events
<1>1. DOMAIN journal = 1..Len(journal)
  BY SequencesAreSeq
<1> QED
  BY <1>1 DEF BranchEvents, EventsBelow

\* Every event so far comes before the current transaction.
LEMMA EarlierEvents ==
    ASSUME ReducerInv, LinkInv, EventInv, reducing, state.protocol_status.state = "Active"
    PROVE  \A f \in BranchEvents :
            /\ f.height \in Nat /\ f.tx_index \in Int
            /\ f.height < block.height \/ (f.height = block.height /\ f.tx_index < index)
<1>1. BranchEvents = EventsBelow(journal, Len(journal)) \cup events
  BY BranchIsJournal DEF ReducerInv, StacksOK
<1>2. \A f \in BranchEvents : f.height \in Nat /\ f.tx_index \in Int
  BY DEF EventInv, Level, EventOK
<1>3. \A f \in events : f.height = block.height /\ f.tx_index < index
  BY DEF EventInv, BlockEventsOK
<1>4. \A f \in EventsBelow(journal, Len(journal)) : f.height <= before.tip_height
  BY DEF EventInv, Snapshot
<1>5. before.tip_height \in Nat \cup {NoHeight} /\ block.height \in Nat
  BY SoundTypes DEF ReducerInv, BlockOK
<1>6. before.tip_height # NoHeight => block.height = before.tip_height + 1
  BY DEF LinkInv
<1> SUFFICES ASSUME NEW f \in EventsBelow(journal, Len(journal))
             PROVE  f.height < block.height
  BY <1>1, <1>2, <1>3
<1>7. f.height \in Nat /\ f.height <= before.tip_height
  BY <1>1, <1>2, <1>4
<1> QED
  BY <1>5, <1>6, <1>7 DEF NoHeight

\* The events of one object after an effect.
LEMMA EventsAfter ==
    ASSUME NEW keys, NEW event, NEW bare, Effect(keys, event, bare)
    PROVE  /\ BranchEvents' = BranchEvents \cup {event[k] : k \in keys} \cup bare
           /\ \A k \in keys : EventsOf(BranchEvents', k) = EventsOf(BranchEvents, k) \cup {event[k]}
           /\ \A k : k \notin keys /\ k # ZERO => /\ EventsOf(BranchEvents', k) = EventsOf(BranchEvents, k)
                                                  /\ MarksOf(BranchEvents', k) = MarksOf(BranchEvents, k)
<1> DEFINE A == BranchEvents
           B == BranchEvents'
           N == {event[k] : k \in keys}
<1>1. B = A \cup N \cup bare
  <2>1. journal' = journal /\ events' = events \cup (N \cup bare)
    BY DEF Effect, Processed
  <2> DEFINE J == UNION {journal[i].events : i \in DOMAIN journal}
  <2>2. A = J \cup events /\ B = J \cup events'
    BY <2>1 DEF BranchEvents
  <2> HIDE DEF J, A, B, N
  <2> QED
    BY <2>1, <2>2
<1>2. /\ \A k \in keys : event[k].object_key = k /\ k # ZERO
      /\ \A e \in bare : e.object_key = ZERO
  BY DEF Effect, Touched
<1> HIDE DEF A, B
<1>3. ASSUME NEW k \in keys
      PROVE  EventsOf(B, k) = EventsOf(A, k) \cup {event[k]}
  <2>1. ASSUME NEW e \in EventsOf(B, k) PROVE e \in EventsOf(A, k) \cup {event[k]}
    BY <1>1, <1>2 DEF EventsOf
  <2>2. ASSUME NEW e \in EventsOf(A, k) \cup {event[k]} PROVE e \in EventsOf(B, k)
    BY <1>1, <1>2 DEF EventsOf
  <2> QED
    BY <2>1, <2>2
<1>4. ASSUME NEW k, k \notin keys, k # ZERO
      PROVE  EventsOf(B, k) = EventsOf(A, k) /\ MarksOf(B, k) = MarksOf(A, k)
  <2>1. \A e \in B : e.object_key = k => e \in A
    BY <1>1, <1>2, <1>4
  <2>2. A \subseteq B
    BY <1>1
  <2> QED
    BY <2>1, <2>2 DEF EventsOf, MarksOf
<1> QED
  BY <1>1, <1>3, <1>4 DEF A, B

\* A valid operation is later than every event of its object, and a refund late
\* enough.
LEMMA OperationIsLater ==
    ASSUME ReducerInv, EventInv, NEW keys, NEW event, NEW bare, Effect(keys, event, bare),
           NEW k \in keys, k \in DOMAIN state.objects,
           event[k].validity_class = "ValidOperation" \/ event[k].event_type = "Refund"
    PROVE  \A f \in EventsOf(BranchEvents, k) :
            /\ f.height < block.height
            /\ event[k].event_type = "Refund" => f.height + REFUND_DELAY <= block.height
<1> DEFINE old == state.objects[k]
           in == CurrentTx.inputs[1]
           p == old.current_outpoint
<1>1. /\ old.status = "Active" /\ 1 \in DOMAIN CurrentTx.inputs /\ in.prevout = p
      /\ has_earlier_confirmation(in, block.height)
      /\ event[k].event_type = "Refund" => RefundMature(in, block.height)
  BY ZenonT(30) DEF Effect, Advanced
<1>2. /\ p \in DOMAIN coins
      /\ \A f \in EventsOf(BranchEvents, k) : f.height <= coins[p].height
  BY <1>1, ZenonT(30) DEF EventInv, Level, ObjectOK, Carried
<1>3. in.prevout_height = coins[p].height
  BY <1>1, <1>2, CurrentInputs, ZenonT(30) DEF EventInv, Effect, CoinMatches
<1>4. coins[p].height \in Nat
  BY <1>2 DEF EventInv, Level, UtxoOK
<1>5. \A f \in EventsOf(BranchEvents, k) : f.height \in Nat
  BY DEF EventInv, Level, EventOK, EventsOf
<1>6. /\ coins[p].height < block.height
      /\ event[k].event_type = "Refund" => coins[p].height + REFUND_DELAY <= block.height
  BY <1>1, <1>3 DEF has_earlier_confirmation, RefundMature
<1>7. block.height \in Nat
  BY DEF ReducerInv, BlockOK
<1> HIDE DEF p
<1> QED
  BY <1>2, <1>4, <1>5, <1>6, <1>7, ParameterAssumption

\* An effect keeps every object accounted for.
LEMMA EffectKeepsObjects ==
    ASSUME ReducerInv, LinkInv, EventInv,
           NEW keys, NEW event, NEW bare, Effect(keys, event, bare),
           NEW k \in DOMAIN state'.objects
    PROVE  ObjectOK(state'.objects[k], k, coins', BranchEvents')
<1> DEFINE o == state'.objects[k]
           A == BranchEvents
           B == BranchEvents'
           e == event[k]
<1>1. /\ Level(state, coins, mined, A) /\ ResolvedOK /\ UtxoOK(coins, mined)
  BY DEF EventInv, Level
<1>2. /\ InTransactions /\ reducing
      /\ coins' = Confirm(coins, CurrentTx, block.height)
      /\ mined' = mined \cup {CurrentTx.txid}
  BY DEF Effect, Processed, InTransactions
<1>3. /\ \A p \in DOMAIN coins \ Prevouts(CurrentTx) : p \in DOMAIN coins' /\ coins'[p] = coins[p]
      /\ 2 \in DOMAIN CurrentTx.outputs =>
            LET p == successor(CurrentTx.txid)
            IN  /\ p \in DOMAIN coins'
                /\ coins'[p].value = CurrentTx.outputs[2].value
                /\ coins'[p].script_pubkey = CurrentTx.outputs[2].script_pubkey
                /\ coins'[p].height = block.height
  BY <1>1, <1>2, CoinsAfter, ZenonT(30)
<1>4. CASE k \notin keys
  <2>1. k \in DOMAIN state.objects /\ o = state.objects[k] /\ k \notin SpentKeys(state, CurrentTx)
    BY <1>4 DEF Effect
  <2>2. k # ZERO /\ ObjectOK(o, k, coins, A)
    BY <1>1, <2>1 DEF Level
  <2>3. EventsOf(B, k) = EventsOf(A, k) /\ MarksOf(B, k) = MarksOf(A, k)
    BY <1>4, <2>2, EventsAfter, ZenonT(30)
  <2>4. o.status = "Active" => o.current_outpoint \in DOMAIN coins'
                               /\ coins'[o.current_outpoint] = coins[o.current_outpoint]
    BY <1>1, <1>3, <2>1, UntouchedIsUnspent
  <2> HIDE DEF o, A, B
  <2> QED
    BY <2>2, <2>3, <2>4 DEF ObjectOK, Explained, Carried, o, B
<1>5. CASE k \in keys
  <2>1. /\ Touched(k, o, e)
        /\ IF k \in DOMAIN state.objects THEN Advanced(state.objects[k], o, e)
           ELSE e.event_type = "Create" /\ o.chapter_count = 0
        /\ state.protocol_status.state = "Active"
    BY <1>5 DEF Effect
  <2>2. EventsOf(B, k) = EventsOf(A, k) \cup {e}
    BY <1>5, EventsAfter
  <2>3. \A f \in A : /\ f.height \in Nat /\ f.tx_index \in Int
                     /\ f.height < block.height \/ (f.height = block.height /\ f.tx_index < index)
    BY <1>2, <2>1, EarlierEvents, ZenonT(30)
  <2>4. /\ e.height = block.height /\ e.tx_index = index
        /\ block.height \in Nat /\ index \in Int
    BY <2>1 DEF Touched, ReducerInv, BlockOK, TypeOK
  <2>5. \A f \in EventsOf(A, k) : /\ f.height \in Nat /\ f.tx_index \in Int
                                  /\ f.height <= block.height /\ Precedes(f, e)
    BY <2>3, <2>4 DEF EventsOf, Precedes
  <2>6. o.status = "Active" => Carried(o, coins') /\ coins'[o.current_outpoint].height = block.height
    BY <1>3, <2>1 DEF Touched, Carried
  <2>7. o.status = "Active" => e.event_type # "Refund"
    BY <2>1 DEF Touched, StatusAfter
  <2>8. \A f \in EventsOf(A, k) : f.event_type # "Refund"
    <3>1. CASE k \in DOMAIN state.objects
      BY <1>1, <2>1, <3>1 DEF Level, ObjectOK, Advanced
    <3>2. CASE k \notin DOMAIN state.objects
      BY <1>1, <2>1, <3>2 DEF Level, EventOK, EventsOf, Touched
    <3> QED
      BY <3>1, <3>2, ZenonT(30)
  <2>9. Explained(o, k, B)
    <3>1. CASE k \in DOMAIN state.objects
      <4>1. Explained(state.objects[k], k, A)
        BY <1>1, <3>1 DEF Level, ObjectOK
      <4> HIDE DEF o, A, B, e
      <4> QED
        BY <2>1, <2>2, <2>4, <2>5, <3>1, <4>1, ExplainedByNext DEF Touched, Advanced
    <3>2. CASE k \notin DOMAIN state.objects
      <4>1. EventsOf(A, k) = {}
        BY <1>1, <2>1, <3>2 DEF Level, EventOK, EventsOf, Touched
      <4> HIDE DEF o, A, B, e
      <4> QED
        BY <2>1, <2>2, <3>2, <4>1, ExplainedByFirst DEF Touched
    <3> QED
      BY <3>1, <3>2, ZenonT(30)
  <2> HIDE DEF o, A, B, e
  <2>10. \A f \in EventsOf(B, k) : f.event_type # "Refund" \/ o.status # "Active"
    BY <2>2, <2>7, <2>8
  <2>11. \A f \in EventsOf(B, k) : f.height <= block.height
    BY <2>2, <2>4, <2>5
  <2>12. ObjectOK(o, k, coins', B)
    BY <2>6, <2>9, <2>10, <2>11 DEF ObjectOK
  <2> QED
    BY <2>12 DEF o, B
<1> QED
  BY <1>4, <1>5

\* An effect keeps the current point of the branch in agreement.
LEMMA EffectKeepsLevel ==
    ASSUME ReducerInv, LinkInv, EventInv,
           NEW keys, NEW event, NEW bare, Effect(keys, event, bare)
    PROVE  Level(state', coins', mined', BranchEvents')
<1> DEFINE A == BranchEvents
           B == BranchEvents'
           N == {event[k] : k \in keys}
<1>1. Level(state, coins, mined, A) /\ UtxoOK(coins, mined) /\ ResolvedOK
  BY DEF EventInv, Level
<1>2. /\ InTransactions /\ reducing
      /\ coins' = Confirm(coins, CurrentTx, block.height)
      /\ mined' = mined \cup {CurrentTx.txid}
  BY DEF Effect, Processed, InTransactions
<1>3. UtxoOK(coins', mined')
  BY <1>1, <1>2, CoinsAfter
<1>4. /\ DOMAIN state'.objects = DOMAIN state.objects \cup keys
      /\ \A k \in keys : Touched(k, state'.objects[k], event[k])
      /\ \A k \in keys : k \notin DOMAIN state.objects => event[k].event_type = "Create"
      /\ \A e \in bare : /\ e.object_key = ZERO /\ e.event_type # "Refund"
                         /\ e.height = block.height /\ e.tx_index = index
  BY DEF Effect
<1>5. ZERO \notin DOMAIN state'.objects
  BY <1>1, <1>4 DEF Level, Touched
<1>6. \A k \in DOMAIN state'.objects : ObjectOK(state'.objects[k], k, coins', B)
  BY EffectKeepsObjects
<1>7. B = A \cup N \cup bare
  BY EventsAfter
<1>8. block.height \in Nat /\ index \in Int
  BY DEF ReducerInv, BlockOK, TypeOK
<1>9. \A k \in keys : /\ event[k].object_key = k /\ k # ZERO
                      /\ event[k].height = block.height /\ event[k].tx_index = index
  BY <1>4 DEF Touched
<1>10. \A e \in A : EventOK(e, state)
  BY <1>1 DEF Level
<1> HIDE DEF A, B
<1>11. ASSUME NEW e \in B PROVE EventOK(e, state')
  <2>1. CASE e \in A
    BY <1>4, <1>10, <2>1 DEF EventOK
  <2>2. CASE e \in N
    BY <1>4, <1>8, <1>9, <2>2 DEF EventOK
  <2>3. CASE e \in bare
    BY <1>4, <1>8, <2>3 DEF EventOK
  <2> QED
    BY <1>7, <2>1, <2>2, <2>3, ZenonT(30)
<1>12. RefundsMature(B)
  <2> SUFFICES ASSUME NEW e \in B, NEW f \in B, e.event_type = "Refund",
                      e.object_key = f.object_key, e # f
               PROVE  f.height + REFUND_DELAY <= e.height
    BY DEF RefundsMature
  <2>1. e.object_key # ZERO
    BY <1>11 DEF EventOK
  <2>2. e \notin bare /\ f \notin bare
    BY <1>4, <2>1
  <2>3. CASE e \in A /\ f \in A
    BY <1>1, <2>3 DEF Level, RefundsMature, A
  <2>4. CASE e \in N /\ f \in N
    BY <1>9, <2>4
  <2>5. CASE e \in N /\ f \in A
    <3>1. PICK k \in keys : e = event[k]
      BY <2>5
    <3>2. f \in EventsOf(A, k)
      BY <1>9, <2>5, <3>1 DEF EventsOf
    <3>3. k \in DOMAIN state.objects
      BY <1>4, <3>1
    <3> QED
      BY <1>9, <3>1, <3>2, <3>3, OperationIsLater DEF A
  <2>6. CASE e \in A /\ f \in N
    <3>1. PICK k \in keys : f = event[k]
      BY <2>6
    <3>2. e \in EventsOf(A, k) /\ k # ZERO
      BY <1>9, <2>6, <3>1 DEF EventsOf
    <3>3. k \in DOMAIN state.objects
      BY <1>10, <3>2, ZenonT(30) DEF EventOK, EventsOf
    <3>4. state.objects[k].status = "Active"
      BY <3>3, ZenonT(30) DEF Effect, Advanced
    <3>5. e.event_type # "Refund"
      BY <1>1, <3>2, <3>3, <3>4 DEF Level, ObjectOK, A
    <3> QED
      BY <3>5
  <2> QED
    BY <1>7, <2>2, <2>3, <2>4, <2>5, <2>6
<1>13. Level(state', coins', mined', B)
  BY <1>3, <1>5, <1>6, <1>11, <1>12 DEF Level
<1> QED
  BY <1>13 DEF B

\* The inputs of the transactions still to come match the new unspent outputs.
LEMMA EffectKeepsResolved ==
    ASSUME ReducerInv, EventInv, NEW keys, NEW event, NEW bare, Effect(keys, event, bare)
    PROVE  ResolvedOK'
<1> DEFINE txs == block.transactions
<1>1. /\ InTransactions /\ block' = block /\ index' = index + 1
      /\ coins' = Confirm(coins, CurrentTx, block.height)
      /\ mined' = mined \cup {CurrentTx.txid}
  BY DEF Effect, Processed
<1>2. ResolvedOK /\ UtxoOK(coins, mined)
  BY DEF EventInv, Level
<1>3. \A p \in DOMAIN coins' :
        \/ p \in DOMAIN coins /\ coins'[p] = coins[p]
        \/ p \in Outpoints(CurrentTx) /\ coins'[p] = CoinOf(CurrentTx, p, block.height)
  BY <1>1, <1>2, CoinsAfter, ZenonT(30)
<1>4. /\ index + 1 \in DOMAIN txs /\ CurrentTx = txs[index + 1]
      /\ DOMAIN txs = 1..Len(txs) /\ index \in Nat
  BY <1>1, CurrentIsFresh, SequencesAreSeq DEF CurrentTx, ReducerInv, BlockOK, TypeOK
<1> SUFFICES ASSUME NEW i \in DOMAIN txs, NEW a \in DOMAIN txs[i].inputs, i > index + 1,
                    txs[i].inputs[a].prevout \in DOMAIN coins'
             PROVE  CoinMatches(txs[i].inputs[a], coins'[txs[i].inputs[a].prevout])
  BY <1>1, <1>2, ZenonT(30) DEF ResolvedOK
<1> DEFINE in == txs[i].inputs[a]
<1>5. i > index
  BY <1>4
<1>6. CASE in.prevout \in DOMAIN coins /\ coins'[in.prevout] = coins[in.prevout]
  BY <1>2, <1>5, <1>6, ZenonT(30) DEF ResolvedOK
<1>7. CASE /\ in.prevout \in Outpoints(CurrentTx)
           /\ coins'[in.prevout] = CoinOf(CurrentTx, in.prevout, block.height)
  BY <1>2, <1>4, <1>7, ZenonT(30) DEF ResolvedOK
<1> QED
  BY <1>3, <1>6, <1>7, Zenon

\* The events of the block keep their order, keys and operations apart.
LEMMA EffectKeepsBlockEvents ==
    ASSUME ReducerInv, LinkInv, EventInv,
           NEW keys, NEW event, NEW bare, Effect(keys, event, bare)
    PROVE  BlockEventsOK'
<1> DEFINE N == {event[k] : k \in keys}
<1>1. /\ reducing /\ reducing' = reducing /\ block' = block /\ index' = index + 1
      /\ events' = events \cup (N \cup bare)
      /\ state'.protocol_status = state.protocol_status
  BY DEF Effect, Processed, InTransactions
<1>2. /\ \A k \in keys : /\ event[k].object_key = k /\ k # ZERO
                         /\ event[k].height = block.height /\ event[k].tx_index = index
      /\ \A e \in bare : /\ e.object_key = ZERO
                         /\ e.height = block.height /\ e.tx_index = index
      /\ \A k, l \in keys : event[k].sub_index = event[l].sub_index => k = l
      /\ \A e, f \in bare : e = f
      /\ keys = {} \/ bare = {}
      /\ state.protocol_status.state = "Active" \/ (keys = {} /\ bare = {})
  BY ZenonT(30) DEF Effect, Touched
<1>3. BlockEventsOK /\ OneOperationPerBlock /\ EventKeysUnique
  BY ZenonT(30) DEF EventInv, BlockEventsOK
<1>4. index \in Int
  BY DEF ReducerInv, TypeOK
<1>5. events \subseteq BranchEvents
  BY DEF BranchEvents
<1>6. \A e \in events : e.tx_index \in Int /\ e.height = block.height
  BY <1>3, <1>5, ZenonT(30) DEF EventInv, Level, EventOK, BlockEventsOK
<1> HIDE DEF N
<1>7. \A e \in events' : e.height = block.height
  BY <1>1, <1>2, <1>6 DEF N
<1>8. CASE state.protocol_status.state = "Active"
  <2>1. \A e \in events : e.tx_index < index
    BY <1>3, <1>8 DEF BlockEventsOK
  <2>2. \A e \in N \cup bare : e.tx_index = index
    BY <1>2 DEF N
  <2>3. \A e \in events' : e.tx_index < index'
    BY <1>1, <1>4, <1>6, <2>1, <2>2
  <2>4. \A e, f \in N \cup bare : e.sub_index = f.sub_index => e = f
    BY <1>2 DEF N
  <2>5. \A e \in events, f \in N \cup bare : e.tx_index # f.tx_index
    BY <1>4, <1>6, <2>1, <2>2
  <2>6. EventKeysUnique'
    <3> SUFFICES ASSUME NEW e \in events', NEW f \in events',
                        e.tx_index = f.tx_index, e.event_index = f.event_index,
                        e.sub_index = f.sub_index
                 PROVE  e = f
      BY DEF EventKeysUnique
    <3>1. CASE e \in events /\ f \in events
      BY <1>3, <3>1 DEF EventKeysUnique
    <3> QED
      BY <1>1, <2>4, <2>5, <3>1
  <2>7. \A e, f \in N : e.object_key = f.object_key => e = f
    BY <1>2 DEF N
  <2>8. ASSUME NEW e \in events, NEW k \in keys, e.object_key = k,
               event[k].validity_class = "ValidOperation"
        PROVE  FALSE
    <3>1. e \in EventsOf(BranchEvents, k)
      BY <1>5, <2>8, ZenonT(30) DEF EventsOf
    <3>2. k \in DOMAIN state.objects
      BY <1>2, <1>5, <2>8 DEF EventInv, Level, EventOK
    <3>3. e.height < block.height
      BY <2>8, <3>1, <3>2, OperationIsLater
    <3>4. e.height = block.height /\ block.height \in Nat
      BY <1>6 DEF ReducerInv, BlockOK
    <3> QED
      BY <3>3, <3>4
  <2>9. \A e \in events, f \in N :
            ~(e.object_key = f.object_key /\ f.validity_class = "ValidOperation")
    BY <1>2, <2>8 DEF N
  <2>10. OneOperationPerBlock'
    <3> SUFFICES ASSUME NEW e \in events', NEW f \in events',
                        e.object_key = f.object_key, e.object_key # ZERO,
                        e.validity_class = "ValidOperation",
                        f.validity_class = "ValidOperation"
                 PROVE  e = f
      BY DEF OneOperationPerBlock
    <3>1. e \notin bare /\ f \notin bare
      BY <1>2
    <3>2. CASE e \in events /\ f \in events
      BY <1>3, <3>2, ZenonT(30) DEF OneOperationPerBlock
    <3> QED
      BY <1>1, <2>7, <2>9, <3>1, <3>2
  <2> QED
    BY <1>1, <1>7, <1>8, <2>3, <2>6, <2>10 DEF BlockEventsOK
<1>9. CASE state.protocol_status.state # "Active"
  <2>1. events' = events
    BY <1>1, <1>2, <1>9, ZenonT(30) DEF N
  <2> QED
    BY <1>1, <1>3, <2>1, <1>9 DEF BlockEventsOK, OneOperationPerBlock, EventKeysUnique
<1> QED
  BY <1>8, <1>9, ZenonT(30)

\* No transaction of the INIT block, before or after INIT itself, makes an object.
LEMMA ProcessingKeepsInitBlockEmpty ==
    ASSUME ReducerInv, InitBlockEmpty, NEW keys, NEW event, NEW bare,
           Effect(keys, event, bare),
           \/ SkipTransaction \/ ProcessInit \/ ProcessIgnored \/ ProcessInvalid
           \/ ProcessExit \/ ProcessCreate \/ ProcessMark \/ ProcessRotate
           \/ ProcessClose \/ ProcessRefund
    PROVE  InitBlockEmpty'
<1>1. /\ reducing /\ block' = block /\ before' = before /\ InTransactions
      /\ state'.protocol_status = state.protocol_status
  BY DEF Effect, Processed, InTransactions
<1> SUFFICES ASSUME before.protocol_status = AwaitingInit,
                    state.protocol_status.state = "Active"
             PROVE  DOMAIN state'.objects = {}
  BY <1>1 DEF InitBlockEmpty
<1>2. block.height < state.protocol_status.h_open /\ DOMAIN state.objects = {}
  BY <1>1 DEF InitBlockEmpty
<1>3. carrier_spends(state, CurrentTx) = {}
  BY <1>2 DEF carrier_spends
<1>4. IsSeq(CurrentTx.inputs) /\ CurrentTx.outputs \in Seq(RawOutput)
  BY <1>1, CurrentIsFresh DEF ViewOK
<1>5. ~ProcessCreate
  BY <1>2, <1>4, CreateIsValidated, ZenonT(30) DEF ProcessCreate, Process
<1>6. ~ProcessMark /\ ~ProcessRotate /\ ~ProcessClose
  BY <1>3, <1>4, TransitionIsValidated, ZenonT(30) DEF ProcessMark, ProcessRotate, ProcessClose, Process
<1>7. ~ProcessRefund
  BY <1>3, <1>4, RefundIsValidated, ZenonT(30) DEF ProcessRefund, Process
<1>8. ~ProcessExit
  BY <1>3, ZenonT(30) DEF ProcessExit
<1>9. state' = state
  BY <1>5, <1>6, <1>7, <1>8, ZenonT(30)
     DEF SkipTransaction, ProcessInit, ProcessIgnored, ProcessInvalid, Processed
<1> QED
  BY <1>2, <1>9, ZenonT(30)

-----------------------------------------------------------------------------
(* Starting, finishing and rolling back a block. *)

\* An outpoint names the transaction it is an output of.
LEMMA OutpointNamesTx ==
    ASSUME NEW tx, NEW q \in Outpoints(tx)
    PROVE  q[1] = tx.txid
BY DEF Outpoints

\* A raw input is resolved with the output it spends.
LEMMA ResolvedInput ==
    ASSUME NEW txs \in BlockTxs, Minable(txs), UtxoOK(coins, mined), NEW height, NEW in
    PROVE  LET v == resolve_input(txs, height, in)
           IN  /\ v.prevout = in.prevout
               /\ \A j \in DOMAIN txs : in.prevout \in Outpoints(txs[j]) =>
                    CoinMatches(v, CoinOf(txs[j], in.prevout, height))
               /\ in.prevout \in DOMAIN coins => CoinMatches(v, coins[in.prevout])
<1> DEFINE v == resolve_input(txs, height, in)
           p == in.prevout
           coin == IF p = ZERO_OUTPOINT
                   THEN [value |-> 0, script_pubkey |-> <<"none">>, height |-> NoHeight]
                   ELSE ParentCoin(txs, height, p)
<1>1. /\ v.prevout = p /\ v.prevout_value = coin.value
      /\ v.prevout_script = coin.script_pubkey /\ v.prevout_height = coin.height
  BY DEF resolve_input
<1>2. \A j \in DOMAIN txs : txs[j].txid # 0 /\ txs[j].txid \notin mined
  <2>1. \A j \in DOMAIN txs : txs[j] \in Transaction
    BY ZenonT(30) DEF BlockTxs
  <2>2. \A j \in DOMAIN txs : txs[j].txid # 0
    <3>1. \A t \in RawTransaction : t.txid # 0
      BY DEF RawTransaction
    <3> QED
      BY <2>1, <3>1, BitcoinAssumption, ZenonT(30)
  <2> QED
    BY <2>2, ZenonT(30) DEF Minable
<1>3. \A i, j \in DOMAIN txs : txs[i].txid = txs[j].txid => i = j
  BY ZenonT(30) DEF Minable
<1>4. \A j \in DOMAIN txs : p \in Outpoints(txs[j]) => p[1] = txs[j].txid
  BY OutpointNamesTx, Zenon
<1>5. ZERO_OUTPOINT[1] = 0
  BY DEF ZERO_OUTPOINT
<1> HIDE DEF v, p, coin
<1>6. ASSUME NEW j \in DOMAIN txs, p \in Outpoints(txs[j])
      PROVE  coin = CoinOf(txs[j], p, height)
  <2>1. p # ZERO_OUTPOINT
    BY <1>2, <1>4, <1>5, <1>6
  <2>2. (CHOOSE i \in DOMAIN txs : p \in Outpoints(txs[i])) = j
    BY <1>3, <1>4, <1>6, ZenonT(30)
  <2> QED
    BY <1>6, <2>1, <2>2, ZenonT(30) DEF coin, ParentCoin
<1>7. ASSUME p \in DOMAIN coins PROVE coin = coins[p]
  <2>1. p[1] \in mined /\ p[1] # 0
    BY <1>7 DEF UtxoOK
  <2>2. p # ZERO_OUTPOINT /\ \A j \in DOMAIN txs : p \notin Outpoints(txs[j])
    BY <1>2, <1>4, <1>5, <2>1, ZenonT(30)
  <2> QED
    BY <2>2 DEF coin, ParentCoin
<1>8. /\ \A j \in DOMAIN txs : p \in Outpoints(txs[j]) => CoinMatches(v, CoinOf(txs[j], p, height))
      /\ p \in DOMAIN coins => CoinMatches(v, coins[p])
  BY <1>1, <1>6, <1>7 DEF CoinMatches
<1> QED
  BY <1>1, <1>8, ZenonT(30) DEF v, p

\* A new block starts from a clone of the agreed state, with resolved inputs.
LEMMA StartKeepsEvents ==
    ASSUME ReducerInv, LinkInv, EventInv, ~reducing, NEW height \in 1..MaxHeight, NEW previous,
           NEW txs \in BlockTxs, Minable(txs), StartBlock(height, previous, txs),
           Level(state', coins, mined, BranchEvents'), InitBlockEmpty', BlockEventsOK'
    PROVE  EventInv'
<1> DEFINE view == BlockView(height, previous, txs).transactions
<1>1. /\ block'.transactions = view /\ block'.height = height /\ height \in Nat
      /\ coins' = coins /\ mined' = mined /\ journal' = journal /\ reducing'
      /\ undo' = Append(undo, <<coins, mined>>) /\ before' = before
  BY BitcoinAssumption DEF StartBlock, BlockView, LinkInv
<1>2. DOMAIN view = DOMAIN txs /\ \A i \in DOMAIN txs : view[i] = resolve_transaction(txs, height, txs[i])
  BY DEF BlockView
<1> HIDE DEF view
<1>3. /\ IsSeq(undo) /\ IsSeq(journal) /\ Len(undo) = Len(journal)
      /\ Len(undo) \in Nat /\ DOMAIN journal = 1..Len(journal)
  BY SequencesAreSeq DEF ReducerInv, StacksOK, TypeOK
<1>4. /\ Len(undo') = Len(undo) + 1
      /\ \A i \in 1..Len(undo) : undo'[i] = undo[i]
      /\ undo'[Len(undo) + 1] = <<coins, mined>>
  BY <1>1, <1>3, SequencesAreSeq
<1>5. Snapshot(before', undo'[Len(undo')][1], undo'[Len(undo')][2],
               EventsBelow(journal', Len(journal')))
  <2>1. undo'[Len(undo')][1] = coins /\ undo'[Len(undo')][2] = mined
    BY <1>4
  <2>2. Snapshot(before, coins, mined, EventsBelow(journal, Len(journal)))
    BY DEF EventInv
  <2> QED
    BY <1>1, <2>1, <2>2
<1>6. \A i \in DOMAIN journal' :
        Snapshot(journal'[i].before, undo'[i][1], undo'[i][2], EventsBelow(journal', i - 1))
  BY <1>1, <1>3, <1>4, ZenonT(30) DEF EventInv
<1>7. ResolvedOK'
  <2>1. UtxoOK(coins, mined)
    BY ZenonT(30) DEF EventInv, Level
  <2>2. \A i \in DOMAIN txs :
            /\ view[i].txid = txs[i].txid /\ txs[i].txid # 0
            /\ view[i].outputs = txs[i].outputs
            /\ view[i].inputs = [a \in DOMAIN txs[i].inputs |->
                                    resolve_input(txs, height, txs[i].inputs[a])]
    <3>1. \A i \in DOMAIN txs : txs[i].txid # 0
      BY BitcoinAssumption DEF BlockTxs, RawTransaction
    <3>2. ASSUME NEW i \in DOMAIN txs
          PROVE  /\ view[i].txid = txs[i].txid /\ view[i].outputs = txs[i].outputs
                 /\ view[i].inputs = [a \in DOMAIN txs[i].inputs |->
                                        resolve_input(txs, height, txs[i].inputs[a])]
      <4> DEFINE tx == txs[i]
                 v == resolve_transaction(txs, height, tx)
      <4>1. view[i] = v
        BY <1>2, Zenon
      <4> HIDE DEF tx
      <4>2. /\ v.txid = tx.txid /\ v.outputs = tx.outputs
            /\ v.inputs = [a \in DOMAIN tx.inputs |-> resolve_input(txs, height, tx.inputs[a])]
        BY Zenon DEF resolve_transaction
      <4> HIDE DEF v
      <4> QED
        BY <4>1, <4>2, Zenon DEF tx
    <3> QED
      BY <3>1, <3>2, Zenon
  <2>3. ASSUME NEW j \in DOMAIN txs, NEW p
        PROVE  /\ Outpoints(view[j]) = Outpoints(txs[j])
               /\ CoinOf(view[j], p, height) = CoinOf(txs[j], p, height)
    <3>1. view[j].txid = txs[j].txid /\ view[j].outputs = txs[j].outputs
      BY <2>2, ZenonT(30)
    <3>2. Outpoints(view[j]) = Outpoints(txs[j])
      BY <3>1 DEF Outpoints
    <3>3. CoinOf(view[j], p, height) = CoinOf(txs[j], p, height)
      BY <3>1 DEF CoinOf
    <3> QED
      BY <3>2, <3>3
  <2>4. ASSUME NEW i \in DOMAIN txs, NEW a \in DOMAIN view[i].inputs
        PROVE  LET in == view[i].inputs[a]
               IN  /\ \A j \in DOMAIN txs : in.prevout \in Outpoints(view[j]) =>
                        CoinMatches(in, CoinOf(view[j], in.prevout, height))
                   /\ in.prevout \in DOMAIN coins => CoinMatches(in, coins[in.prevout])
    <3> DEFINE raw == txs[i].inputs[a]
    <3>1. view[i].inputs[a] = resolve_input(txs, height, raw)
      BY <2>2, Zenon
    <3> HIDE DEF raw
    <3> DEFINE v == resolve_input(txs, height, raw)
    <3> HIDE DEF v
    <3>2. /\ v.prevout = raw.prevout
          /\ \A j \in DOMAIN txs : raw.prevout \in Outpoints(txs[j]) =>
                CoinMatches(v, CoinOf(txs[j], raw.prevout, height))
          /\ raw.prevout \in DOMAIN coins => CoinMatches(v, coins[raw.prevout])
      BY <2>1, ResolvedInput, ZenonT(30) DEF v
    <3>3. \A j \in DOMAIN txs : raw.prevout \in Outpoints(view[j]) =>
                CoinMatches(v, CoinOf(view[j], raw.prevout, height))
      BY <2>3, <3>2, Zenon
    <3>4. view[i].inputs[a] = v
      BY <3>1, Zenon DEF v
    <3> QED
      BY <3>2, <3>3, <3>4, Zenon
  <2> QED
    BY <1>1, <1>2, <2>2, <2>4, ZenonT(30) DEF ResolvedOK
<1> QED
  BY <1>1, <1>5, <1>6, <1>7, ZenonT(30) DEF EventInv

\* Agreement depends on nothing of the state but its objects.
LEMMA LevelSameObjects ==
    ASSUME NEW st, NEW new, NEW utxo, NEW ids, NEW evs,
           Level(st, utxo, ids, evs), new.objects = st.objects
    PROVE  Level(new, utxo, ids, evs)
<1>1. \A e \in evs : EventOK(e, new)
  BY DEF Level, EventOK
<1> QED
  BY <1>1 DEF Level

\* A valid INIT leaves at least a block before h_open.
LEMMA InitLeavesLead ==
    ASSUME NEW height \in Nat, NEW tx, tx.outputs \in Seq(RawOutput),
           validate_configured_init(height, tx) = "Valid"
    PROVE  height < marker_at(tx, CHOOSE x \in marker_candidates(tx) : TRUE).h_open
<1> DEFINE i == CHOOSE x \in marker_candidates(tx) : TRUE
           m == marker_at(tx, i)
<1>1. marker_candidates(tx) # {}
  BY InitReasons
<1>2. m.h_open \in Nat
  BY <1>1, MarkerHeights
<1>3. ~(height + INIT_LEAD > m.h_open)
  BY Zenon DEF validate_configured_init
<1> HIDE DEF m
<1>4. height < m.h_open
  BY <1>2, <1>3, ParameterAssumption
<1> QED
  BY <1>4 DEF m

\* Before INIT there are no objects, hence no refund.
LEMMA NothingBeforeInit ==
    ASSUME ReducerInv, state.protocol_status = AwaitingInit
    PROVE  DOMAIN state.objects = {}
BY DEF ReducerInv, Sound, CreatedAfterOpen, AwaitingInit

\* The block of the configured, valid INIT.
LEMMA InitBlockKeepsEvents ==
    ASSUME ReducerInv, LinkInv, EventInv, NEW height \in 1..MaxHeight, NEW previous,
           BeginInitBlock(height, previous)
    PROVE  EventInv'
<1>1. ~reducing /\ state.protocol_status = AwaitingInit /\ height \in Nat
  BY BitcoinAssumption DEF BeginInitBlock
<1>2. PICK txs \in BlockTxs : \E i \in DOMAIN txs :
        LET tx == resolve_transaction(txs, height, txs[i])
            m  == marker_at(tx, CHOOSE x \in marker_candidates(tx) : TRUE)
        IN  /\ validate_configured_init(height, tx) = "Valid"
            /\ state' = [state EXCEPT !.protocol_status =
                            ActiveProtocol(height, m.h_open, m.h_close)]
            /\ Minable(txs)
            /\ StartBlock(height, previous, txs)
            /\ events' = {}
  BY Zenon DEF BeginInitBlock
<1>3. PICK i \in DOMAIN txs :
        LET tx == resolve_transaction(txs, height, txs[i])
            m  == marker_at(tx, CHOOSE x \in marker_candidates(tx) : TRUE)
        IN  /\ validate_configured_init(height, tx) = "Valid"
            /\ state' = [state EXCEPT !.protocol_status =
                            ActiveProtocol(height, m.h_open, m.h_close)]
  BY <1>2, Zenon
<1> DEFINE tx == resolve_transaction(txs, height, txs[i])
           m  == marker_at(tx, CHOOSE x \in marker_candidates(tx) : TRUE)
<1>4. tx.outputs \in Seq(RawOutput)
  <2>1. txs[i] \in RawTransaction
    BY BitcoinAssumption DEF BlockTxs
  <2> QED
    BY <2>1 DEF resolve_transaction, RawTransaction
<1>5. height < m.h_open
  BY <1>1, <1>3, <1>4, InitLeavesLead
<1>6. /\ state' = [state EXCEPT !.protocol_status = ActiveProtocol(height, m.h_open, m.h_close)]
      /\ events' = {} /\ StartBlock(height, previous, txs) /\ Minable(txs)
  BY <1>2, <1>3, ZenonT(30)
<1> HIDE DEF m
<1>7. /\ state'.objects = state.objects
      /\ state'.protocol_status = ActiveProtocol(height, m.h_open, m.h_close)
  BY <1>6 DEF ReducerInv, TypeOK, ChainStateOK
<1>8. DOMAIN state.objects = {}
  BY <1>1, NothingBeforeInit
<1>9. block'.height = height /\ journal' = journal
  BY <1>6 DEF StartBlock, BlockView
<1>10. InitBlockEmpty'
  BY <1>5, <1>7, <1>8, <1>9 DEF InitBlockEmpty, ActiveProtocol
<1>11. BlockEventsOK'
  BY <1>6 DEF BlockEventsOK, OneOperationPerBlock, EventKeysUnique
<1>12. BranchEvents' = BranchEvents
  BY <1>1, <1>6, <1>9 DEF BranchEvents, EventInv, BlockEventsOK
<1>13. Level(state', coins, mined, BranchEvents')
  BY <1>7, <1>12, LevelSameObjects DEF EventInv
<1> QED
  BY <1>1, <1>6, <1>10, <1>11, <1>13, StartKeepsEvents

\* The block of the configured INIT when it is invalid.
LEMMA FailedInitBlockKeepsEvents ==
    ASSUME ReducerInv, LinkInv, EventInv, NEW height \in 1..MaxHeight, NEW previous,
           BeginFailedInitBlock(height, previous)
    PROVE  EventInv'
<1>1. ~reducing /\ state.protocol_status = AwaitingInit /\ height \in Nat
  BY BitcoinAssumption DEF BeginFailedInitBlock
<1>2. PICK txs \in BlockTxs : \E i \in DOMAIN txs :
        LET tx == resolve_transaction(txs, height, txs[i])
            reason == validate_configured_init(height, tx)
        IN  /\ Minable(txs)
            /\ state' = [state EXCEPT !.protocol_status = FailedInit(reason, height)]
            /\ events' = {[bare_invalid_event(tx, EventIndex(tx), AttemptedType(tx), reason)
                             EXCEPT !.height = height, !.tx_index = i - 1]}
            /\ StartBlock(height, previous, txs)
  BY ZenonT(30) DEF BeginFailedInitBlock
<1>3. PICK i \in DOMAIN txs :
        LET tx == resolve_transaction(txs, height, txs[i])
            reason == validate_configured_init(height, tx)
        IN  /\ state' = [state EXCEPT !.protocol_status = FailedInit(reason, height)]
            /\ events' = {[bare_invalid_event(tx, EventIndex(tx), AttemptedType(tx), reason)
                             EXCEPT !.height = height, !.tx_index = i - 1]}
  BY <1>2, Zenon
<1> DEFINE tx == resolve_transaction(txs, height, txs[i])
           reason == validate_configured_init(height, tx)
           e == [bare_invalid_event(tx, EventIndex(tx), AttemptedType(tx), reason)
                    EXCEPT !.height = height, !.tx_index = i - 1]
<1>4. /\ state' = [state EXCEPT !.protocol_status = FailedInit(reason, height)]
      /\ events' = {e} /\ StartBlock(height, previous, txs) /\ Minable(txs)
  BY <1>2, <1>3
<1>5. i \in Int
  BY DEF BlockTxs
<1>6. /\ e.height = height /\ e.tx_index \in Int /\ e.object_key = ZERO
      /\ e.event_type # "Refund"
  BY <1>5, NeverAttemptsRefund DEF bare_invalid_event, Event
<1> HIDE DEF e, reason, tx
<1>7. /\ state'.objects = state.objects
      /\ state'.protocol_status = FailedInit(reason, height)
  BY <1>4 DEF ReducerInv, TypeOK, ChainStateOK
<1>8. DOMAIN state.objects = {}
  BY <1>1, NothingBeforeInit
<1>9. block'.height = height /\ journal' = journal /\ reducing'
  BY <1>4 DEF StartBlock, BlockView
<1>10. InitBlockEmpty'
  BY <1>7 DEF InitBlockEmpty, FailedInit
<1>11. BlockEventsOK'
  BY <1>4, <1>6, <1>7, <1>9
     DEF BlockEventsOK, OneOperationPerBlock, EventKeysUnique, FailedInit
<1>12. BranchEvents' = BranchEvents \cup {e}
  BY <1>1, <1>4, <1>9 DEF BranchEvents, EventInv, BlockEventsOK
<1>13. Level(state', coins, mined, BranchEvents')
  <2>1. Level(state, coins, mined, BranchEvents)
    BY DEF EventInv
  <2>2. \A f \in BranchEvents' : EventOK(f, state') /\ f.event_type # "Refund"
    BY <1>1, <1>6, <1>7, <1>8, <1>12, <2>1 DEF Level, EventOK
  <2> QED
    BY <1>7, <1>8, <2>1, <2>2 DEF Level, RefundsMature
<1> QED
  BY <1>1, <1>4, <1>10, <1>11, <1>13, StartKeepsEvents

\* Any later block.
LEMMA LaterBlockKeepsEvents ==
    ASSUME ReducerInv, LinkInv, EventInv, NEW height \in 1..MaxHeight, NEW previous,
           BeginBlock(height, previous)
    PROVE  EventInv'
<1>1. PICK txs \in BlockTxs : Minable(txs) /\ StartBlock(height, previous, txs)
  BY DEF BeginBlock
<1>2. /\ ~reducing /\ state.protocol_status # AwaitingInit /\ events' = {} /\ state' = state
      /\ before' = state /\ journal' = journal
  BY <1>1 DEF BeginBlock, StartBlock
<1>3. InitBlockEmpty' /\ BlockEventsOK'
  BY <1>2, ZenonT(30) DEF InitBlockEmpty, BlockEventsOK, OneOperationPerBlock, EventKeysUnique
<1>4. BranchEvents' = BranchEvents
  BY <1>2 DEF BranchEvents, EventInv, BlockEventsOK
<1>5. Level(state', coins, mined, BranchEvents')
  BY <1>2, <1>4, ZenonT(30) DEF EventInv
<1> QED
  BY <1>1, <1>2, <1>3, <1>5, StartKeepsEvents

\* Events of a journal from its first n entries.
LEMMA EventsBelowFacts ==
    /\ \A j, k : \A n \in Nat : (\A i \in 1..n : j[i] = k[i]) => EventsBelow(j, n) = EventsBelow(k, n)
    /\ \A j : \A n \in Nat : EventsBelow(j, n + 1) = EventsBelow(j, n) \cup j[n + 1].events
    /\ \A j : EventsBelow(j, 0) = {}
<1>1. ASSUME NEW j, NEW k, NEW n \in Nat, \A i \in 1..n : j[i] = k[i]
      PROVE  EventsBelow(j, n) = EventsBelow(k, n)
  BY <1>1 DEF EventsBelow
<1>2. ASSUME NEW j, NEW n \in Nat
      PROVE  EventsBelow(j, n + 1) = EventsBelow(j, n) \cup j[n + 1].events
  <2>1. 1..(n + 1) = (1..n) \cup {n + 1}
    OBVIOUS
  <2>2. ASSUME NEW e \in EventsBelow(j, n + 1)
        PROVE  e \in EventsBelow(j, n) \/ e \in j[n + 1].events
    <3>1. PICK i \in 1..(n + 1) : e \in j[i].events
      BY DEF EventsBelow
    <3> QED
      BY <2>1, <3>1 DEF EventsBelow
  <2>3. ASSUME NEW e, e \in EventsBelow(j, n) \/ e \in j[n + 1].events
        PROVE  e \in EventsBelow(j, n + 1)
    BY <2>1, <2>3 DEF EventsBelow
  <2> QED
    BY <2>2, <2>3
<1>3. ASSUME NEW j PROVE EventsBelow(j, 0) = {}
  BY DEF EventsBelow
<1> QED
  BY <1>1, <1>2, <1>3

\* No event of the branch is above the block being reduced.
LEMMA EventsUpToBlock ==
    ASSUME ReducerInv, LinkInv, EventInv, reducing
    PROVE  \A e \in BranchEvents : e.height <= block.height
<1>1. BranchEvents = EventsBelow(journal, Len(journal)) \cup events
  BY BranchIsJournal, ZenonT(30) DEF ReducerInv, StacksOK
<1>2. \A e \in BranchEvents : e.height \in Nat
  BY DEF EventInv, Level, EventOK
<1>3. \A e \in events : e.height = block.height
  BY DEF EventInv, BlockEventsOK
<1>4. \A e \in EventsBelow(journal, Len(journal)) : e.height <= before.tip_height
  BY ZenonT(30) DEF EventInv, Snapshot
<1>5. before.tip_height \in Nat \cup {NoHeight} /\ block.height \in Nat
  BY SoundTypes DEF ReducerInv, BlockOK
<1>6. before.tip_height # NoHeight => block.height = before.tip_height + 1
  BY DEF LinkInv
<1> QED
  BY <1>1, <1>2, <1>3, <1>4, <1>5, <1>6 DEF NoHeight

\* The finished block's events and its clone go to the journal.
LEMMA FinishKeepsEvents ==
    ASSUME ReducerInv, LinkInv, EventInv, FinishBlock
    PROVE  EventInv'
<1> DEFINE n == Len(journal)
           E == EventsBelow(journal, n)
<1>1. /\ n \in Nat /\ DOMAIN journal = 1..n
      /\ IsSeq(journal') /\ Len(journal') = n + 1 /\ DOMAIN journal' = 1..(n + 1)
      /\ \A i \in 1..n : journal'[i] = journal[i]
      /\ journal'[n + 1].before = before
      /\ before'.tip_height = block.height
      /\ state' = before' /\ reducing /\ ~reducing'
  BY FinishedJournal
<1>2. /\ block' = NoBlock /\ events' = {} /\ coins' = coins /\ mined' = mined /\ undo' = undo
  BY DEF FinishBlock
<1>3. state'.objects = state.objects
  BY DEF FinishBlock, ReducerInv, TypeOK, ChainStateOK
<1>4. journal'[n + 1].events = events
  <2> DEFINE root == block_root(state.chained_root, block.hash, block.height, events,
                                state.objects, counters(state))
             delta == [before |-> before, block_hash |-> block.hash,
                       previous_hash |-> block.previous_hash, height |-> block.height,
                       events |-> events, chained_root |-> root]
  <2> HIDE DEF root
  <2>1. journal' = Append(journal, delta)
    BY DEF FinishBlock, root
  <2>2. delta.events = events
    OBVIOUS
  <2> HIDE DEF delta
  <2>3. IsSeq(journal)
    BY DEF ReducerInv, StacksOK
  <2>4. journal'[n + 1] = delta
    BY <2>1, <2>3, SequencesAreSeq
  <2> QED
    BY <2>2, <2>4
<1>5. BranchEvents = E \cup events
  BY BranchIsJournal, ZenonT(30) DEF ReducerInv, StacksOK
<1>6. Level(state, coins, mined, BranchEvents)
  BY ZenonT(30) DEF EventInv
<1>7. Snapshot(before, undo[n + 1][1], undo[n + 1][2], E)
  <2>1. Len(undo) = n + 1
    BY <1>1, ZenonT(30) DEF ReducerInv, TypeOK
  <2> QED
    BY <1>1, <2>1, ZenonT(30) DEF EventInv
<1>8. \A i \in 1..n : Snapshot(journal[i].before, undo[i][1], undo[i][2], EventsBelow(journal, i - 1))
  BY <1>1 DEF EventInv
<1>9. \A e \in BranchEvents : e.height <= block.height
  BY <1>1, EventsUpToBlock, ZenonT(30)
<1> HIDE DEF n, E
<1>10. EventsBelow(journal', n) = E
  BY <1>1, EventsBelowFacts, ZenonT(30) DEF E
<1>11. EventsBelow(journal', n + 1) = BranchEvents
  BY <1>1, <1>4, <1>5, <1>10, EventsBelowFacts
<1>12. BranchEvents' = BranchEvents
  <2>1. UNION {journal'[i].events : i \in DOMAIN journal'} = EventsBelow(journal', n + 1)
    BY <1>1 DEF EventsBelow
  <2> QED
    BY <1>2, <1>11, <2>1 DEF BranchEvents
<1>13. Level(state', coins', mined', BranchEvents')
  BY <1>2, <1>3, <1>6, <1>12, LevelSameObjects
<1>14. Snapshot(before', coins', mined', EventsBelow(journal', Len(journal')))
  BY <1>1, <1>9, <1>11, <1>12, <1>13 DEF Snapshot
<1>15. ASSUME NEW i \in 1..(n + 1)
       PROVE  Snapshot(journal'[i].before, undo'[i][1], undo'[i][2], EventsBelow(journal', i - 1))
  <2>1. CASE i = n + 1
    <3>1. EventsBelow(journal', i - 1) = E
      BY <1>1, <1>10, <2>1
    <3> QED
      BY <1>1, <1>2, <1>7, <2>1, <3>1
  <2>2. CASE i \in 1..n
    <3>1. i - 1 \in Nat /\ \A a \in 1..(i - 1) : journal'[a] = journal[a]
      BY <1>1, <2>2
    <3>2. EventsBelow(journal', i - 1) = EventsBelow(journal, i - 1)
      BY <3>1, EventsBelowFacts
    <3> QED
      BY <1>1, <1>2, <1>8, <2>2, <3>2
  <2> QED
    BY <1>1, <2>1, <2>2
<1>16. ResolvedOK' /\ InitBlockEmpty' /\ BlockEventsOK'
  <2>1. DOMAIN block'.transactions = {}
    BY <1>2 DEF NoBlock
  <2> QED
    BY <1>1, <1>2, <2>1, ZenonT(30)
       DEF ResolvedOK, InitBlockEmpty, BlockEventsOK, OneOperationPerBlock, EventKeysUnique
<1> QED
  BY <1>1, <1>13, <1>14, <1>15, <1>16, ZenonT(30) DEF EventInv

\* Rolling back restores the agreement of the block below.
LEMMA DisconnectKeepsEvents ==
    ASSUME ReducerInv, EventInv, DisconnectBlock
    PROVE  EventInv'
<1> DEFINE n == Len(journal)
<1>1. /\ n \in Nat /\ n > 0 /\ DOMAIN journal = 1..n
      /\ Len(journal') = n - 1 /\ DOMAIN journal' = 1..(n - 1)
      /\ \A i \in 1..(n - 1) : journal'[i] = journal[i]
      /\ before' = journal[n].before
      /\ state' = before' /\ ~reducing /\ reducing' = reducing
  BY DisconnectedJournal, ZenonT(30)
<1>2. Len(undo) = n /\ IsSeq(undo)
  BY <1>1 DEF ReducerInv, TypeOK, StacksOK
<1>3. /\ undo' = SubSeq(undo, 1, Len(undo) - 1) /\ coins' = undo[n][1] /\ mined' = undo[n][2]
      /\ block' = block /\ events' = events
  BY <1>2 DEF DisconnectBlock
<1>4. \A i \in 1..(n - 1) : undo'[i] = undo[i]
  BY <1>1, <1>2, <1>3, SequencesAreSeq
<1>5. \A i \in 1..n : Snapshot(journal[i].before, undo[i][1], undo[i][2], EventsBelow(journal, i - 1))
  BY <1>1 DEF EventInv
<1>6. events = {} /\ block = NoBlock
  BY <1>1, ZenonT(30) DEF EventInv, BlockEventsOK, ReducerInv
<1> HIDE DEF n
<1>7. EventsBelow(journal', n - 1) = EventsBelow(journal, n - 1)
  <2>1. n - 1 \in Nat
    BY <1>1
  <2> QED
    BY <1>1, <2>1, EventsBelowFacts
<1>8. BranchEvents' = EventsBelow(journal', n - 1)
  BY <1>1, <1>3, <1>6 DEF BranchEvents, EventsBelow
<1>9. n \in 1..n
  BY <1>1
<1>10. Snapshot(before', coins', mined', EventsBelow(journal', n - 1))
  BY <1>1, <1>3, <1>5, <1>7, <1>9
<1>11. Level(state', coins', mined', BranchEvents')
  BY <1>1, <1>8, <1>10 DEF Snapshot
<1>12. ASSUME NEW i \in 1..(n - 1)
       PROVE  Snapshot(journal'[i].before, undo'[i][1], undo'[i][2], EventsBelow(journal', i - 1))
  <2>1. i \in 1..n /\ i - 1 \in Nat /\ \A a \in 1..(i - 1) : journal'[a] = journal[a]
    BY <1>1
  <2>2. EventsBelow(journal', i - 1) = EventsBelow(journal, i - 1)
    BY <2>1, EventsBelowFacts
  <2> QED
    BY <1>1, <1>4, <1>5, <2>1, <2>2
<1>13. ResolvedOK' /\ InitBlockEmpty' /\ BlockEventsOK'
  <2>1. DOMAIN block'.transactions = {}
    BY <1>3, <1>6 DEF NoBlock
  <2> QED
    BY <1>1, <1>3, <1>6, <2>1, ZenonT(30)
       DEF ResolvedOK, InitBlockEmpty, BlockEventsOK, OneOperationPerBlock, EventKeysUnique
<1> QED
  BY <1>1, <1>10, <1>11, <1>12, <1>13, ZenonT(30) DEF EventInv

-----------------------------------------------------------------------------
(* The invariant and what follows from it. *)

\* Before the first block there are funding outputs, no objects and no events.
LEMMA InitEvents ==
    Init => EventInv
<1> SUFFICES ASSUME Init PROVE EventInv
  OBVIOUS
<1>1. /\ coins = Funding /\ mined = {p[1] : p \in DOMAIN Funding} /\ journal = <<>>
      /\ state = NewChainState /\ before = NewChainState /\ events = {} /\ ~reducing
      /\ block = NoBlock
  BY DEF Init
<1>2. UtxoOK(coins, mined)
  BY <1>1, BitcoinAssumption, ZenonT(30) DEF UtxoOK, Coin
<1>3. DOMAIN state.objects = {}
  BY <1>1 DEF NewChainState, EmptyMap
<1>4. BranchEvents = {} /\ EventsBelow(journal, Len(journal)) = {}
  BY <1>1, EventsBelowFacts DEF BranchEvents
<1>5. Level(state, coins, mined, {})
  BY <1>2, <1>3, ZenonT(30) DEF Level, RefundsMature
<1>6. Snapshot(before, coins, mined, {})
  BY <1>1, <1>5, ZenonT(30) DEF Snapshot
<1>7. DOMAIN journal = {} /\ DOMAIN block.transactions = {}
  BY <1>1 DEF NoBlock
<1>8. ResolvedOK /\ InitBlockEmpty /\ BlockEventsOK
  BY <1>1, <1>7, ZenonT(30) DEF ResolvedOK, InitBlockEmpty, BlockEventsOK, OneOperationPerBlock,
                    EventKeysUnique
<1> QED
  BY <1>1, <1>4, <1>5, <1>6, <1>7, <1>8, ZenonT(30) DEF EventInv

=============================================================================
