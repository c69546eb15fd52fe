---------------------------- MODULE ReducerProofs -----------------------------
(***************************************************************************)
(* Proofs about Reducer, for every value of its constants: the states of   *)
(* apply_block and disconnect_block, and the processed blocks, which form  *)
(* one linked branch and implement CanonicalChain.                         *)
(***************************************************************************)
EXTENDS History, TLAPS

\* The provers of a leaf that names none, in this order.
USE SMT, Zenon, SMTT(30)

-----------------------------------------------------------------------------
(* Operators on states. *)

\* More confirmed transactions keep a state sound.
LEMMA SoundGrows ==
    ASSUME NEW st, NEW ids, NEW more, Sound(st, ids)
    PROVE  Sound(st, ids \cup more)
BY DEF Sound, KnownTo

\* The types of a sound state, in the form the provers use.
LEMMA SoundTypes ==
    ASSUME NEW st, NEW ids, Sound(st, ids)
    PROVE  /\ st.objects \in [DOMAIN st.objects -> ObjectState]
           /\ st.active \in [DOMAIN st.active -> Txid]
           /\ DOMAIN st.objects \subseteq Txid
           /\ DOMAIN st.active \subseteq OutPoint
           /\ st.protocol_status \in ProtocolStatus
           /\ st.tip_height \in Nat \cup {NoHeight}
BY DEF Sound, ChainStateOK

\* What ending an object leaves alone.
LEMMA EndedObject ==
    ASSUME NEW o \in ObjectState, NEW status \in TerminalStatus, NEW txid \in Txid
    PROVE  /\ Ended(o, status, txid) \in ObjectState
           /\ Ended(o, status, txid).status = status
           /\ Ended(o, status, txid).current_outpoint = ZERO_OUTPOINT
           /\ Ended(o, status, txid).object_key = o.object_key
           /\ Ended(o, status, txid).state_seq = o.state_seq
           /\ Ended(o, status, txid).chapter_count = o.chapter_count
           /\ Ended(o, status, txid).create_height = o.create_height
BY Zenon DEF Ended, ObjectState, ZERO_OUTPOINT, OutPoint, Txid

\* Ending active objects keeps the two maps coherent.
LEMMA TerminateSound ==
    ASSUME NEW st, NEW ids, Sound(st, ids),
           NEW keys \in SUBSET DOMAIN st.objects,
           \A k \in keys : st.objects[k].status = "Active",
           NEW status \in TerminalStatus, NEW txid \in Txid
    PROVE  Sound(terminate_object(st, keys, status, txid), ids)
<1> DEFINE new == terminate_object(st, keys, status, txid)
           gone == {st.objects[k].current_outpoint : k \in keys}
           O == st.objects
           A == st.active
<1>1. /\ new.active = [p \in DOMAIN A \ gone |-> A[p]]
      /\ new.objects = [k \in DOMAIN O |-> IF k \in keys THEN Ended(O[k], status, txid) ELSE O[k]]
      /\ new.protocol_status = st.protocol_status
      /\ new.tip_height = st.tip_height
  BY DEF Sound, ChainStateOK, terminate_object, MapRemove
<1>2. new \in [protocol_status : {st.protocol_status}, tip_height : {st.tip_height},
               tip_hash : {new.tip_hash}, chained_root : {new.chained_root},
               objects : {new.objects}, active : {new.active}]
  BY Zenon DEF Sound, ChainStateOK, terminate_object
<1>3. /\ O \in [DOMAIN O -> ObjectState]
      /\ A \in [DOMAIN A -> Txid]
      /\ DOMAIN O \subseteq Txid
      /\ DOMAIN A \subseteq OutPoint
      /\ st.protocol_status \in ProtocolStatus
      /\ st.tip_height \in Nat \cup {NoHeight}
  BY SoundTypes
<1>4. \A k \in keys :
        LET o == Ended(O[k], status, txid)
        IN  /\ o \in ObjectState
            /\ o.status = status
            /\ o.current_outpoint = ZERO_OUTPOINT
            /\ o.object_key = O[k].object_key
            /\ o.state_seq = O[k].state_seq
            /\ o.chapter_count = O[k].chapter_count
            /\ o.create_height = O[k].create_height
  BY <1>3, EndedObject
<1>5. IndexCoherent(st) /\ ChaptersBounded(st) /\ CreatedAfterOpen(st) /\ KnownTo(st, ids)
  BY DEF Sound
<1> HIDE DEF new
<1>6. ChainStateOK(new)
  <2>1. DOMAIN new.objects = DOMAIN O /\ DOMAIN new.active \subseteq DOMAIN A
    BY <1>1
  <2>2. new.active \in [DOMAIN new.active -> Txid] /\ new.objects \in [DOMAIN O -> ObjectState]
    BY <1>1, <1>3, <1>4
  <2> QED
    BY <1>2, <1>3, <2>1, <2>2 DEF ChainStateOK
<1>7. IndexCoherent(new)
  <2>1. ASSUME NEW p \in DOMAIN new.active
        PROVE  /\ new.active[p] \in DOMAIN new.objects
               /\ new.objects[new.active[p]].status = "Active"
               /\ new.objects[new.active[p]].current_outpoint = p
    <3>1. p \in DOMAIN A /\ p \notin gone /\ new.active[p] = A[p]
      BY <1>1
    <3>2. A[p] \in DOMAIN O /\ O[A[p]].status = "Active" /\ O[A[p]].current_outpoint = p
      BY <1>5, <3>1 DEF IndexCoherent
    <3>3. A[p] \notin keys
      BY <3>1, <3>2
    <3> QED
      BY <1>1, <3>1, <3>2, <3>3, ZenonT(60)
  <2>2. ASSUME NEW k \in DOMAIN new.objects, k \in keys
        PROVE  /\ new.objects[k].object_key = k
               /\ new.objects[k].status # "Active"
               /\ new.objects[k].current_outpoint = ZERO_OUTPOINT
    BY <1>1, <1>4, <1>5, <2>2 DEF IndexCoherent, TerminalStatus
  <2>3. ASSUME NEW k \in DOMAIN new.objects, k \notin keys, O[k].status = "Active"
        PROVE  /\ O[k].current_outpoint \in DOMAIN new.active
               /\ new.active[O[k].current_outpoint] = k
    <3>1. k \in DOMAIN O
      BY <1>1
    <3>2. O[k].current_outpoint \in DOMAIN A /\ A[O[k].current_outpoint] = k
      BY <1>5, <2>3, <3>1 DEF IndexCoherent
    <3>3. \A j \in keys : A[O[j].current_outpoint] = j
      BY <1>5 DEF IndexCoherent
    <3> QED
      BY <1>1, <2>3, <3>2, <3>3
  <2>4. ASSUME NEW k \in DOMAIN new.objects, k \notin keys
        PROVE  k \in DOMAIN O /\ new.objects[k] = O[k]
    BY <1>1, <2>4
  <2> QED
    BY <1>5, <2>1, <2>2, <2>3, <2>4 DEF IndexCoherent
<1>8. ChaptersBounded(new)
  BY <1>1, <1>4, <1>5 DEF ChaptersBounded
<1>9. CreatedAfterOpen(new)
  BY <1>1, <1>4, <1>5 DEF CreatedAfterOpen
<1>10. KnownTo(new, ids)
  BY <1>1, <1>5 DEF KnownTo
<1> QED
  BY <1>6, <1>7, <1>8, <1>9, <1>10 DEF Sound, new

\* Adding an object, or moving its carrier, to an output of a new transaction.
LEMMA InsertSound ==
    ASSUME NEW st, NEW ids, Sound(st, ids),
           NEW o \in ObjectState, NEW gone, NEW new,
           o.status = "Active",
           o.current_outpoint[1] \notin ids,
           o.chapter_count <= o.state_seq,
           st.protocol_status.state = "Active",
           o.create_height >= st.protocol_status.h_open,
           o.object_key \in DOMAIN st.objects =>
                /\ st.objects[o.object_key].status = "Active"
                /\ gone = {st.objects[o.object_key].current_outpoint},
           o.object_key \notin DOMAIN st.objects => gone = {},
           new \in [protocol_status : {st.protocol_status}, tip_height : {st.tip_height},
                    tip_hash : {new.tip_hash}, chained_root : {new.chained_root},
                    objects : {MapInsert(st.objects, o.object_key, o)},
                    active : {MapInsert(MapRemove(st.active, gone), o.current_outpoint,
                                        o.object_key)}]
    PROVE  Sound(new, ids \cup {o.current_outpoint[1], o.object_key})
<1> DEFINE O == st.objects
           A == st.active
           key == o.object_key
           at == o.current_outpoint
           N == new.objects
           B == new.active
<1>1. /\ B = [p \in (DOMAIN A \ gone) \cup {at} |-> IF p = at THEN key ELSE A[p]]
      /\ N = [k \in DOMAIN O \cup {key} |-> IF k = key THEN o ELSE O[k]]
      /\ new.protocol_status = st.protocol_status
      /\ new.tip_height = st.tip_height
  BY ZenonT(30) DEF MapInsert, MapRemove
<1>2. /\ O \in [DOMAIN O -> ObjectState]
      /\ A \in [DOMAIN A -> Txid]
      /\ DOMAIN O \subseteq Txid
      /\ DOMAIN A \subseteq OutPoint
      /\ st.protocol_status \in ProtocolStatus
      /\ st.tip_height \in Nat \cup {NoHeight}
  BY SoundTypes
<1>3. IndexCoherent(st) /\ ChaptersBounded(st) /\ CreatedAfterOpen(st) /\ KnownTo(st, ids)
  BY DEF Sound
<1>4. key \in Txid /\ at \in OutPoint /\ o.state_seq <= U32_MAX
  BY ParameterAssumption DEF ObjectState
<1>5. at \notin DOMAIN A
  BY <1>3 DEF KnownTo
<1>6. ChainStateOK(new)
  <2>1. N \in [DOMAIN N -> ObjectState] /\ DOMAIN N \subseteq Txid
    BY <1>1, <1>2, <1>4
  <2>2. B \in [DOMAIN B -> Txid] /\ DOMAIN B \subseteq OutPoint
    BY <1>1, <1>2, <1>4
  <2> QED
    BY <1>1, <1>2, <2>1, <2>2 DEF ChainStateOK
<1> HIDE DEF O, A, key, at, N, B
<1>7. /\ \A p \in DOMAIN A : /\ A[p] \in DOMAIN O
                             /\ O[A[p]].status = "Active"
                             /\ O[A[p]].current_outpoint = p
      /\ \A k \in DOMAIN O : /\ O[k].object_key = k
                             /\ IF O[k].status = "Active"
                                THEN O[k].current_outpoint \in DOMAIN A
                                     /\ A[O[k].current_outpoint] = k
                                ELSE O[k].current_outpoint = ZERO_OUTPOINT
  BY <1>3 DEF IndexCoherent, O, A
<1>8. /\ key \in DOMAIN O => gone = {O[key].current_outpoint} /\ O[key].status = "Active"
      /\ key \notin DOMAIN O => gone = {}
      /\ o.object_key = key /\ o.current_outpoint = at
  BY DEF O, key, at
<1>9. ASSUME NEW p \in DOMAIN B
      PROVE  B[p] \in DOMAIN N /\ N[B[p]].status = "Active" /\ N[B[p]].current_outpoint = p
  <2>1. CASE p = at
    BY <1>1, <1>8, <2>1
  <2>2. CASE p # at
    <3>1. p \in DOMAIN A /\ p \notin gone /\ B[p] = A[p]
      BY <1>1, <2>2
    <3>2. A[p] # key
      BY <1>7, <1>8, <3>1
    <3> QED
      BY <1>1, <1>7, <3>1, <3>2
  <2> QED
    BY <2>1, <2>2
<1>10. ASSUME NEW k \in DOMAIN N
       PROVE  /\ N[k].object_key = k
              /\ IF N[k].status = "Active"
                 THEN N[k].current_outpoint \in DOMAIN B /\ B[N[k].current_outpoint] = k
                 ELSE N[k].current_outpoint = ZERO_OUTPOINT
  <2>1. CASE k = key
    BY <1>1, <1>8, <2>1
  <2>2. CASE k # key
    <3>1. k \in DOMAIN O /\ N[k] = O[k]
      BY <1>1, <2>2
    <3>2. ASSUME O[k].status = "Active"
          PROVE  /\ O[k].current_outpoint \in DOMAIN A
                 /\ O[k].current_outpoint \notin gone
                 /\ O[k].current_outpoint # at
                 /\ A[O[k].current_outpoint] = k
      BY <1>5, <1>7, <1>8, <2>2, <3>1, <3>2
    <3> QED
      BY <1>1, <1>7, <3>1, <3>2
  <2> QED
    BY <2>1, <2>2
<1>11. IndexCoherent(new)
  BY <1>9, <1>10 DEF IndexCoherent, N, B
<1>12. ChaptersBounded(new)
  BY <1>1, <1>3, <1>4 DEF ChaptersBounded, N, O
<1>13. CreatedAfterOpen(new)
  BY <1>1, <1>3 DEF CreatedAfterOpen, N, O
<1>14. KnownTo(new, ids \cup {o.current_outpoint[1], o.object_key})
  BY <1>1, <1>3, <1>8 DEF KnownTo, N, O, B, A, at, key
<1> QED
  BY <1>6, <1>11, <1>12, <1>13, <1>14 DEF Sound

-----------------------------------------------------------------------------
(* What an accepted operation has established. *)

\* A validator answers with a reason, never with the name of an operation.
LEMMA ValidatorsReturnReasons ==
    ASSUME NEW st, NEW height, NEW tx, NEW v, NEW m, NEW C
    PROVE  /\ validate_create(st, height, tx, v, m) \in FailureReason \cup {"Valid"}
           /\ validate_mark(st, height, tx, v, m, C) \in FailureReason \cup {"Valid"}
           /\ validate_rotate(st, height, tx, v, m, C) \in FailureReason \cup {"Valid"}
           /\ validate_close(st, height, tx, v, m, C) \in FailureReason \cup {"Valid"}
           /\ validate_single(st, height, tx, v, m, C) \in FailureReason \cup {"Valid"}
<1>1. SequenceFailure(st, tx, m, C) \in FailureReason \cup {"Valid"}
  BY DEF SequenceFailure, FailureReason
<1>2. validate_create(st, height, tx, v, m) \in FailureReason \cup {"Valid"}
  BY DEF validate_create, FailureReason
<1>3. validate_mark(st, height, tx, v, m, C) \in FailureReason \cup {"Valid"}
  BY <1>1 DEF validate_mark, FailureReason
<1>4. validate_rotate(st, height, tx, v, m, C) \in FailureReason \cup {"Valid"}
  BY <1>1 DEF validate_rotate, FailureReason
<1>5. validate_close(st, height, tx, v, m, C) \in FailureReason \cup {"Valid"}
  BY <1>1 DEF validate_close, FailureReason
<1>6. validate_single(st, height, tx, v, m, C) \in FailureReason \cup {"Valid"}
  BY <1>2, <1>3, <1>4, <1>5 DEF validate_single, FailureReason
<1> QED
  BY <1>2, <1>3, <1>4, <1>5, <1>6

\* An operation is reported only for a single accepted marker.
LEMMA OperationIsValidated ==
    ASSUME NEW st, NEW height, NEW tx, NEW op \in {"Create", "Mark", "Rotate", "Close"},
           Outcome(st, height, tx) = op
    PROVE  \E i \in marker_candidates(tx) :
                /\ validate_single(st, height, tx, vout(i), marker_at(tx, i),
                                   carrier_spends(st, tx)) = "Valid"
                /\ marker_at(tx, i).opcode = op
<1> DEFINE M == marker_candidates(tx)
           i == CHOOSE x \in M : TRUE
           reason == validate_single(st, height, tx, vout(i), marker_at(tx, i),
                                     carrier_spends(st, tx))
<1>1. reason \in FailureReason \cup {"Valid"}
  BY ValidatorsReturnReasons
<1>2. M # {} /\ op = IF reason = "Valid" THEN marker_at(tx, i).opcode ELSE reason
  BY DEF Outcome
<1>3. op \notin FailureReason
  BY DEF FailureReason
<1> QED
  BY <1>1, <1>2, <1>3, ZenonT(30)

\* MARK, ROTATE and CLOSE spend the carrier of one object with input 0 and
\* carry its next sequence, which still fits a u32.
LEMMA TransitionIsValidated ==
    ASSUME NEW st, NEW height, NEW tx, tx.outputs \in Seq(RawOutput),
           NEW op \in {"Mark", "Rotate", "Close"}, Outcome(st, height, tx) = op
    PROVE  /\ carrier_spends(st, tx) = {1}
           /\ marker_at(tx, 1).sequence = object_at(st, tx.inputs[1].prevout).state_seq + 1
           /\ ~(object_at(st, tx.inputs[1].prevout).state_seq + 1 > U32_MAX)
<1> DEFINE C == carrier_spends(st, tx)
<1>1. PICK i \in marker_candidates(tx) :
            /\ validate_single(st, height, tx, vout(i), marker_at(tx, i), C) = "Valid"
            /\ marker_at(tx, i).opcode = op
  BY OperationIsValidated
<1> DEFINE m == marker_at(tx, i)
<1>2. \/ validate_mark(st, height, tx, vout(i), m, C) = "Valid"
      \/ validate_rotate(st, height, tx, vout(i), m, C) = "Valid"
      \/ validate_close(st, height, tx, vout(i), m, C) = "Valid"
  BY <1>1 DEF validate_single
<1>3. C \subseteq {1} /\ vout(i) = 0 /\ SequenceFailure(st, tx, m, C) = "Valid"
  <2>1. CASE validate_mark(st, height, tx, vout(i), m, C) = "Valid"
    BY <2>1 DEF validate_mark, check_output_shape
  <2>2. CASE validate_rotate(st, height, tx, vout(i), m, C) = "Valid"
    BY <2>2 DEF validate_rotate, check_output_shape
  <2>3. CASE validate_close(st, height, tx, vout(i), m, C) = "Valid"
    BY <2>3 DEF validate_close, check_output_shape
  <2> QED
    BY <1>2, <2>1, <2>2, <2>3
<1>4. i = 1
  <2>1. i \in DOMAIN tx.outputs
    BY DEF marker_candidates
  <2>2. i \in Int
    BY <2>1
  <2> QED
    BY <1>3, <2>2 DEF vout
<1> QED
  BY <1>3, <1>4 DEF SequenceFailure

\* CREATE binds two ordered keys at or after h_open.
LEMMA CreateIsValidated ==
    ASSUME NEW st, NEW height, NEW tx, Outcome(st, height, tx) = "Create", IsSeq(tx.inputs)
    PROVE  /\ DOMAIN tx.inputs = {1, 2}
           /\ checked(p2wpkh_key(tx.inputs[1]), p2wpkh_key(tx.inputs[2])) # NoKeys
           /\ st.protocol_status.state = "Active"
           /\ ~(height < st.protocol_status.h_open)
<1> DEFINE C == carrier_spends(st, tx)
<1>1. PICK i \in marker_candidates(tx) :
            /\ validate_single(st, height, tx, vout(i), marker_at(tx, i), C) = "Valid"
            /\ marker_at(tx, i).opcode = "Create"
  BY OperationIsValidated
<1>2. validate_create(st, height, tx, vout(i), marker_at(tx, i)) = "Valid"
  BY <1>1 DEF validate_single
<1>3. Len(tx.inputs) = 2
  BY <1>2 DEF validate_create
<1>4. DOMAIN tx.inputs = 1..Len(tx.inputs)
  BY DEF IsSeq
<1>5. DOMAIN tx.inputs = {1, 2}
  BY <1>3, <1>4
<1>6. checked(p2wpkh_key(tx.inputs[1]), p2wpkh_key(tx.inputs[2])) # NoKeys
  BY <1>2 DEF validate_create
<1>7. PhaseOpen(st, height)
  BY <1>2 DEF validate_create
<1> QED
  BY <1>5, <1>6, <1>7 DEF PhaseOpen

\* ROTATE binds two ordered keys of its wallet inputs.
LEMMA RotateIsValidated ==
    ASSUME NEW st, NEW height, NEW tx, Outcome(st, height, tx) = "Rotate", IsSeq(tx.inputs)
    PROVE  /\ DOMAIN tx.inputs = 1..3
           /\ checked(p2wpkh_key(tx.inputs[2]), p2wpkh_key(tx.inputs[3])) # NoKeys
<1> DEFINE C == carrier_spends(st, tx)
<1>1. PICK i \in marker_candidates(tx) :
            /\ validate_single(st, height, tx, vout(i), marker_at(tx, i), C) = "Valid"
            /\ marker_at(tx, i).opcode = "Rotate"
  BY OperationIsValidated
<1>2. validate_rotate(st, height, tx, vout(i), marker_at(tx, i), C) = "Valid"
  BY <1>1 DEF validate_single
<1>3. Len(tx.inputs) = 3
  BY <1>2 DEF validate_rotate
<1>4. DOMAIN tx.inputs = 1..Len(tx.inputs)
  BY DEF IsSeq
<1> QED
  BY <1>2, <1>3, <1>4 DEF validate_rotate

\* REFUND spends the carrier of one object with its only input.
LEMMA RefundIsValidated ==
    ASSUME NEW st, NEW height, NEW tx, Outcome(st, height, tx) = "Refund", IsSeq(tx.inputs)
    PROVE  carrier_spends(st, tx) = {1}
<1> DEFINE C == carrier_spends(st, tx)
           i == CHOOSE x \in marker_candidates(tx) : TRUE
           reason == validate_single(st, height, tx, vout(i), marker_at(tx, i), C)
<1>1. reason \in FailureReason \cup {"Valid"}
  BY ValidatorsReturnReasons
<1>2. marker_candidates(tx) = {} => C # {} /\ Len(tx.inputs) = 1
  BY DEF Outcome
<1>3. marker_candidates(tx) # {} => reason = "Valid" /\ marker_at(tx, i).opcode = "Refund"
  BY <1>1 DEF Outcome, FailureReason
<1>4. marker_candidates(tx) = {}
  BY <1>3 DEF validate_single, Opcode
<1>5. DOMAIN tx.inputs = 1..Len(tx.inputs)
  BY DEF IsSeq
<1> QED
  BY <1>2, <1>4, <1>5 DEF carrier_spends

\* Accepted keys come from witnesses.
LEMMA CheckedKeys ==
    ASSUME NEW a, NEW b, a.witness \in Witness, b.witness \in Witness,
           checked(p2wpkh_key(a), p2wpkh_key(b)) # NoKeys
    PROVE  checked(p2wpkh_key(a), p2wpkh_key(b)) \in Nat \X Nat
<1>1. ASSUME NEW in, in.witness \in Witness
      PROVE  p2wpkh_key(in) \in Nat
  BY <1>1 DEF p2wpkh_key, p2wpkh_revealed, Witness, ZERO_KEY
<1> QED
  BY <1>1 DEF checked

-----------------------------------------------------------------------------
(* One lemma per kind of state change, on states. *)

\* The carriers that tx spends belong to active objects.
LEMMA SpentAreActive ==
    ASSUME NEW st, NEW ids, NEW tx, Sound(st, ids)
    PROVE  /\ SpentKeys(st, tx) \in SUBSET DOMAIN st.objects
           /\ \A k \in SpentKeys(st, tx) : st.objects[k].status = "Active"
           /\ \A i \in carrier_spends(st, tx) :
                LET o == object_at(st, tx.inputs[i].prevout)
                IN  /\ o \in ObjectState
                    /\ o.object_key \in DOMAIN st.objects
                    /\ st.objects[o.object_key] = o
                    /\ o.status = "Active"
                    /\ o.chapter_count <= o.state_seq
                    /\ st.protocol_status.state = "Active"
                    /\ o.create_height >= st.protocol_status.h_open
<1> DEFINE O == st.objects
           A == st.active
<1>1. O \in [DOMAIN O -> ObjectState]
  BY SoundTypes
<1>2. \A i \in carrier_spends(st, tx) :
        LET k == A[tx.inputs[i].prevout]
        IN  k \in DOMAIN O /\ O[k].status = "Active" /\ O[k].object_key = k
  BY Zenon DEF Sound, IndexCoherent, carrier_spends
<1>3. \A k \in DOMAIN O : /\ O[k].chapter_count <= O[k].state_seq
                          /\ st.protocol_status.state = "Active"
                          /\ O[k].create_height >= st.protocol_status.h_open
  BY DEF Sound, ChaptersBounded, CreatedAfterOpen
<1>4. SpentKeys(st, tx) = {A[tx.inputs[i].prevout] : i \in carrier_spends(st, tx)}
  BY DEF SpentKeys
<1>5. \A i \in carrier_spends(st, tx) :
        object_at(st, tx.inputs[i].prevout) = O[A[tx.inputs[i].prevout]]
  BY DEF object_at
<1> HIDE DEF O, A
<1> QED
  BY <1>1, <1>2, <1>3, <1>4, <1>5, ZenonT(30) DEF O

\* MARK and ROTATE: the carrier of an active object moves to a new transaction.
LEMMA MoveSound ==
    ASSUME NEW st, NEW ids, Sound(st, ids), NEW txid \in Txid, txid \notin ids,
           NEW o \in ObjectState, o.object_key \in DOMAIN st.objects,
           st.objects[o.object_key].status = "Active",
           st.objects[o.object_key].current_outpoint = o.current_outpoint,
           o.status = "Active", o.chapter_count <= o.state_seq,
           st.protocol_status.state = "Active",
           o.create_height >= st.protocol_status.h_open
    PROVE  Sound(move_carrier(st, o, txid), ids \cup {txid})
<1> DEFINE new == move_carrier(st, o, txid)
           moved == [o EXCEPT !.current_outpoint = successor(txid)]
           gone == {o.current_outpoint}
<1>1. /\ moved \in ObjectState
      /\ moved.status = "Active"
      /\ moved.current_outpoint = <<txid, 1>>
      /\ moved.object_key = o.object_key
      /\ moved.chapter_count <= moved.state_seq
      /\ moved.create_height = o.create_height
  BY DEF ObjectState, successor, OutPoint, Txid
<1>2. new \in [protocol_status : {st.protocol_status}, tip_height : {st.tip_height},
               tip_hash : {new.tip_hash}, chained_root : {new.chained_root},
               objects : {MapInsert(st.objects, moved.object_key, moved)},
               active : {MapInsert(MapRemove(st.active, gone), moved.current_outpoint,
                                   moved.object_key)}]
  BY Zenon DEF Sound, ChainStateOK, move_carrier, insert_object
<1> HIDE DEF new, moved
<1>3. Sound(new, ids \cup {moved.current_outpoint[1], moved.object_key})
  BY <1>1, <1>2, InsertSound
<1>4. o.object_key \in ids
  BY DEF Sound, KnownTo
<1>5. ids \cup {moved.current_outpoint[1], moved.object_key} = ids \cup {txid}
  BY <1>1, <1>4
<1> QED
  BY <1>3, <1>5 DEF new

\* MARK: next sequence and one more chapter.
LEMMA MarkedObject ==
    ASSUME NEW o \in ObjectState, NEW seq, seq = o.state_seq + 1,
           ~(o.state_seq + 1 > U32_MAX), o.chapter_count <= o.state_seq
    PROVE  /\ Marked(o, seq) \in ObjectState
           /\ Marked(o, seq).chapter_count <= Marked(o, seq).state_seq
           /\ Marked(o, seq).state_seq = seq
           /\ Marked(o, seq).status = o.status
           /\ Marked(o, seq).object_key = o.object_key
           /\ Marked(o, seq).current_outpoint = o.current_outpoint
           /\ Marked(o, seq).create_height = o.create_height
           /\ Marked(o, seq).genesis = o.genesis
           /\ Marked(o, seq).founding = o.founding
<1>1. /\ o.state_seq \in 0..U32_MAX /\ o.chapter_count \in 0..U32_MAX
      /\ seq \in 0..U32_MAX /\ o.chapter_count + 1 \in 0..U32_MAX
      /\ o.chapter_count + 1 <= seq /\ o.chapter_count <= seq
  BY ParameterAssumption DEF ObjectState
<1> QED
  BY <1>1, Zenon DEF Marked, ObjectState

\* ROTATE: next sequence and new keys.
LEMMA RotatedObject ==
    ASSUME NEW o \in ObjectState, NEW seq, seq = o.state_seq + 1,
           ~(o.state_seq + 1 > U32_MAX), o.chapter_count <= o.state_seq,
           NEW keys \in Nat \X Nat
    PROVE  /\ Rotated(o, seq, keys) \in ObjectState
           /\ Rotated(o, seq, keys).chapter_count <= Rotated(o, seq, keys).state_seq
           /\ Rotated(o, seq, keys).state_seq = seq
           /\ Rotated(o, seq, keys).status = o.status
           /\ Rotated(o, seq, keys).object_key = o.object_key
           /\ Rotated(o, seq, keys).current_outpoint = o.current_outpoint
           /\ Rotated(o, seq, keys).create_height = o.create_height
           /\ Rotated(o, seq, keys).genesis = o.genesis
           /\ Rotated(o, seq, keys).founding = o.founding
<1>1. /\ o.state_seq \in 0..U32_MAX /\ o.chapter_count \in 0..U32_MAX
      /\ seq \in 0..U32_MAX /\ o.chapter_count + 1 \in 0..U32_MAX
      /\ o.chapter_count + 1 <= seq /\ o.chapter_count <= seq
  BY ParameterAssumption DEF ObjectState
<1> QED
  BY <1>1, Zenon DEF Rotated, ObjectState

\* CLOSE: the final sequence of an ended object.
LEMMA SetSequenceSound ==
    ASSUME NEW st, NEW ids, Sound(st, ids), NEW key \in DOMAIN st.objects,
           NEW seq \in 0..U32_MAX, st.objects[key].chapter_count <= seq
    PROVE  Sound(set_sequence(st, key, seq), ids)
<1> DEFINE new == set_sequence(st, key, seq)
           O == st.objects
           o == O[key]
           N == new.objects
           w == WithSequence(o, seq)
<1>1. /\ O \in [DOMAIN O -> ObjectState]
      /\ st.active \in [DOMAIN st.active -> Txid]
      /\ DOMAIN O \subseteq Txid
      /\ DOMAIN st.active \subseteq OutPoint
      /\ st.protocol_status \in ProtocolStatus
      /\ st.tip_height \in Nat \cup {NoHeight}
  BY SoundTypes
<1>2. o \in ObjectState
  BY <1>1
<1>3. new \in [protocol_status : {st.protocol_status}, tip_height : {st.tip_height},
               tip_hash : {new.tip_hash}, chained_root : {new.chained_root},
               objects : {MapInsert(O, key, w)}, active : {st.active}]
  BY DEF Sound, ChainStateOK, set_sequence
<1>4. N = [k \in DOMAIN O |-> IF k = key THEN w ELSE O[k]]
  BY <1>3 DEF MapInsert
<1> HIDE DEF o
<1>5. /\ w \in ObjectState
      /\ w.state_seq = seq
      /\ w.status = o.status
      /\ w.object_key = o.object_key
      /\ w.current_outpoint = o.current_outpoint
      /\ w.create_height = o.create_height
      /\ w.chapter_count = o.chapter_count
  BY <1>2 DEF WithSequence, ObjectState
<1>6. IndexCoherent(st) /\ ChaptersBounded(st) /\ CreatedAfterOpen(st) /\ KnownTo(st, ids)
  BY DEF Sound
<1>7. new.active = st.active /\ new.protocol_status = st.protocol_status
  BY <1>3
<1> HIDE DEF new, w
<1>8. ChainStateOK(new)
  <2>1. N \in [DOMAIN N -> ObjectState] /\ DOMAIN N = DOMAIN O
    BY <1>1, <1>4, <1>5
  <2> QED
    BY <1>1, <1>3, <1>7, <2>1 DEF ChainStateOK
<1>9. IndexCoherent(new)
  <2>1. \A k \in DOMAIN O : /\ N[k].status = O[k].status
                            /\ N[k].object_key = O[k].object_key
                            /\ N[k].current_outpoint = O[k].current_outpoint
    BY <1>4, <1>5 DEF o
  <2>2. DOMAIN N = DOMAIN O
    BY <1>4
  <2>3. \A p \in DOMAIN st.active : /\ st.active[p] \in DOMAIN O
                                    /\ O[st.active[p]].status = "Active"
                                    /\ O[st.active[p]].current_outpoint = p
    BY <1>6 DEF IndexCoherent
  <2>4. \A k \in DOMAIN O :
          /\ O[k].object_key = k
          /\ IF O[k].status = "Active"
             THEN /\ O[k].current_outpoint \in DOMAIN st.active
                  /\ st.active[O[k].current_outpoint] = k
             ELSE O[k].current_outpoint = ZERO_OUTPOINT
    BY <1>6 DEF IndexCoherent
  <2> HIDE DEF N, O
  <2>5. \A p \in DOMAIN st.active : /\ st.active[p] \in DOMAIN N
                                    /\ N[st.active[p]].status = "Active"
                                    /\ N[st.active[p]].current_outpoint = p
    BY <2>1, <2>2, <2>3
  <2>6. \A k \in DOMAIN N :
          /\ N[k].object_key = k
          /\ IF N[k].status = "Active"
             THEN /\ N[k].current_outpoint \in DOMAIN st.active
                  /\ st.active[N[k].current_outpoint] = k
             ELSE N[k].current_outpoint = ZERO_OUTPOINT
    BY <2>1, <2>2, <2>4
  <2> QED
    BY <1>7, <2>5, <2>6 DEF IndexCoherent, N
<1>10. ChaptersBounded(new)
  BY <1>4, <1>5, <1>6, ParameterAssumption DEF ChaptersBounded, o
<1>11. CreatedAfterOpen(new)
  BY <1>4, <1>5, <1>6, <1>7 DEF CreatedAfterOpen, o
<1>12. KnownTo(new, ids)
  BY <1>4, <1>6, <1>7 DEF KnownTo
<1> QED
  BY <1>8, <1>9, <1>10, <1>11, <1>12 DEF Sound, new

\* CREATE: a new object at a new transaction.
LEMMA CreateSound ==
    ASSUME NEW st, NEW ids, Sound(st, ids), NEW tx, tx.txid \in Txid, tx.txid \notin ids,
           NEW height \in Nat, NEW keys \in Nat \X Nat,
           st.protocol_status.state = "Active",
           height >= st.protocol_status.h_open
    PROVE  Sound(insert_object(st, NewObject(st, height, tx, keys)), ids \cup {tx.txid})
<1> DEFINE o == NewObject(st, height, tx, keys)
           new == insert_object(st, o)
           gone == {}
<1>1. /\ o \in ObjectState
      /\ o.status = "Active"
      /\ o.current_outpoint = <<tx.txid, 1>>
      /\ o.object_key = tx.txid
      /\ o.chapter_count <= o.state_seq
      /\ o.create_height = height
  BY ParameterAssumption
  DEF NewObject, ObjectState, successor, object_key, OutPoint, Txid, ZERO
<1>2. o.object_key \notin DOMAIN st.objects
  BY <1>1 DEF Sound, KnownTo
<1> HIDE DEF o
<1>3. MapRemove(st.active, gone) = st.active
  BY SoundTypes DEF MapRemove
<1>4. new \in [protocol_status : {st.protocol_status}, tip_height : {st.tip_height},
               tip_hash : {new.tip_hash}, chained_root : {new.chained_root},
               objects : {MapInsert(st.objects, o.object_key, o)},
               active : {MapInsert(MapRemove(st.active, gone), o.current_outpoint, o.object_key)}]
  BY <1>3, Zenon DEF Sound, ChainStateOK, insert_object
<1>5. gone = {}
  OBVIOUS
<1> HIDE DEF new, gone
<1>7. Sound(new, ids \cup {o.current_outpoint[1], o.object_key})
  <2>1. o.current_outpoint[1] \notin ids /\ o.create_height >= st.protocol_status.h_open
    BY <1>1
  <2> QED
    BY <1>1, <1>2, <1>4, <1>5, <2>1, InsertSound, ZenonT(30)
<1>6. ids \cup {o.current_outpoint[1], o.object_key} = ids \cup {tx.txid}
  BY <1>1
<1> QED
  BY <1>6, <1>7 DEF new, o

-----------------------------------------------------------------------------
(* Each action preserves the invariant. *)

\* A block's next transaction is well formed and new.
LEMMA CurrentIsFresh ==
    ASSUME ReducerInv, InTransactions
    PROVE  /\ index + 1 \in DOMAIN block.transactions
           /\ ViewOK(CurrentTx)
           /\ CurrentTx.txid \in Txid
           /\ CurrentTx.txid \notin mined
<1>1. index \in Nat /\ index + 1 \in DOMAIN block.transactions
  BY DEF ReducerInv, TypeOK, BlockOK, InTransactions, IsSeq
<1> QED
  BY <1>1 DEF ReducerInv, BlockOK, PendingFresh, CurrentTx, ViewOK

\* Processing a transaction into a sound state preserves the invariant.
LEMMA ProcessedKeepsInv ==
    ASSUME ReducerInv, InTransactions, NEW st, NEW new, Processed(st, new),
           Sound(st, mined \cup {CurrentTx.txid})
    PROVE  ReducerInv'
<1> USE DEF Processed
<1>1. Sound(state', mined')
  OBVIOUS
<1>2. /\ index \in Nat /\ index' = index + 1 /\ index + 1 \in DOMAIN block.transactions
      /\ DOMAIN block.transactions = 1..Len(block.transactions)
      /\ Len(block.transactions) \in Nat
  BY CurrentIsFresh DEF ReducerInv, TypeOK, BlockOK, IsSeq
<1>3. TypeOK'
  <2>1. ChainStateOK(state')
    BY <1>1 DEF Sound
  <2>2. index' \in 0..Len(block'.transactions)
    BY <1>2
  <2>3. /\ ChainStateOK(before')
        /\ \A i \in DOMAIN journal' : ChainStateOK(journal'[i].before)
        /\ reducing' \in BOOLEAN
        /\ Len(undo') = Len(journal') + (IF reducing' THEN 1 ELSE 0)
    BY DEF ReducerInv, TypeOK
  <2> QED
    BY <2>1, <2>2, <2>3 DEF TypeOK
<1>4. Sound(before', IF reducing' THEN undo'[Len(undo')][2] ELSE mined')
  BY DEF ReducerInv, InTransactions
<1>5. StacksOK' /\ BlockOK'
  BY DEF ReducerInv, StacksOK, BlockOK
<1>6. PendingFresh'
  BY <1>2 DEF ReducerInv, PendingFresh, CurrentTx
<1>7. reducing'
  BY DEF InTransactions
<1> QED
  BY <1>1, <1>3, <1>4, <1>5, <1>6, <1>7 DEF ReducerInv

\* A transaction without effect on objects.
LEMMA SkipKeepsInv ==
    ASSUME ReducerInv, SkipTransaction \/ ProcessInit \/ ProcessIgnored \/ ProcessInvalid
    PROVE  ReducerInv'
<1>1. Sound(state, mined \cup {CurrentTx.txid})
  BY SoundGrows, Zenon DEF ReducerInv
<1>2. InTransactions /\ \E new : Processed(state, new)
  BY DEF SkipTransaction, ProcessInit, ProcessIgnored, ProcessInvalid, Process
<1> QED
  BY <1>1, <1>2, ProcessedKeepsInv

\* A noncanonical spend ends every object it touches.
LEMMA ExitKeepsInv ==
    ASSUME ReducerInv, ProcessExit
    PROVE  ReducerInv'
<1> DEFINE keys == SpentKeys(state, CurrentTx)
           st == terminate_object(state, keys, "ExitedNoncanonical", CurrentTx.txid)
<1>1. InTransactions /\ \E new : Processed(st, new)
  BY DEF ProcessExit, Process
<1>2. Sound(state, mined \cup {CurrentTx.txid})
  BY SoundGrows, ZenonT(30) DEF ReducerInv
<1>3. keys \in SUBSET DOMAIN state.objects /\ \A k \in keys : state.objects[k].status = "Active"
  BY <1>2, SpentAreActive
<1>4. Sound(st, mined \cup {CurrentTx.txid})
  BY <1>1, <1>2, <1>3, CurrentIsFresh, TerminateSound DEF TerminalStatus
<1> QED
  BY <1>1, <1>4, ProcessedKeepsInv

\* CREATE preserves the invariant.
LEMMA CreateKeepsInv ==
    ASSUME ReducerInv, ProcessCreate
    PROVE  ReducerInv'
<1> DEFINE tx == CurrentTx
           keys == checked(p2wpkh_key(tx.inputs[1]), p2wpkh_key(tx.inputs[2]))
           st == insert_object(state, NewObject(state, block.height, tx, keys))
<1>1. InTransactions /\ \E new : Processed(st, new)
  BY DEF ProcessCreate, Process
<1>2. Outcome(state, block.height, tx) = "Create"
  BY DEF ProcessCreate, Process
<1>3. ViewOK(tx) /\ tx.txid \in Txid /\ tx.txid \notin mined
  BY <1>1, CurrentIsFresh
<1>4. /\ DOMAIN tx.inputs = {1, 2}
      /\ keys # NoKeys
      /\ state.protocol_status.state = "Active"
      /\ ~(block.height < state.protocol_status.h_open)
  BY <1>2, <1>3, CreateIsValidated DEF ViewOK
<1>5. keys \in Nat \X Nat
  BY <1>3, <1>4, CheckedKeys DEF ViewOK
<1>6. block.height \in Nat /\ Sound(state, mined)
  BY DEF ReducerInv, BlockOK
<1>7. state.protocol_status.h_open \in Nat
  BY <1>4, <1>6, SoundTypes DEF ProtocolStatus, AwaitingInit
<1>8. Sound(st, mined \cup {tx.txid})
  BY <1>3, <1>4, <1>5, <1>6, <1>7, CreateSound
<1> QED
  BY <1>1, <1>8, ProcessedKeepsInv

\* The object that a valid transition advances.
LEMMA CurrentIsActive ==
    ASSUME ReducerInv, carrier_spends(state, CurrentTx) = {1}
    PROVE  /\ CurrentObject \in ObjectState
           /\ CurrentObject.object_key \in DOMAIN state.objects
           /\ state.objects[CurrentObject.object_key] = CurrentObject
           /\ CurrentObject.status = "Active"
           /\ CurrentObject.chapter_count <= CurrentObject.state_seq
           /\ state.protocol_status.state = "Active"
           /\ CurrentObject.create_height >= state.protocol_status.h_open
BY SpentAreActive, ZenonT(30) DEF ReducerInv, CurrentObject

\* MARK preserves the invariant.
LEMMA MarkKeepsInv ==
    ASSUME ReducerInv, ProcessMark
    PROVE  ReducerInv'
<1> DEFINE tx == CurrentTx
           obj == CurrentObject
           seq == marker_at(tx, 1).sequence
           st == move_carrier(state, Marked(obj, seq), tx.txid)
<1>1. InTransactions /\ \E new : Processed(st, new)
  BY DEF ProcessMark, Process
<1>2. Outcome(state, block.height, tx) = "Mark"
  BY DEF ProcessMark, Process
<1>3. ViewOK(tx) /\ tx.txid \in Txid /\ tx.txid \notin mined
  BY <1>1, CurrentIsFresh
<1>4. /\ carrier_spends(state, tx) = {1}
      /\ seq = obj.state_seq + 1
      /\ ~(obj.state_seq + 1 > U32_MAX)
  BY <1>2, <1>3, TransitionIsValidated DEF ViewOK, CurrentObject
<1>5. Sound(state, mined)
  BY DEF ReducerInv
<1>6. Sound(st, mined \cup {tx.txid})
  <2> HIDE DEF obj, seq, tx
  <2>1. /\ obj \in ObjectState
        /\ obj.object_key \in DOMAIN state.objects
        /\ state.objects[obj.object_key] = obj
        /\ obj.status = "Active"
        /\ obj.chapter_count <= obj.state_seq
        /\ state.protocol_status.state = "Active"
        /\ obj.create_height >= state.protocol_status.h_open
    BY <1>4, CurrentIsActive DEF obj, tx
  <2>2. /\ Marked(obj, seq) \in ObjectState
        /\ Marked(obj, seq).chapter_count <= Marked(obj, seq).state_seq
        /\ Marked(obj, seq).status = obj.status
        /\ Marked(obj, seq).object_key = obj.object_key
        /\ Marked(obj, seq).current_outpoint = obj.current_outpoint
        /\ Marked(obj, seq).create_height = obj.create_height
    BY <1>4, <2>1, MarkedObject
  <2> QED
    BY <1>3, <1>5, <2>1, <2>2, MoveSound
<1> QED
  BY <1>1, <1>6, ProcessedKeepsInv

\* ROTATE preserves the invariant.
LEMMA RotateKeepsInv ==
    ASSUME ReducerInv, ProcessRotate
    PROVE  ReducerInv'
<1> DEFINE tx == CurrentTx
           obj == CurrentObject
           seq == marker_at(tx, 1).sequence
           keys == checked(p2wpkh_key(tx.inputs[2]), p2wpkh_key(tx.inputs[3]))
           st == move_carrier(state, Rotated(obj, seq, keys), tx.txid)
<1>1. InTransactions /\ \E new : Processed(st, new)
  BY DEF ProcessRotate, Process
<1>2. Outcome(state, block.height, tx) = "Rotate"
  BY DEF ProcessRotate, Process
<1>3. ViewOK(tx) /\ tx.txid \in Txid /\ tx.txid \notin mined
  BY <1>1, CurrentIsFresh
<1>4. /\ carrier_spends(state, tx) = {1}
      /\ seq = obj.state_seq + 1
      /\ ~(obj.state_seq + 1 > U32_MAX)
  BY <1>2, <1>3, TransitionIsValidated DEF ViewOK, CurrentObject
<1>5. keys \in Nat \X Nat
  BY <1>2, <1>3, RotateIsValidated, CheckedKeys DEF ViewOK
<1>6. Sound(state, mined)
  BY DEF ReducerInv
<1>7. Sound(st, mined \cup {tx.txid})
  <2> HIDE DEF obj, seq, tx, keys
  <2>1. /\ obj \in ObjectState
        /\ obj.object_key \in DOMAIN state.objects
        /\ state.objects[obj.object_key] = obj
        /\ obj.status = "Active"
        /\ obj.chapter_count <= obj.state_seq
        /\ state.protocol_status.state = "Active"
        /\ obj.create_height >= state.protocol_status.h_open
    BY <1>4, CurrentIsActive DEF obj, tx
  <2>2. /\ Rotated(obj, seq, keys) \in ObjectState
        /\ Rotated(obj, seq, keys).chapter_count <= Rotated(obj, seq, keys).state_seq
        /\ Rotated(obj, seq, keys).status = obj.status
        /\ Rotated(obj, seq, keys).object_key = obj.object_key
        /\ Rotated(obj, seq, keys).current_outpoint = obj.current_outpoint
        /\ Rotated(obj, seq, keys).create_height = obj.create_height
    BY <1>4, <1>5, <2>1, RotatedObject
  <2> QED
    BY <1>3, <1>6, <2>1, <2>2, MoveSound
<1> QED
  BY <1>1, <1>7, ProcessedKeepsInv

\* CLOSE preserves the invariant.
LEMMA CloseKeepsInv ==
    ASSUME ReducerInv, ProcessClose
    PROVE  ReducerInv'
<1> DEFINE tx == CurrentTx
           obj == CurrentObject
           key == obj.object_key
           seq == marker_at(tx, 1).sequence
           st == terminate_object(state, {key}, "Closed", tx.txid)
<1>1. InTransactions /\ \E new : Processed(set_sequence(st, key, seq), new)
  BY DEF ProcessClose, Process
<1>2. Outcome(state, block.height, tx) = "Close"
  BY DEF ProcessClose, Process
<1>3. ViewOK(tx) /\ tx.txid \in Txid
  BY <1>1, CurrentIsFresh
<1>4. /\ carrier_spends(state, tx) = {1}
      /\ seq = obj.state_seq + 1
      /\ ~(obj.state_seq + 1 > U32_MAX)
  BY <1>2, <1>3, TransitionIsValidated DEF ViewOK, CurrentObject
<1>5. /\ obj \in ObjectState
      /\ key \in DOMAIN state.objects
      /\ state.objects[key] = obj
      /\ obj.status = "Active"
      /\ obj.chapter_count <= obj.state_seq
  BY <1>4, CurrentIsActive
<1>6. Sound(state, mined \cup {tx.txid})
  BY SoundGrows, Zenon DEF ReducerInv
<1> HIDE DEF tx, obj, seq
<1>7. Sound(st, mined \cup {tx.txid})
  BY <1>3, <1>5, <1>6, TerminateSound DEF TerminalStatus
<1>8. key \in DOMAIN st.objects /\ st.objects[key] = Ended(obj, "Closed", tx.txid)
  BY <1>5, <1>6 DEF terminate_object, Sound, ChainStateOK
<1>9. st.objects[key].chapter_count <= seq /\ seq \in 0..U32_MAX
  <2>1. obj.state_seq \in 0..U32_MAX /\ obj.chapter_count \in 0..U32_MAX
    BY <1>5 DEF ObjectState
  <2>2. st.objects[key].chapter_count = obj.chapter_count
    BY <1>3, <1>5, <1>8, EndedObject DEF TerminalStatus
  <2> QED
    BY <1>4, <1>5, <2>1, <2>2, ParameterAssumption
<1>10. Sound(set_sequence(st, key, seq), mined \cup {tx.txid})
  BY <1>7, <1>8, <1>9, SetSequenceSound, ZenonT(30)
<1> QED
  BY <1>1, <1>10, ProcessedKeepsInv DEF tx

\* REFUND preserves the invariant.
LEMMA RefundKeepsInv ==
    ASSUME ReducerInv, ProcessRefund
    PROVE  ReducerInv'
<1> DEFINE tx == CurrentTx
           key == CurrentObject.object_key
           st == terminate_object(state, {key}, "Refunded", tx.txid)
<1>1. InTransactions /\ \E new : Processed(st, new)
  BY DEF ProcessRefund, Process
<1>2. ViewOK(tx) /\ tx.txid \in Txid
  BY <1>1, CurrentIsFresh
<1>3. carrier_spends(state, tx) = {1}
  BY <1>2, RefundIsValidated DEF ProcessRefund, Process, ViewOK
<1>4. key \in DOMAIN state.objects /\ state.objects[key].status = "Active"
  BY <1>3, CurrentIsActive
<1>5. Sound(state, mined \cup {tx.txid})
  BY SoundGrows, Zenon DEF ReducerInv
<1> HIDE DEF tx
<1>6. Sound(st, mined \cup {tx.txid})
  BY <1>2, <1>4, <1>5, TerminateSound DEF TerminalStatus
<1> QED
  BY <1>1, <1>6, ProcessedKeepsInv DEF tx

\* A function on 1..n is a sequence, and so is what Append and SubSeq return.
LEMMA SequencesAreSeq ==
    /\ \A s : IsSeq(s) => /\ Len(s) \in Nat
                          /\ DOMAIN s = 1..Len(s)
    /\ \A s : \A n \in Nat : s \in [1..n -> {s[i] : i \in 1..n}] => IsSeq(s) /\ Len(s) = n
    /\ \A s, e : IsSeq(s) =>
            /\ IsSeq(Append(s, e))
            /\ Len(Append(s, e)) = Len(s) + 1
            /\ \A i \in 1..Len(s) : Append(s, e)[i] = s[i]
            /\ Append(s, e)[Len(s) + 1] = e
    /\ \A s : IsSeq(s) /\ Len(s) > 0 =>
            /\ IsSeq(SubSeq(s, 1, Len(s) - 1))
            /\ Len(SubSeq(s, 1, Len(s) - 1)) = Len(s) - 1
            /\ \A i \in 1..(Len(s) - 1) : SubSeq(s, 1, Len(s) - 1)[i] = s[i]
<1>1. ASSUME NEW T, NEW s \in Seq(T) PROVE IsSeq(s)
  <2>1. Len(s) \in Nat /\ DOMAIN s = 1..Len(s) /\ s \in [1..Len(s) -> T]
    BY <1>1
  <2> DEFINE R == {s[i] : i \in DOMAIN s}
  <2>2. s \in [1..Len(s) -> R]
    BY <2>1
  <2> HIDE DEF R
  <2>3. s \in Seq(R)
    BY ONLY <2>1, <2>2
  <2> QED
    BY <2>3, ZenonT(30) DEF IsSeq, R
<1>2. ASSUME NEW s, IsSeq(s) PROVE Len(s) \in Nat /\ DOMAIN s = 1..Len(s)
  BY <1>2 DEF IsSeq
<1>3. ASSUME NEW s, NEW n \in Nat, s \in [1..n -> {s[i] : i \in 1..n}]
      PROVE  IsSeq(s) /\ Len(s) = n
  <2>1. s \in Seq({s[i] : i \in 1..n})
    BY <1>3
  <2> QED
    BY <1>1, <1>3, <2>1
<1>4. ASSUME NEW s, NEW e, IsSeq(s)
      PROVE  /\ IsSeq(Append(s, e))
             /\ Len(Append(s, e)) = Len(s) + 1
             /\ \A i \in 1..Len(s) : Append(s, e)[i] = s[i]
             /\ Append(s, e)[Len(s) + 1] = e
  <2> DEFINE T == {s[i] : i \in DOMAIN s} \cup {e}
  <2>1. s \in Seq(T)
    <3>1. s \in [1..Len(s) -> T] /\ Len(s) \in Nat
      BY <1>4 DEF IsSeq
    <3> QED
      BY <3>1
  <2>2. e \in T
    OBVIOUS
  <2> HIDE DEF T
  <2>3. /\ Append(s, e) \in Seq(T)
        /\ Len(Append(s, e)) = Len(s) + 1
        /\ \A i \in 1..Len(s) : Append(s, e)[i] = s[i]
        /\ Append(s, e)[Len(s) + 1] = e
    BY <2>1, <2>2
  <2>4. IsSeq(Append(s, e))
    BY <1>1, <2>3, Zenon
  <2> QED
    BY <2>3, <2>4
<1>5. ASSUME NEW s, IsSeq(s), Len(s) > 0
      PROVE  /\ IsSeq(SubSeq(s, 1, Len(s) - 1))
             /\ Len(SubSeq(s, 1, Len(s) - 1)) = Len(s) - 1
             /\ \A i \in 1..(Len(s) - 1) : SubSeq(s, 1, Len(s) - 1)[i] = s[i]
  <2> DEFINE T == {s[i] : i \in DOMAIN s}
             n == Len(s) - 1
  <2>1. s \in Seq(T)
    BY <1>5 DEF IsSeq
  <2> HIDE DEF T
  <2>2. n \in Nat /\ 1 \in 1..(Len(s) + 1) /\ n \in 0..Len(s) /\ Len(s) \in Nat
    BY <1>5, <2>1
  <2>3. n \in Int /\ 1 \in Int /\ \A i \in 1..n : s[i] \in T
    BY <2>1, <2>2
  <2> HIDE DEF n
  <2>4. /\ SubSeq(s, 1, n) \in Seq(T)
        /\ Len(SubSeq(s, 1, n)) = IF 1 <= n THEN n - 1 + 1 ELSE 0
        /\ \A i \in 1..(n - 1 + 1) : SubSeq(s, 1, n)[i] = s[1 + i - 1]
    BY <2>1, <2>2, <2>3
  <2>5. Len(SubSeq(s, 1, n)) = n /\ \A i \in 1..n : SubSeq(s, 1, n)[i] = s[i]
    BY <2>2, <2>4
  <2>6. IsSeq(SubSeq(s, 1, n))
    BY <1>1, <2>4, Zenon
  <2> QED
    BY <2>5, <2>6 DEF n
<1> QED
  BY <1>2, <1>3, <1>4, <1>5

\* Resolving the prevout of an input keeps its witness.
LEMMA ResolvedWitness ==
    ASSUME NEW txs, NEW height, NEW in
    PROVE  resolve_input(txs, height, in).witness = in.witness
BY DEF resolve_input

\* The view of a minable block is well formed.
LEMMA BlockViewOK ==
    ASSUME NEW txs \in BlockTxs, NEW height \in Nat, NEW previous
    PROVE  LET view == BlockView(height, previous, txs).transactions
           IN  /\ IsSeq(view)
               /\ DOMAIN view = DOMAIN txs
               /\ \A i \in DOMAIN txs : ViewOK(view[i]) /\ view[i].txid = txs[i].txid
<1> DEFINE view == BlockView(height, previous, txs).transactions
<1>1. PICK n \in Nat : txs \in [1..n -> Transaction]
  BY DEF BlockTxs
<1>2. view = [i \in DOMAIN txs |-> resolve_transaction(txs, height, txs[i])]
  BY DEF BlockView
<1>3. DOMAIN txs = 1..n /\ DOMAIN view = 1..n
  BY <1>1, <1>2
<1>4. IsSeq(view)
  <2>1. view = [i \in 1..n |-> view[i]]
    BY <1>2, <1>3
  <2> HIDE DEF view
  <2>2. view \in [1..n -> {view[i] : i \in 1..n}]
    BY <2>1
  <2> QED
    BY <2>2, SequencesAreSeq
<1>5. ASSUME NEW i \in DOMAIN txs
      PROVE  ViewOK(view[i]) /\ view[i].txid = txs[i].txid
  <2> DEFINE tx == txs[i]
             v == resolve_transaction(txs, height, tx)
  <2>1. tx \in RawTransaction /\ view[i] = v
    BY <1>1, <1>2, BitcoinAssumption
  <2> HIDE DEF tx
  <2>2. /\ v.txid = tx.txid /\ v.outputs = tx.outputs
        /\ v.inputs = [a \in DOMAIN tx.inputs |-> resolve_input(txs, height, tx.inputs[a])]
    BY DEF resolve_transaction
  <2>3. /\ tx.txid \in Nat /\ tx.outputs \in Seq(RawOutput) /\ tx.inputs \in Seq(RawInput)
    BY <2>1 DEF RawTransaction
  <2>4. Len(tx.inputs) \in Nat /\ DOMAIN tx.inputs = 1..Len(tx.inputs)
    BY <2>3
  <2>5. IsSeq(v.inputs)
    <3> DEFINE w == v.inputs
               m == Len(tx.inputs)
    <3>1. w = [a \in 1..m |-> w[a]]
      BY <2>2, <2>4
    <3> HIDE DEF w
    <3>2. w \in [1..m -> {w[a] : a \in 1..m}]
      BY <3>1
    <3>3. IsSeq(w)
      BY <2>4, <3>2, SequencesAreSeq, Zenon
    <3> QED
      BY <3>3 DEF w
  <2>6. ASSUME NEW a \in DOMAIN v.inputs
        PROVE  v.inputs[a].witness \in Witness
    <3>1. a \in DOMAIN tx.inputs /\ v.inputs[a] = resolve_input(txs, height, tx.inputs[a])
      BY <2>2
    <3>2. v.inputs[a].witness = tx.inputs[a].witness
      BY <3>1, ResolvedWitness
    <3>3. tx.inputs[a] \in RawInput
      BY <2>3, <3>1
    <3> QED
      BY <3>2, <3>3 DEF RawInput
  <2> HIDE DEF v
  <2> QED
    BY <2>1, <2>2, <2>3, <2>5, <2>6, Zenon DEF ViewOK, Txid, tx
<1> QED
  BY <1>3, <1>4, <1>5

\* Starting a block from a sound state preserves the invariant.
LEMMA StartKeepsInv ==
    ASSUME ReducerInv, ~reducing, NEW height \in 1..MaxHeight, NEW previous,
           NEW txs \in BlockTxs, Minable(txs), StartBlock(height, previous, txs),
           Sound(state', mined)
    PROVE  ReducerInv'
<1> USE DEF StartBlock
<1> DEFINE view == BlockView(height, previous, txs).transactions
<1>1. /\ index = 0 /\ block'.transactions = view /\ block'.height = height
      /\ height \in Nat
  <2>1. index = 0
    BY DEF ReducerInv
  <2>2. block'.transactions = view /\ block'.height = height
    BY DEF BlockView
  <2>3. height \in Nat
    BY BitcoinAssumption
  <2> QED
    BY <2>1, <2>2, <2>3
<1>2. /\ IsSeq(view)
      /\ DOMAIN view = DOMAIN txs
      /\ \A i \in DOMAIN txs : ViewOK(view[i]) /\ view[i].txid = txs[i].txid
  BY <1>1, BlockViewOK
<1> HIDE DEF view
<1>3. BlockOK'
  BY <1>1, <1>2 DEF BlockOK
<1>4. PendingFresh'
  BY <1>1, <1>2 DEF PendingFresh, Minable
<1>5. /\ IsSeq(undo) /\ IsSeq(journal) /\ Len(undo) = Len(journal)
      /\ Len(undo) \in Nat /\ DOMAIN journal = 1..Len(journal)
  BY SequencesAreSeq DEF ReducerInv, StacksOK, TypeOK
<1>6. /\ IsSeq(undo')
      /\ Len(undo') = Len(undo) + 1
      /\ \A i \in 1..Len(undo) : undo'[i] = undo[i]
      /\ undo'[Len(undo) + 1] = <<coins, mined>>
  BY <1>5, SequencesAreSeq
<1>7. StacksOK'
  BY <1>5, <1>6 DEF ReducerInv, StacksOK
<1>8. Sound(before', IF reducing' THEN undo'[Len(undo')][2] ELSE mined')
  <2>1. undo'[Len(undo')][2] = mined
    BY <1>6
  <2> QED
    BY <2>1 DEF ReducerInv
<1>9. TypeOK'
  <2>1. Len(block'.transactions) \in Nat
    BY <1>1, <1>2, SequencesAreSeq
  <2>2. ChainStateOK(state') /\ ChainStateOK(before')
    BY DEF Sound, ReducerInv
  <2>3. \A i \in DOMAIN journal : ChainStateOK(journal[i].before)
    BY DEF ReducerInv, TypeOK
  <2>4. journal' = journal /\ reducing' /\ reducing' \in BOOLEAN /\ index' = 0
    BY <1>1
  <2>5. index' \in 0..Len(block'.transactions)
    BY <2>1, <2>4
  <2>6. Len(undo') = Len(journal') + 1
    BY <1>5, <1>6, <2>4
  <2> QED
    BY <2>2, <2>3, <2>4, <2>5, <2>6 DEF TypeOK
<1> QED
  BY <1>3, <1>4, <1>7, <1>8, <1>9 DEF ReducerInv

\* Soundness of the maps depends on nothing but the maps.
LEMMA SameMaps ==
    ASSUME NEW st, NEW new, NEW ids, Sound(st, ids),
           new.objects = st.objects, new.active = st.active
    PROVE  IndexCoherent(new) /\ KnownTo(new, ids) /\ ChaptersBounded(new)
<1>1. IndexCoherent(st) /\ KnownTo(st, ids) /\ ChaptersBounded(st)
  BY DEF Sound
<1>2. IndexCoherent(new) <=> IndexCoherent(st)
  BY DEF IndexCoherent
<1>3. KnownTo(new, ids) <=> KnownTo(st, ids)
  BY DEF KnownTo
<1>4. ChaptersBounded(new) <=> ChaptersBounded(st)
  BY DEF ChaptersBounded
<1> QED
  BY <1>1, <1>2, <1>3, <1>4

\* INIT decides the protocol status of a state that has no objects yet.
LEMMA StatusSound ==
    ASSUME NEW st, NEW ids, Sound(st, ids), st.protocol_status = AwaitingInit,
           NEW status \in ProtocolStatus
    PROVE  Sound([st EXCEPT !.protocol_status = status], ids)
<1> DEFINE new == [st EXCEPT !.protocol_status = status]
<1>1. DOMAIN st.objects = {}
  BY DEF Sound, CreatedAfterOpen, AwaitingInit
<1>2. /\ new.objects = st.objects /\ new.active = st.active
      /\ new \in [protocol_status : {status}, tip_height : {st.tip_height},
                  tip_hash : {new.tip_hash}, chained_root : {new.chained_root},
                  objects : {st.objects}, active : {st.active}]
  BY DEF Sound, ChainStateOK
<1> HIDE DEF new
<1>3. ChainStateOK(new)
  BY <1>2, SoundTypes DEF ChainStateOK
<1>4. IndexCoherent(new) /\ KnownTo(new, ids)
  BY <1>2, SameMaps
<1>5. ChaptersBounded(new) /\ CreatedAfterOpen(new)
  BY <1>1, <1>2 DEF ChaptersBounded, CreatedAfterOpen
<1> QED
  BY <1>3, <1>4, <1>5 DEF Sound, new

\* The heights of a marker are numbers.
LEMMA MarkerHeights ==
    ASSUME NEW tx, tx.outputs \in Seq(RawOutput), NEW i \in marker_candidates(tx)
    PROVE  marker_at(tx, i).h_open \in Nat /\ marker_at(tx, i).h_close \in Nat
<1> DEFINE s == tx.outputs[i].script_pubkey
<1>1. s \in Script /\ s[1] = "marker"
  <2>1. i \in DOMAIN tx.outputs /\ s[1] = "marker"
    BY DEF marker_candidates
  <2>2. tx.outputs[i] \in RawOutput
    BY <2>1
  <2> QED
    BY <2>1, <2>2 DEF RawOutput
<1> HIDE DEF s
<1>2. s[2] \in Marker
  BY <1>1 DEF Script
<1> QED
  BY <1>2 DEF marker_at, Marker, s

\* The configured INIT is judged with a reason.
LEMMA InitReasons ==
    ASSUME NEW height, NEW tx
    PROVE  /\ validate_configured_init(height, tx) \in FailureReason \cup {"Valid"}
           /\ validate_configured_init(height, tx) = "Valid" => marker_candidates(tx) # {}
BY Zenon DEF validate_configured_init, FailureReason

\* The first step of apply_block preserves the invariant.
LEMMA BeginKeepsInv ==
    ASSUME ReducerInv, NEW height \in 1..MaxHeight, NEW previous,
           \/ BeginInitBlock(height, previous)
           \/ BeginFailedInitBlock(height, previous)
           \/ BeginBlock(height, previous)
    PROVE  ReducerInv'
<1>1. Sound(state, mined) /\ height \in Nat
  BY BitcoinAssumption DEF ReducerInv
<1>2. CASE BeginInitBlock(height, previous)
  <2>1. PICK txs \in BlockTxs : \E i \in DOMAIN txs :
            LET tx == resolve_transaction(txs, height, txs[i])
                m  == marker_at(tx, CHOOSE x \in marker_candidates(tx) : TRUE)
            IN  /\ validate_configured_init(height, tx) = "Valid"
                /\ state' = [state EXCEPT !.protocol_status =
                                ActiveProtocol(height, m.h_open, m.h_close)]
                /\ Minable(txs)
                /\ StartBlock(height, previous, txs)
    BY <1>2, Zenon DEF BeginInitBlock
  <2>2. PICK i \in DOMAIN txs :
            LET tx == resolve_transaction(txs, height, txs[i])
                m  == marker_at(tx, CHOOSE x \in marker_candidates(tx) : TRUE)
            IN  /\ validate_configured_init(height, tx) = "Valid"
                /\ state' = [state EXCEPT !.protocol_status =
                                ActiveProtocol(height, m.h_open, m.h_close)]
    BY <2>1, Zenon
  <2> DEFINE tx == resolve_transaction(txs, height, txs[i])
             m  == marker_at(tx, CHOOSE x \in marker_candidates(tx) : TRUE)
  <2>3. tx.outputs \in Seq(RawOutput)
    <3>1. txs[i] \in RawTransaction
      BY BitcoinAssumption DEF BlockTxs
    <3> QED
      BY <3>1 DEF resolve_transaction, RawTransaction
  <2>4. m.h_open \in Nat /\ m.h_close \in Nat
    BY <2>2, <2>3, InitReasons, MarkerHeights
  <2>5. ActiveProtocol(height, m.h_open, m.h_close) \in ProtocolStatus
    BY <1>1, <2>4 DEF ActiveProtocol, ProtocolStatus
  <2>6. state.protocol_status = AwaitingInit /\ ~reducing
    BY <1>2 DEF BeginInitBlock
  <2>7. Sound(state', mined)
    BY <1>1, <2>2, <2>5, <2>6, StatusSound
  <2> QED
    BY <2>1, <2>6, <2>7, StartKeepsInv
<1>3. CASE BeginFailedInitBlock(height, previous)
  <2>1. PICK txs \in BlockTxs : \E i \in DOMAIN txs :
            LET tx == resolve_transaction(txs, height, txs[i])
                reason == validate_configured_init(height, tx)
            IN  /\ reason # "Valid"
                /\ state' = [state EXCEPT !.protocol_status = FailedInit(reason, height)]
                /\ Minable(txs)
                /\ StartBlock(height, previous, txs)
    BY <1>3, Zenon DEF BeginFailedInitBlock
  <2>2. PICK reason \in FailureReason :
            state' = [state EXCEPT !.protocol_status = FailedInit(reason, height)]
    BY <2>1, InitReasons
  <2>3. FailedInit(reason, height) \in ProtocolStatus
    BY <1>1 DEF FailedInit, ProtocolStatus
  <2>4. state.protocol_status = AwaitingInit /\ ~reducing
    BY <1>3, Zenon DEF BeginFailedInitBlock
  <2>5. Sound(state', mined)
    BY <1>1, <2>2, <2>3, <2>4, StatusSound
  <2> QED
    BY <2>1, <2>4, <2>5, StartKeepsInv
<1>4. CASE BeginBlock(height, previous)
  <2>1. ~reducing /\ state' = state
    BY <1>4 DEF BeginBlock
  <2>2. \E txs \in BlockTxs : Minable(txs) /\ StartBlock(height, previous, txs)
    BY <1>4 DEF BeginBlock
  <2> QED
    BY <1>1, <2>1, <2>2, StartKeepsInv
<1> QED
  BY <1>2, <1>3, <1>4

\* Moving the tip keeps a state sound.
LEMMA TipSound ==
    ASSUME NEW st, NEW ids, Sound(st, ids), NEW height \in Nat, NEW hash, NEW root
    PROVE  Sound([st EXCEPT !.tip_height = height, !.tip_hash = hash, !.chained_root = root], ids)
<1> DEFINE new == [st EXCEPT !.tip_height = height, !.tip_hash = hash, !.chained_root = root]
<1>1. /\ new.objects = st.objects /\ new.active = st.active
      /\ new.protocol_status = st.protocol_status
      /\ new \in [protocol_status : {st.protocol_status}, tip_height : {height},
                  tip_hash : {new.tip_hash}, chained_root : {new.chained_root},
                  objects : {st.objects}, active : {st.active}]
  BY Zenon DEF Sound, ChainStateOK
<1> HIDE DEF new
<1>2. ChainStateOK(new)
  BY <1>1, SoundTypes DEF ChainStateOK
<1>3. IndexCoherent(new) /\ KnownTo(new, ids) /\ ChaptersBounded(new)
  BY <1>1, SameMaps
<1>4. CreatedAfterOpen(st)
  BY DEF Sound
<1>5. CreatedAfterOpen(new)
  BY <1>1, <1>4 DEF CreatedAfterOpen
<1> QED
  BY <1>2, <1>3, <1>5 DEF Sound, new

\* The last step of apply_block preserves the invariant.
LEMMA FinishKeepsInv ==
    ASSUME ReducerInv, FinishBlock
    PROVE  ReducerInv'
<1> DEFINE root == block_root(state.chained_root, block.hash, block.height, events,
                              state.objects, counters(state))
           st == [state EXCEPT !.tip_height = block.height, !.tip_hash = block.hash,
                               !.chained_root = root]
           delta == [before |-> before, block_hash |-> block.hash,
                     previous_hash |-> block.previous_hash, height |-> block.height,
                     events |-> events, chained_root |-> root]
<1>1. /\ reducing /\ reducing' = FALSE /\ state' = st /\ before' = st /\ mined' = mined
      /\ undo' = undo /\ journal' = Append(journal, delta) /\ block' = NoBlock /\ index' = 0
  BY DEF FinishBlock
<1>2. Sound(st, mined)
  BY TipSound, ZenonT(30) DEF ReducerInv, BlockOK
<1> HIDE DEF st
<1>3. /\ IsSeq(journal) /\ IsSeq(undo) /\ Len(undo) = Len(journal) + 1
      /\ Len(journal) \in Nat /\ DOMAIN journal = 1..Len(journal)
  BY <1>1, SequencesAreSeq DEF ReducerInv, StacksOK, TypeOK
<1>4. delta.before = before
  OBVIOUS
<1> HIDE DEF delta
<1>5. /\ IsSeq(journal')
      /\ Len(journal') = Len(journal) + 1
      /\ DOMAIN journal' = 1..Len(journal')
      /\ \A i \in 1..Len(journal) : journal'[i] = journal[i]
      /\ journal'[Len(journal) + 1] = delta
  BY <1>1, <1>3, SequencesAreSeq
<1>6. Sound(before, undo[Len(undo)][2])
  BY <1>1 DEF ReducerInv
<1>7. StacksOK'
  <2>1. ASSUME NEW i \in DOMAIN journal'
        PROVE  Sound(journal'[i].before, undo[i][2])
    <3>1. CASE i \in 1..Len(journal)
      BY <1>3, <1>5, <3>1 DEF ReducerInv, StacksOK
    <3>2. CASE i = Len(journal) + 1
      BY <1>3, <1>4, <1>5, <1>6, <3>2
    <3> QED
      BY <1>3, <1>5, <3>1, <3>2
  <2> QED
    BY <1>1, <1>3, <1>5, <2>1 DEF StacksOK
<1>8. BlockOK' /\ PendingFresh' /\ Len(block'.transactions) = 0
  BY <1>1 DEF BlockOK, PendingFresh, NoBlock, IsSeq
<1>9. TypeOK'
  <2>1. \A i \in DOMAIN journal' : ChainStateOK(journal'[i].before)
    BY <1>7 DEF StacksOK, Sound
  <2>2. ChainStateOK(state') /\ ChainStateOK(before')
    BY <1>1, <1>2 DEF Sound
  <2>3. index' \in 0..Len(block'.transactions)
    BY <1>1, <1>8
  <2>4. reducing' \in BOOLEAN /\ ~reducing'
    BY <1>1, Zenon
  <2>5. Len(undo') = Len(journal') + 0
    BY <1>1, <1>3, <1>5
  <2> QED
    BY <2>1, <2>2, <2>3, <2>4, <2>5 DEF TypeOK
<1> QED
  BY <1>1, <1>2, <1>7, <1>8, <1>9 DEF ReducerInv

\* disconnect_block restores a sound state.
LEMMA DisconnectKeepsInv ==
    ASSUME ReducerInv, DisconnectBlock
    PROVE  ReducerInv'
<1>1. /\ IsSeq(journal) /\ IsSeq(undo) /\ Len(undo) = Len(journal)
      /\ Len(journal) \in Nat /\ DOMAIN journal = 1..Len(journal) /\ Len(journal) > 0
  <2>1. ~reducing /\ journal # <<>>
    BY DEF DisconnectBlock
  <2>2. /\ IsSeq(journal) /\ IsSeq(undo) /\ Len(undo) = Len(journal)
        /\ Len(journal) \in Nat /\ DOMAIN journal = 1..Len(journal)
    BY <2>1, SequencesAreSeq DEF ReducerInv, StacksOK, TypeOK
  <2>3. Len(journal) # 0
    BY <2>1, <2>2 DEF IsSeq
  <2> QED
    BY <2>2, <2>3
<1> DEFINE n == Len(journal)
<1>2. /\ ~reducing /\ reducing' = reducing /\ state' = journal[n].before /\ before' = journal[n].before
      /\ mined' = undo[n][2] /\ journal' = SubSeq(journal, 1, Len(journal) - 1)
      /\ undo' = SubSeq(undo, 1, Len(undo) - 1) /\ block' = block /\ index' = index
  BY <1>1 DEF DisconnectBlock
<1>3. Sound(state', mined')
  BY <1>1, <1>2 DEF ReducerInv, StacksOK
<1>4. /\ IsSeq(journal') /\ IsSeq(undo') /\ Len(journal') = n - 1 /\ Len(undo') = n - 1
      /\ DOMAIN journal' = 1..(n - 1)
      /\ \A i \in 1..(n - 1) : journal'[i] = journal[i] /\ undo'[i] = undo[i]
  BY <1>1, <1>2, SequencesAreSeq
<1>5. StacksOK'
  <2>1. \A i \in 1..n : Sound(journal[i].before, undo[i][2])
    BY <1>1 DEF ReducerInv, StacksOK
  <2>2. \A i \in 1..(n - 1) : i \in 1..n
    BY <1>1
  <2>3. \A i \in 1..(n - 1) : Sound(journal'[i].before, undo'[i][2])
    BY <1>4, <2>1, <2>2
  <2> QED
    BY <1>4, <2>3 DEF StacksOK
<1>6. block = NoBlock /\ index = 0 /\ BlockOK'
  BY <1>2 DEF ReducerInv, BlockOK
<1>7. PendingFresh'
  BY <1>2, <1>6 DEF PendingFresh, NoBlock
<1>8. TypeOK'
  <2>1. \A i \in DOMAIN journal' : ChainStateOK(journal'[i].before)
    BY <1>5 DEF StacksOK, Sound
  <2>2. ChainStateOK(state') /\ ChainStateOK(before')
    BY <1>2, <1>3 DEF Sound
  <2>3. index' \in 0..Len(block'.transactions) /\ reducing' \in BOOLEAN /\ ~reducing'
    BY <1>2 DEF ReducerInv, TypeOK
  <2> QED
    BY <1>1, <1>4, <2>1, <2>2, <2>3 DEF TypeOK
<1> QED
  BY <1>2, <1>3, <1>5, <1>6, <1>7, <1>8 DEF ReducerInv

\* The invariant holds of an empty chain state.
LEMMA InitInv ==
    Init => ReducerInv
<1> SUFFICES ASSUME Init PROVE ReducerInv
  OBVIOUS
<1>1. /\ DOMAIN EmptyMap = {} /\ EmptyMap \in [{} -> ObjectState] /\ EmptyMap \in [{} -> Txid]
  BY DEF EmptyMap
<1>2. /\ NewChainState.objects = EmptyMap /\ NewChainState.active = EmptyMap
      /\ NewChainState.protocol_status = AwaitingInit /\ NewChainState.tip_height = NoHeight
  BY DEF NewChainState
<1>3. ChainStateOK(NewChainState)
  BY <1>1, <1>2 DEF ChainStateOK, NewChainState, ProtocolStatus
<1>4. Sound(NewChainState, mined)
  BY <1>1, <1>2, <1>3 DEF Sound, IndexCoherent, ChaptersBounded, CreatedAfterOpen, KnownTo
<1>5. state = NewChainState /\ before = NewChainState /\ ~reducing /\ index = 0
      /\ block = NoBlock /\ journal = <<>> /\ undo = <<>> /\ reducing \in BOOLEAN
  BY ZenonT(30) DEF Init
<1>6. StacksOK /\ BlockOK /\ PendingFresh /\ Len(block.transactions) = 0
  BY <1>5 DEF StacksOK, BlockOK, PendingFresh, NoBlock, IsSeq
<1>7. TypeOK
  BY <1>3, <1>5, <1>6 DEF TypeOK
<1> QED
  BY <1>4, <1>5, <1>6, <1>7 DEF ReducerInv

\* Every step of the reducer preserves the invariant.
LEMMA NextKeepsInv ==
    ReducerInv /\ [Next]_vars => ReducerInv'
<1> SUFFICES ASSUME ReducerInv, [Next]_vars PROVE ReducerInv'
  OBVIOUS
<1>1. ASSUME NEW height \in 1..MaxHeight, NEW previous \in {state.tip_hash, <<>>},
             \/ BeginInitBlock(height, previous)
             \/ BeginFailedInitBlock(height, previous)
             \/ BeginBlock(height, previous)
      PROVE  ReducerInv'
  BY <1>1, BeginKeepsInv
<1>2. CASE SkipTransaction \/ ProcessInit \/ ProcessIgnored \/ ProcessInvalid
  BY <1>2, SkipKeepsInv
<1>3. CASE ProcessExit
  BY <1>3, ExitKeepsInv
<1>4. CASE ProcessCreate
  BY <1>4, CreateKeepsInv
<1>5. CASE ProcessMark
  BY <1>5, MarkKeepsInv
<1>6. CASE ProcessRotate
  BY <1>6, RotateKeepsInv
<1>7. CASE ProcessClose
  BY <1>7, CloseKeepsInv
<1>8. CASE ProcessRefund
  BY <1>8, RefundKeepsInv
<1>9. CASE FinishBlock
  BY <1>9, FinishKeepsInv
<1>10. CASE DisconnectBlock
  BY <1>10, DisconnectKeepsInv
<1>11. CASE UNCHANGED vars
  BY <1>11, Zenon DEF vars, ReducerInv, TypeOK, StacksOK, BlockOK, PendingFresh
<1> QED
  BY <1>1, <1>2, <1>3, <1>4, <1>5, <1>6, <1>7, <1>8, <1>9, <1>10, <1>11 DEF Next

-----------------------------------------------------------------------------
(* Theorems. *)

\* The inductive invariant of apply_block and disconnect_block, for every set of
\* transactions, any number of blocks and any sequence of rollbacks.
THEOREM ReducerInvariant ==
    Spec => []ReducerInv
BY InitInv, NextKeepsInv, PTL DEF Spec

\* Chain states keep their machine types: state_seq and chapter_count fit a u32.
THEOREM TypeCorrectness ==
    Spec => []TypeOK
BY ReducerInvariant, PTL DEF ReducerInv

\* The carrier index and the object map agree after every transaction and rollback.
THEOREM IndexCorrectness ==
    Spec => []ActiveIndexCoherent
<1>1. ReducerInv => ActiveIndexCoherent
  BY DEF ReducerInv, Sound, ActiveIndexCoherent
<1> QED
  BY <1>1, ReducerInvariant, PTL

\* The expect in apply_valid_operation's chapter increment never fires.
THEOREM ChapterCorrectness ==
    Spec => []ChapterCountBounded
<1>1. ReducerInv => ChapterCountBounded
  BY DEF ReducerInv, Sound, ChapterCountBounded
<1> QED
  BY <1>1, ReducerInvariant, PTL

\* No object is created outside an active deployment or before h_open.
THEOREM PhaseCorrectness ==
    Spec => []ObjectsOnlyAfterOpen
<1>1. ReducerInv => ObjectsOnlyAfterOpen
  BY DEF ReducerInv, Sound, ObjectsOnlyAfterOpen
<1> QED
  BY <1>1, ReducerInvariant, PTL

-----------------------------------------------------------------------------
(* The journal. *)

\* Every action between the start and the end of apply_block processes one
\* transaction and leaves journal, block and clone alone.
LEMMA ProcessingSteps ==
    ASSUME \/ SkipTransaction \/ ProcessInit \/ ProcessIgnored \/ ProcessInvalid
           \/ ProcessExit \/ ProcessCreate \/ ProcessMark \/ ProcessRotate
           \/ ProcessClose \/ ProcessRefund
    PROVE  /\ reducing /\ reducing' = reducing
           /\ UNCHANGED <<journal, block, before>>
<1>1. InTransactions /\ \E st, new : Processed(st, new)
  <2>1. CASE SkipTransaction \/ ProcessInit
    BY <2>1, ZenonT(30) DEF SkipTransaction, ProcessInit
  <2>2. CASE ProcessIgnored \/ ProcessInvalid \/ ProcessExit
    BY <2>2, ZenonT(30) DEF ProcessIgnored, ProcessInvalid, ProcessExit, Process
  <2>3. CASE ProcessCreate
    BY <2>3, ZenonT(30) DEF ProcessCreate, Process
  <2>4. CASE ProcessMark
    BY <2>4, ZenonT(30) DEF ProcessMark, Process
  <2>5. CASE ProcessRotate
    BY <2>5, ZenonT(30) DEF ProcessRotate, Process
  <2>6. CASE ProcessClose
    BY <2>6, ZenonT(30) DEF ProcessClose, Process
  <2>7. CASE ProcessRefund
    BY <2>7, ZenonT(30) DEF ProcessRefund, Process
  <2> QED
    BY <2>1, <2>2, <2>3, <2>4, <2>5, <2>6, <2>7
<1> QED
  BY <1>1 DEF InTransactions, Processed

\* What the three ways to start a block have in common.
LEMMA BeginningSteps ==
    ASSUME NEW height, NEW previous,
           \/ BeginInitBlock(height, previous)
           \/ BeginFailedInitBlock(height, previous)
           \/ BeginBlock(height, previous)
    PROVE  /\ ~reducing /\ reducing' /\ journal' = journal /\ before' = state
           /\ block'.height = height /\ block'.previous_hash = previous
           /\ validate_linkage(height, previous)
<1>1. /\ ~reducing /\ validate_linkage(height, previous)
      /\ \E txs : StartBlock(height, previous, txs)
  BY Zenon DEF BeginInitBlock, BeginFailedInitBlock, BeginBlock
<1> QED
  BY <1>1 DEF StartBlock, BlockView

\* The journal after apply_block, with the fields of its new entry.
LEMMA FinishedJournal ==
    ASSUME ReducerInv, FinishBlock
    PROVE  LET n == Len(journal)
           IN  /\ n \in Nat /\ DOMAIN journal = 1..n
               /\ IsSeq(journal') /\ Len(journal') = n + 1 /\ DOMAIN journal' = 1..(n + 1)
               /\ \A i \in 1..n : journal'[i] = journal[i]
               /\ journal'[n + 1].before = before
               /\ journal'[n + 1].block_hash = block.hash
               /\ journal'[n + 1].previous_hash = block.previous_hash
               /\ journal'[n + 1].height = block.height
               /\ journal'[n + 1].chained_root = before'.chained_root
               /\ before'.tip_hash = block.hash
               /\ before'.tip_height = block.height
               /\ state' = before' /\ reducing /\ ~reducing'
<1> DEFINE root == block_root(state.chained_root, block.hash, block.height, events,
                              state.objects, counters(state))
           delta == [before |-> before, block_hash |-> block.hash,
                     previous_hash |-> block.previous_hash, height |-> block.height,
                     events |-> events, chained_root |-> root]
<1> HIDE DEF root
<1>1. /\ journal' = Append(journal, delta) /\ reducing /\ ~reducing' /\ state' = before'
      /\ before' = [state EXCEPT !.tip_height = block.height, !.tip_hash = block.hash,
                                 !.chained_root = root]
  BY DEF FinishBlock, root
<1>2. /\ before'.tip_hash = block.hash /\ before'.tip_height = block.height
      /\ before'.chained_root = root
  BY <1>1 DEF ReducerInv, TypeOK, ChainStateOK
<1>3. /\ delta.before = before /\ delta.block_hash = block.hash
      /\ delta.previous_hash = block.previous_hash /\ delta.height = block.height
      /\ delta.chained_root = root
  OBVIOUS
<1> HIDE DEF delta
<1>4. IsSeq(journal)
  BY DEF ReducerInv, StacksOK
<1>5. /\ Len(journal) \in Nat /\ DOMAIN journal = 1..Len(journal)
      /\ IsSeq(journal') /\ Len(journal') = Len(journal) + 1
      /\ \A i \in 1..Len(journal) : journal'[i] = journal[i]
      /\ journal'[Len(journal) + 1] = delta
  BY <1>1, <1>4, SequencesAreSeq
<1>6. DOMAIN journal' = 1..(Len(journal) + 1)
  BY <1>5, SequencesAreSeq
<1> QED
  BY <1>1, <1>2, <1>3, <1>5, <1>6

\* The journal after disconnect_block.
LEMMA DisconnectedJournal ==
    ASSUME ReducerInv, DisconnectBlock
    PROVE  LET n == Len(journal)
           IN  /\ n \in Nat /\ n > 0 /\ DOMAIN journal = 1..n
               /\ IsSeq(journal') /\ Len(journal') = n - 1 /\ DOMAIN journal' = 1..(n - 1)
               /\ \A i \in 1..(n - 1) : journal'[i] = journal[i]
               /\ journal' = SubSeq(journal, 1, n - 1)
               /\ before' = journal[n].before
               /\ state' = before' /\ ~reducing /\ reducing' = reducing
<1>1. /\ ~reducing /\ reducing' = reducing /\ journal # <<>>
      /\ journal' = SubSeq(journal, 1, Len(journal) - 1)
      /\ state' = journal[Len(journal)].before /\ before' = journal[Len(journal)].before
  BY DEF DisconnectBlock
<1>2. IsSeq(journal)
  BY DEF ReducerInv, StacksOK
<1>3. Len(journal) \in Nat /\ DOMAIN journal = 1..Len(journal)
  BY <1>2, SequencesAreSeq
<1>4. Len(journal) > 0
  BY <1>1, <1>2, <1>3 DEF IsSeq
<1>5. /\ IsSeq(journal') /\ Len(journal') = Len(journal) - 1
      /\ \A i \in 1..(Len(journal) - 1) : journal'[i] = journal[i]
  BY <1>1, <1>2, <1>4, SequencesAreSeq
<1>6. DOMAIN journal' = 1..(Len(journal) - 1)
  BY <1>5, SequencesAreSeq
<1> QED
  BY <1>1, <1>3, <1>4, <1>5, <1>6

\* Starting a block on the checked parent preserves the link invariant.
LEMMA BeginKeepsLink ==
    ASSUME ReducerInv, LinkInv, NEW height, NEW previous,
           \/ BeginInitBlock(height, previous)
           \/ BeginFailedInitBlock(height, previous)
           \/ BeginBlock(height, previous)
    PROVE  LinkInv'
<1>1. /\ ~reducing /\ reducing' /\ journal' = journal /\ before' = state
      /\ block'.height = height /\ block'.previous_hash = previous
      /\ validate_linkage(height, previous)
  BY BeginningSteps
<1>2. before' = before
  BY <1>1 DEF LinkInv
<1>3. JournalLinked'
  BY <1>1, <1>2 DEF LinkInv, JournalLinked
<1> QED
  BY <1>1, <1>3 DEF LinkInv, validate_linkage

\* The finished block becomes the top of the journal.
LEMMA FinishKeepsLink ==
    ASSUME ReducerInv, LinkInv, FinishBlock
    PROVE  LinkInv'
<1> DEFINE n == Len(journal)
<1>1. /\ n \in Nat /\ DOMAIN journal = 1..n
      /\ Len(journal') = n + 1 /\ DOMAIN journal' = 1..(n + 1)
      /\ \A i \in 1..n : journal'[i] = journal[i]
      /\ journal'[n + 1].before = before
      /\ journal'[n + 1].block_hash = block.hash
      /\ journal'[n + 1].previous_hash = block.previous_hash
      /\ journal'[n + 1].height = block.height
      /\ journal'[n + 1].chained_root = before'.chained_root
      /\ before'.tip_hash = block.hash
      /\ before'.tip_height = block.height
      /\ state' = before' /\ reducing /\ ~reducing'
  BY FinishedJournal
<1> HIDE DEF n
<1>2. block.height \in Nat
  BY DEF ReducerInv, BlockOK
<1>3. \A i \in DOMAIN journal' : journal'[i].height \in Nat
  <2>1. ASSUME NEW i \in 1..(n + 1) PROVE journal'[i].height \in Nat
    <3>1. CASE i \in 1..n
      BY <1>1, <3>1 DEF LinkInv
    <3>2. CASE i = n + 1
      BY <1>1, <1>2, <3>2
    <3> QED
      BY <1>1, <3>1, <3>2
  <2> QED
    BY <1>1, <2>1
<1>4. n > 0 => /\ before.tip_hash = journal[n].block_hash
               /\ before.tip_height = journal[n].height
               /\ before.chained_root = journal[n].chained_root
               /\ journal[n].height \in Nat
  <2>1. n > 0 => n \in DOMAIN journal /\ n = Len(journal)
    BY <1>1 DEF n
  <2> QED
    BY <2>1 DEF LinkInv, JournalLinked
<1>5. n > 0 => /\ block.previous_hash = journal[n].block_hash
               /\ block.height = journal[n].height + 1
  BY <1>1, <1>4 DEF LinkInv, NoHeight
<1>6. \A i \in 1..n : i < n =>
        /\ journal[i + 1].before.tip_hash = journal[i].block_hash
        /\ journal[i + 1].before.tip_height = journal[i].height
        /\ journal[i + 1].before.chained_root = journal[i].chained_root
  BY <1>1 DEF LinkInv, JournalLinked, n
<1>7. \A i \in 1..n : i > 1 => /\ journal[i].previous_hash = journal[i - 1].block_hash
                              /\ journal[i].height = journal[i - 1].height + 1
  BY <1>1 DEF LinkInv, JournalLinked
<1>8. JournalLinked'
  <2> DEFINE next(i) == IF i = n + 1 THEN before' ELSE journal'[i + 1].before
  <2>1. ASSUME NEW i \in 1..(n + 1)
        PROVE  /\ next(i).tip_hash = journal'[i].block_hash
               /\ next(i).tip_height = journal'[i].height
               /\ next(i).chained_root = journal'[i].chained_root
    <3>1. CASE i = n + 1
      BY <1>1, <3>1
    <3>2. CASE i = n /\ n > 0
      BY <1>1, <1>4, <3>2
    <3>3. CASE i \in 1..n /\ i < n
      <4>1. i + 1 \in 1..n /\ i # n + 1
        BY <1>1, <3>3
      <4> QED
        BY <1>1, <1>6, <3>3, <4>1
    <3>4. i = n + 1 \/ (i = n /\ n > 0) \/ (i \in 1..n /\ i < n)
      <4>1. n \in Nat
        BY <1>1
      <4> QED
        BY ONLY <4>1, i \in 1..(n + 1)
    <3> QED
      BY <3>1, <3>2, <3>3, <3>4, ZenonT(30)
  <2>2. ASSUME NEW i \in 1..(n + 1), i > 1
        PROVE  /\ journal'[i].previous_hash = journal'[i - 1].block_hash
               /\ journal'[i].height = journal'[i - 1].height + 1
    <3>1. i - 1 \in 1..n
      BY <1>1, <2>2
    <3>2. CASE i = n + 1
      BY <1>1, <1>5, <3>1, <3>2
    <3>3. CASE i \in 1..n
      BY <1>1, <1>7, <2>2, <3>1, <3>3
    <3>4. i = n + 1 \/ i \in 1..n
      <4>1. n \in Nat
        BY <1>1
      <4> QED
        BY ONLY <4>1, i \in 1..(n + 1)
    <3> QED
      BY <3>2, <3>3, <3>4, ZenonT(30)
  <2> QED
    BY <1>1, <2>1, <2>2 DEF JournalLinked
<1> QED
  BY <1>1, <1>3, <1>8 DEF LinkInv

\* Rolling back to the saved parent state exposes the entry below.
LEMMA DisconnectKeepsLink ==
    ASSUME ReducerInv, LinkInv, DisconnectBlock
    PROVE  LinkInv'
<1> DEFINE n == Len(journal)
<1>1. /\ n \in Nat /\ n > 0 /\ DOMAIN journal = 1..n
      /\ Len(journal') = n - 1 /\ DOMAIN journal' = 1..(n - 1)
      /\ \A i \in 1..(n - 1) : journal'[i] = journal[i]
      /\ before' = journal[n].before
      /\ state' = before' /\ ~reducing /\ reducing' = reducing
  BY DisconnectedJournal, ZenonT(30)
<1>2. \A i \in 1..n : i < n =>
        /\ journal[i + 1].before.tip_hash = journal[i].block_hash
        /\ journal[i + 1].before.tip_height = journal[i].height
        /\ journal[i + 1].before.chained_root = journal[i].chained_root
  BY <1>1 DEF LinkInv, JournalLinked
<1>3. \A i \in 1..n : i > 1 => /\ journal[i].previous_hash = journal[i - 1].block_hash
                              /\ journal[i].height = journal[i - 1].height + 1
  BY <1>1 DEF LinkInv, JournalLinked
<1> HIDE DEF n
<1>4. \A i \in DOMAIN journal' : journal'[i].height \in Nat
  BY <1>1 DEF LinkInv
<1>5. JournalLinked'
  <2>1. ASSUME NEW i \in 1..(n - 1)
        PROVE  LET next == IF i = n - 1 THEN before' ELSE journal'[i + 1].before
               IN  /\ next.tip_hash = journal'[i].block_hash
                   /\ next.tip_height = journal'[i].height
                   /\ next.chained_root = journal'[i].chained_root
    <3>1. i \in 1..n /\ i < n
      BY <1>1
    <3>2. CASE i = n - 1
      BY <1>1, <1>2, <3>1, <3>2
    <3>3. CASE i # n - 1
      <4>1. i + 1 \in 1..(n - 1)
        BY <1>1, <3>3
      <4> QED
        BY <1>1, <1>2, <3>1, <3>3, <4>1
    <3> QED
      BY <3>2, <3>3
  <2>2. ASSUME NEW i \in 1..(n - 1), i > 1
        PROVE  /\ journal'[i].previous_hash = journal'[i - 1].block_hash
               /\ journal'[i].height = journal'[i - 1].height + 1
    <3>1. i \in 1..n /\ i - 1 \in 1..(n - 1)
      BY <1>1, <2>2
    <3> QED
      BY <1>1, <1>3, <2>2, <3>1
  <2> QED
    BY <1>1, <2>1, <2>2 DEF JournalLinked
<1> QED
  BY <1>1, <1>4, <1>5 DEF LinkInv

\* The empty journal is linked.
LEMMA InitLink ==
    Init => LinkInv
<1> SUFFICES ASSUME Init PROVE LinkInv
  OBVIOUS
<1>1. journal = <<>> /\ reducing = FALSE /\ state = NewChainState /\ before = NewChainState
  BY DEF Init
<1> QED
  BY <1>1 DEF LinkInv, JournalLinked

\* Every step of apply_block and disconnect_block preserves the link invariant.
LEMMA NextKeepsLink ==
    ReducerInv /\ LinkInv /\ [Next]_vars => LinkInv'
<1> SUFFICES ASSUME ReducerInv, LinkInv, [Next]_vars PROVE LinkInv'
  OBVIOUS
<1>1. CASE \E height \in 1..MaxHeight, previous \in {state.tip_hash, <<>>} :
              \/ BeginInitBlock(height, previous)
              \/ BeginFailedInitBlock(height, previous)
              \/ BeginBlock(height, previous)
  BY <1>1, BeginKeepsLink
<1>2. CASE \/ SkipTransaction \/ ProcessInit \/ ProcessIgnored \/ ProcessInvalid
           \/ ProcessExit \/ ProcessCreate \/ ProcessMark \/ ProcessRotate
           \/ ProcessClose \/ ProcessRefund
  <2>1. reducing /\ reducing' = reducing /\ UNCHANGED <<journal, block, before>>
    BY <1>2, ProcessingSteps
  <2> QED
    BY <2>1 DEF LinkInv, JournalLinked
<1>3. CASE FinishBlock
  BY <1>3, FinishKeepsLink
<1>4. CASE DisconnectBlock
  BY <1>4, DisconnectKeepsLink
<1>5. CASE UNCHANGED vars
  BY <1>5 DEF vars, LinkInv, JournalLinked
<1> QED
  BY <1>1, <1>2, <1>3, <1>4, <1>5 DEF Next

\* LinkInv, which adds to JournalLinked that a block being reduced already
\* extends the tip, holds in every reachable state.
THEOREM LinkInvariant ==
    Spec => []LinkInv
BY InitLink, NextKeepsLink, ReducerInvariant, PTL DEF Spec

\* After any sequence of applied and rolled back blocks the journal is one
\* contiguous branch whose inverse entries hold the state each block left.
THEOREM JournalCorrectness ==
    Spec => []JournalLinked
<1>1. LinkInv => JournalLinked
  BY DEF LinkInv
<1> QED
  BY <1>1, LinkInvariant, PTL

-----------------------------------------------------------------------------
(* Refinement: the journal implements CanonicalChain. *)

\* The branch CanonicalChain sees in a journal, as in the INSTANCE of Reducer.
Branch(j) ==
    [i \in DOMAIN j |-> [hash |-> j[i].block_hash, previous_hash |-> j[i].previous_hash,
                         height |-> j[i].height]]

\* The branch of a journal is a sequence as long as the journal.
LEMMA BranchIsSeq ==
    ASSUME NEW j, IsSeq(j)
    PROVE  /\ IsSeq(Branch(j)) /\ Len(Branch(j)) = Len(j) /\ DOMAIN Branch(j) = 1..Len(j)
           /\ \A i \in 1..Len(j) : /\ Branch(j)[i].hash = j[i].block_hash
                                   /\ Branch(j)[i].previous_hash = j[i].previous_hash
                                   /\ Branch(j)[i].height = j[i].height
<1>1. Len(j) \in Nat /\ DOMAIN j = 1..Len(j)
  BY SequencesAreSeq
<1>2. Branch(j) \in [1..Len(j) -> {Branch(j)[i] : i \in 1..Len(j)}]
  BY <1>1 DEF Branch
<1>3. IsSeq(Branch(j)) /\ Len(Branch(j)) = Len(j)
  BY <1>1, <1>2, SequencesAreSeq
<1> QED
  BY <1>1, <1>3 DEF Branch

\* Sequences of equal length that agree everywhere are equal.
LEMMA EqualSeqs ==
    ASSUME NEW s, NEW t, IsSeq(s), IsSeq(t), Len(s) = Len(t),
           \A i \in 1..Len(s) : s[i] = t[i]
    PROVE  s = t
<1>1. DOMAIN s = 1..Len(s) /\ DOMAIN t = 1..Len(s)
  BY SequencesAreSeq
<1>2. s \in [1..Len(s) -> {s[i] : i \in DOMAIN s}] /\ t \in [1..Len(s) -> {t[i] : i \in DOMAIN t}]
  BY <1>1 DEF IsSeq
<1> QED
  BY <1>1, <1>2

\* A finished block is connected to the tip it names.
LEMMA FinishConnects ==
    ASSUME ReducerInv, LinkInv, LinkInv', FinishBlock
    PROVE  Connected!Connect
<1> DEFINE n == Len(journal)
           c == Branch(journal)
           d == Branch(journal')
<1>1. /\ n \in Nat /\ IsSeq(journal) /\ IsSeq(journal') /\ Len(journal') = n + 1
      /\ DOMAIN journal' = 1..(n + 1) /\ DOMAIN journal = 1..n
      /\ \A i \in 1..n : journal'[i] = journal[i]
  BY FinishedJournal DEF ReducerInv, StacksOK
<1>2. IsSeq(c) /\ Len(c) = n /\ IsSeq(d) /\ Len(d) = n + 1
  BY <1>1, BranchIsSeq
<1>3. \A i \in 1..n : d[i] = c[i]
  BY <1>1 DEF Branch
<1>4. \A i \in 1..(n + 1) : d[i].hash = journal'[i].block_hash
        /\ d[i].previous_hash = journal'[i].previous_hash /\ d[i].height = journal'[i].height
  BY <1>1 DEF Branch
<1> HIDE DEF c, d, n
<1>5. SubSeq(d, 1, n) = c
  <2>1. /\ IsSeq(SubSeq(d, 1, n)) /\ Len(SubSeq(d, 1, n)) = n
        /\ \A i \in 1..n : SubSeq(d, 1, n)[i] = d[i]
    <3>1. Len(d) > 0 /\ Len(d) - 1 = n
      BY <1>1, <1>2
    <3> QED
      BY <1>2, <3>1, SequencesAreSeq
  <2> QED
    BY <1>2, <1>3, <2>1, EqualSeqs, ZenonT(30)
<1>6. n + 1 > 1 => /\ d[n + 1].previous_hash = d[n].hash
                   /\ d[n + 1].height = d[n].height + 1
  <2>1. n + 1 > 1 => /\ journal'[n + 1].previous_hash = journal'[n].block_hash
                     /\ journal'[n + 1].height = journal'[n].height + 1
    <3>1. \A i \in DOMAIN journal' : i > 1 =>
            /\ journal'[i].previous_hash = journal'[i - 1].block_hash
            /\ journal'[i].height = journal'[i - 1].height + 1
      BY DEF LinkInv, JournalLinked
    <3>2. n + 1 \in DOMAIN journal' /\ (n + 1) - 1 = n
      BY <1>1
    <3> QED
      BY <3>1, <3>2
  <2> QED
    BY <1>1, <1>4, <2>1
<1>7. Len(d) = Len(c) + 1 /\ SubSeq(d, 1, Len(c)) = c
      /\ (Len(d) > 1 => /\ d[Len(d)].previous_hash = d[Len(d) - 1].hash
                        /\ d[Len(d)].height = d[Len(d) - 1].height + 1)
  BY <1>1, <1>2, <1>5, <1>6
<1> QED
  BY <1>7, ZenonT(30) DEF Connected!Connect, Connected!TipLinked, c, d, Branch

\* A rolled back block is the tip, and leaves the rest of the branch as it was.
LEMMA DisconnectDisconnects ==
    ASSUME ReducerInv, DisconnectBlock
    PROVE  Connected!Disconnect
<1> DEFINE n == Len(journal)
           c == Branch(journal)
           d == Branch(journal')
<1>1. /\ n \in Nat /\ n > 0 /\ IsSeq(journal) /\ IsSeq(journal') /\ Len(journal') = n - 1
      /\ DOMAIN journal' = 1..(n - 1) /\ DOMAIN journal = 1..n
      /\ \A i \in 1..(n - 1) : journal'[i] = journal[i]
  BY DisconnectedJournal DEF ReducerInv, StacksOK
<1>2. IsSeq(c) /\ Len(c) = n /\ IsSeq(d) /\ Len(d) = n - 1
  BY <1>1, BranchIsSeq
<1>3. \A i \in 1..(n - 1) : d[i] = c[i]
  BY <1>1 DEF Branch
<1> HIDE DEF c, d, n
<1>4. /\ IsSeq(SubSeq(c, 1, n - 1)) /\ Len(SubSeq(c, 1, n - 1)) = n - 1
      /\ \A i \in 1..(n - 1) : SubSeq(c, 1, n - 1)[i] = c[i]
  BY <1>1, <1>2, SequencesAreSeq
<1>5. d = SubSeq(c, 1, Len(c) - 1)
  BY <1>2, <1>3, <1>4, EqualSeqs, ZenonT(30)
<1>6. c # <<>>
  BY <1>1, <1>2
<1> QED
  BY <1>5, <1>6, ZenonT(30) DEF Connected!Disconnect, c, d, Branch

\* apply_block and disconnect_block implement CanonicalChain: whatever heights
\* and parents the offered blocks claim, the processed blocks change only by one
\* linked block at the tip.
THEOREM BranchRefinement ==
    Spec => BranchIsCanonical
<1>1. Init => Connected!Init
  BY DEF Init, Connected!Init
<1>2. ReducerInv /\ LinkInv /\ LinkInv' /\ [Next]_vars =>
        Connected!Connect \/ Connected!Disconnect \/ UNCHANGED journal
  <2> SUFFICES ASSUME ReducerInv, LinkInv, LinkInv', [Next]_vars
               PROVE  Connected!Connect \/ Connected!Disconnect \/ UNCHANGED journal
    OBVIOUS
  <2>1. CASE \E height \in 1..MaxHeight, previous \in {state.tip_hash, <<>>} :
                \/ BeginInitBlock(height, previous)
                \/ BeginFailedInitBlock(height, previous)
                \/ BeginBlock(height, previous)
    BY <2>1, BeginningSteps
  <2>2. CASE \/ SkipTransaction \/ ProcessInit \/ ProcessIgnored \/ ProcessInvalid
             \/ ProcessExit \/ ProcessCreate \/ ProcessMark \/ ProcessRotate
             \/ ProcessClose \/ ProcessRefund
    BY <2>2, ProcessingSteps
  <2>3. CASE FinishBlock
    BY <2>3, FinishConnects
  <2>4. CASE DisconnectBlock
    BY <2>4, DisconnectDisconnects
  <2>5. CASE UNCHANGED vars
    BY <2>5 DEF vars
  <2> QED
    BY <2>1, <2>2, <2>3, <2>4, <2>5 DEF Next
<1>3. ReducerInv /\ LinkInv /\ LinkInv' /\ [Next]_vars =>
        [Connected!Connect \/ Connected!Disconnect]_(
            [i \in DOMAIN journal |->
                [hash |-> journal[i].block_hash, previous_hash |-> journal[i].previous_hash,
                 height |-> journal[i].height]])
  BY <1>2
<1> QED
  BY <1>1, <1>3, ReducerInvariant, LinkInvariant, PTL
     DEF Spec, BranchIsCanonical, Connected!Spec

-----------------------------------------------------------------------------
(* The current transaction. *)

\* Only operations of markers are attempted, never a refund.
LEMMA NeverAttemptsRefund ==
    ASSUME NEW tx
    PROVE  AttemptedType(tx) # "Refund"
BY DEF AttemptedType, attempted_event_type, Opcode

\* The next transaction's inputs match the unspent outputs they name.
LEMMA CurrentInputs ==
    ASSUME ReducerInv, ResolvedOK, InTransactions
    PROVE  /\ CurrentTx.txid # 0
           /\ \A a \in DOMAIN CurrentTx.inputs :
                CurrentTx.inputs[a].prevout \in DOMAIN coins =>
                    CoinMatches(CurrentTx.inputs[a], coins[CurrentTx.inputs[a].prevout])
<1>1. index \in Nat
  BY DEF ReducerInv, TypeOK, BlockOK, IsSeq
<1>2. index + 1 > index
  BY <1>1
<1>3. index + 1 \in DOMAIN block.transactions
  BY CurrentIsFresh
<1> QED
  BY <1>2, <1>3, ZenonT(30) DEF ResolvedOK, CurrentTx

=============================================================================
