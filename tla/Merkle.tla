-------------------------------- MODULE Merkle ---------------------------------
(***************************************************************************)
(* The roots of roots.rs over the terms they hash: a SHA256 digest is the  *)
(* tuple of its domain and its inputs, so two digests are equal exactly    *)
(* when their preimages are.                                               *)
(*                                                                         *)
(* An event is [position, content], its position standing for the triple   *)
(* (tx_index, event_index, sub_index) it is sorted by.  An object is       *)
(* [object_key, fields, status, current_outpoint, terminal_txid], where    *)
(* fields stands for what a leaf always copies: founding, create_height,   *)
(* state_seq, keys and chapter_count.                                      *)
(***************************************************************************)
EXTENDS Lists

ZERO == 0

\* The last hash of an odd level is paired with itself.
Padded(level) == IF Len(level) % 2 = 1 THEN Append(level, Last(level)) ELSE level

Parents(level, domain) ==
    [i \in 1..(Len(Padded(level)) \div 2) |->
        <<domain, Padded(level)[2 * i - 1], Padded(level)[2 * i]>>]

\* One turn of the loop, which runs while there are several hashes.
NextLevel(level, domain) == IF Len(level) > 1 THEN Parents(level, domain) ELSE level

\* Every turn drops at least one hash, so Len(leaves) turns are enough.
merkle(leaves, domain) ==
    LET level[n \in 0..Len(leaves)] ==
            IF n = 0 THEN leaves ELSE NextLevel(level[n - 1], domain)
    IN  level[Len(leaves)][1]

MapSeq(s, Op(_)) == [i \in DOMAIN s |-> Op(s[i])]

\* The rank of element j by the keys; equal keys keep their order.
Rank(keys, j) ==
    1 + Cardinality({k \in DOMAIN keys : keys[k] < keys[j] \/ (keys[k] = keys[j] /\ k < j)})

\* sort_by_key, which is stable.  The empty prefix has TLC sort only once.
SortedBy(s, keys) == <<>> \o [i \in DOMAIN s |-> s[CHOOSE j \in DOMAIN s : Rank(keys, j) = i]]

event_leaf(event) == <<"EVENT", event.position, event.content>>

\* Fault: the events are hashed in the order they come.
event_root_unsorted(events) ==
    IF events = <<>> THEN <<"EVENT-EMPTY">> ELSE merkle(MapSeq(events, event_leaf), "EVENT-NODE")

event_root(events) ==
    IF events = <<>> THEN <<"EVENT-EMPTY">>
    ELSE LET ordered == SortedBy(events, [i \in DOMAIN events |-> events[i].position])
         IN  merkle(MapSeq(ordered, event_leaf), "EVENT-NODE")

\* Fault: the outpoint of an active object is blanked.
object_state_leaf_blank(object) ==
    <<"OBJECT-STATE", object.object_key, object.fields, object.status,
      IF object.status = "Active" THEN ZERO ELSE object.current_outpoint,
      IF object.status = "Active" THEN ZERO ELSE object.terminal_txid>>

\* Only an active object has an outpoint, only an ended one a terminal txid.
object_state_leaf(object) ==
    <<"OBJECT-STATE", object.object_key, object.fields, object.status,
      IF object.status = "Active" THEN object.current_outpoint ELSE ZERO,
      IF object.status = "Active" THEN ZERO ELSE object.terminal_txid>>

object_state_root(objects) ==
    IF objects = <<>> THEN <<"OBJECT-EMPTY">>
    ELSE LET leaves == SortedBy(MapSeq(objects, object_state_leaf),
                                [i \in DOMAIN objects |-> objects[i].object_key])
         IN  merkle(leaves, "OBJECT-NODE")

block_root(previous, hash, height, events, objects, counters) ==
    <<"BLOCKROOT", previous, hash, height, events, objects, counters>>
===============================================================================
