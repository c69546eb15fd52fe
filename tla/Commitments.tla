------------------------------ MODULE Commitments ------------------------------
(***************************************************************************)
(* What the roots of a replayed block commit to.  A root is read back as   *)
(* the leaves of its tree, by recursion through the term it is.            *)
(***************************************************************************)
EXTENDS Programs

Ext == INSTANCE SequencesExt

RECURSIVE Frontier(_, _)

\* The leaves of the tree that a root of the given node domain is the hash of.
Frontier(h, domain) ==
    IF h[1] = domain THEN Frontier(h[2], domain) \o Frontier(h[3], domain) ELSE <<h>>

\* Padding only repeats hashes.
WithoutRepeats(s) == SelectSeq(
    [i \in DOMAIN s |-> [first |-> \A j \in 1..(i - 1) : s[j] # s[i], leaf |-> s[i]]],
    LAMBDA e : e.first)

Revealed(root, domain) == MapSeq(WithoutRepeats(Frontier(root, domain)), LAMBDA e : e.leaf)

InOrder(S) == Ext!SetToSortSeq(S, LAMBDA x, y : x[2] < y[2])

\* The blocks a replay has taken, and what roots.rs was handed for them.
Replayed == IF input.command = "replay" THEN DOMAIN derived ELSE {}

\* The event root commits to the block's events and to nothing else: whatever
\* order they come in, the leaves under the root are those of the events in
\* position order, so two blocks with different events have different roots.
\* It needs distinct positions, since an odd level repeats its last hash.
EventRootCommits ==
    \A i \in Replayed :
        LET events == input.blocks[i].events IN
        events # <<>> =>
            Revealed(derived[i].event_root, "EVENT-NODE") =
                InOrder({event_leaf(e) : e \in Range(events)})

\* The object-state root commits to every field of every object in the same
\* way: those that object_state_leaf blanks are determined by the status.
ObjectRootCommits ==
    \A i \in Replayed :
        LET objects == input.blocks[i].objects IN
        objects # <<>> =>
            Revealed(derived[i].object_state_root, "OBJECT-NODE") =
                InOrder({<<"OBJECT-STATE", o.object_key, o.fields, o.status,
                           o.current_outpoint, o.terminal_txid>> : o \in Range(objects)})
================================================================================
