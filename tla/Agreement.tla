------------------------------- MODULE Agreement -------------------------------
(***************************************************************************)
(* GET /tandem/agreement/{height} (api.rs) beside the ingestion worker: a  *)
(* request reads the worker's health, Core's status, the stored state, the *)
(* stored roots and Core's hash one after the other, and then signs.       *)
(*                                                                         *)
(* A chained root commits to every reduced block below it, so a tuple's    *)
(* root is the ChainState it closes.  A stored state with a tip is Active  *)
(* or FailedInit; the latter refuses the request, as a failed call does.   *)
(***************************************************************************)
EXTENDS Ingest

VARIABLES
    request    \* the one request in progress: [pc, height, blocks, roots]

NoRequest == [pc |-> "none", height |-> 0, blocks |-> 0, roots |-> <<>>]

\* The root tuple of a stored row.
Tuple(row) == [block_hash |-> row.block.hash, chained_root |-> Append(row.before, row.block)]

-----------------------------------------------------------------------------
Ask ==
    /\ request = NoRequest
    /\ \E h \in 1..MaxHeight :
        request' = [NoRequest EXCEPT !.pc = "worker", !.height = h]
    /\ UNCHANGED vars

\* A failed check or call answers with an error.
Refuse ==
    /\ request' = NoRequest
    /\ UNCHANGED vars

Continue(label) ==
    /\ request' = [request EXCEPT !.pc = label]
    /\ UNCHANGED vars

CheckWorker ==
    /\ request.pc = "worker"
    /\ IF health.catching_up \/ health.last_error THEN Refuse ELSE Continue("status")

ReadStatus ==
    /\ request.pc = "status"
    /\ request' = [request EXCEPT !.pc = "state", !.blocks = Len(core)]
    /\ UNCHANGED vars

\* Active, at Core's height, and the requested height exists.
CheckState ==
    /\ request.pc = "state"
    /\ IF /\ protocol_state # <<>>
          /\ TipHeight(protocol_state) = request.blocks
          /\ request.height <= request.blocks
       THEN Continue("roots") ELSE Refuse

ReadRoots ==
    /\ request.pc = "roots"
    /\ IF request.height \in DOMAIN canonical_blocks
       THEN /\ request' = [request EXCEPT !.pc = "hash",
                                          !.roots = Tuple(canonical_blocks[request.height])]
            /\ UNCHANGED vars
       ELSE Refuse

HashMatches ==
    /\ request.height <= Len(core)
    /\ BlockHash(core, request.height) = request.roots.block_hash

\* Core does not answer or is not ready, the database does not answer or holds
\* a FailedInit state, or the signer fails.
FailCall ==
    /\ request.pc \in {"status", "state", "roots", "hash"}
    /\ Refuse

\* Fault: Core's hash at the height is not compared.
SignTupleUnchecked ==
    /\ request.pc = "hash"
    /\ request' = [request EXCEPT !.pc = "signed"]
    /\ UNCHANGED vars

\* Core's hash at the height is the stored one: the tuple is signed.
SignTuple ==
    /\ request.pc = "hash"
    /\ HashMatches
    /\ request' = [request EXCEPT !.pc = "signed"]
    /\ UNCHANGED vars

\* Out of range, or a conflict.
RefuseHash ==
    /\ request.pc = "hash"
    /\ ~HashMatches
    /\ Refuse

\* The signed tuple is answered.
EndRequest ==
    /\ request.pc = "signed"
    /\ request' = NoRequest
    /\ UNCHANGED vars

RequestNext ==
    \/ Ask \/ CheckWorker \/ ReadStatus \/ CheckState \/ ReadRoots
    \/ FailCall \/ SignTuple \/ RefuseHash \/ EndRequest

-----------------------------------------------------------------------------
(* Properties. *)

\* A tuple is signed only while it is true of Core: its root covers exactly the
\* blocks from INIT to the requested height of the chain that is Core's when
\* the hash is compared.  The stored tip is compared by height only and at an
\* earlier moment, and commits, rollbacks, reorganizations and restarts may
\* come between any two reads.
SignsCoresChain ==
    [][request'.pc = "signed" =>
        /\ request.height <= Len(core)
        /\ Hashes(request'.roots.chained_root) =
               CanonicalHashes(BlockHash(core, request.height))]_request
===============================================================================
