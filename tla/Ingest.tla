-------------------------------- MODULE Ingest ---------------------------------
(***************************************************************************)
(* The ingestion worker (ingest.rs) with its store (store.rs) and its      *)
(* block source (rpc.rs): a pass reads Core's best height, rolls stale     *)
(* blocks back, applies the missing ones and replaces the mempool overlay. *)
(* One action per call the worker awaits; Core may change between any two. *)
(*                                                                         *)
(* A chain is the sequence of its blocks' contents from height 1, so the   *)
(* hash of a block is the chain up to it.  The reducer is deterministic: a *)
(* ChainState is the sequence of block views it was computed from, first   *)
(* the block with the configured INIT.  A view is a block hash and whether *)
(* every prevout height in it is that of the block's own branch; each      *)
(* block spends outputs of its parent.  Core's mempool holds the INIT      *)
(* transaction while no block does.                                        *)
(***************************************************************************)
EXTENDS Lists

CONSTANTS
    Content,           \* contents of blocks without the configured INIT
    MaxHeight,         \* bound on chain length
    MaxReorgs,         \* bound on reorganizations
    MaxInvalidations,  \* bound on blocks an operator invalidates
    Faults,            \* kinds of failure that may happen
    MaxFaults          \* bound on their number

\* call: an RPC or SQL call fails without effect, or Core is not ready.
\* apply_ack, rollback_ack: a commit takes effect and its answer is lost.
\* reload: load_state fails after a failed commit.
\* crash: the process stops and is started again.
FaultKind == {"call", "apply_ack", "rollback_ack", "reload", "crash"}

ASSUME IngestAssumption ==
    /\ MaxHeight \in Nat
    /\ MaxReorgs \in Nat
    /\ MaxInvalidations \in Nat
    /\ MaxFaults \in Nat
    /\ Faults \subseteq FaultKind
    /\ "INIT" \notin Content

VARIABLES
    core,              \* external: Core's active chain
    budget,            \* external: reorgs, invalidations and faults so far
    calm,              \* history: core is as it was when best_height was read
    pc,                \* the worker's next call
    state,             \* Ingestion.state
    best_height,
    height,            \* next height of the catch-up loop
    view,              \* hash of the block being fetched
    mempool,           \* mempool views being stored
    health,            \* WorkerHealth
    protocol_state,    \* stored ChainState
    canonical_blocks,  \* height -> [block, before]: roots and inverse journal
    reorg_journal,     \* set of [disconnected, restored]
    mempool_overlay

coreVars == <<core, budget, calm>>
storeVars == <<protocol_state, canonical_blocks, reorg_journal, mempool_overlay>>
passVars == <<best_height, height, view, mempool>>
vars == <<coreVars, pc, state, passVars, health, storeVars>>

-----------------------------------------------------------------------------
(* Bitcoin Core. *)

HasInit(c) == \E i \in DOMAIN c : c[i] = "INIT"
InitHeight(c) == CHOOSE i \in DOMAIN c : c[i] = "INIT"
BlockHash(c, h) == SubSeq(c, 1, h)
MempoolOf(c) == IF HasInit(c) THEN {} ELSE {"INIT"}

Chains ==
    {c \in SeqOf(Content \cup {"INIT"}, MaxHeight) :
        \A i, j \in DOMAIN c : c[i] = "INIT" /\ c[j] = "INIT" => i = j}

CoreMoves(c) ==
    /\ core' = c
    /\ calm' = FALSE
    /\ UNCHANGED <<pc, state, passVars, health, storeVars>>

Spend(kind) == budget' = [budget EXCEPT ![kind] = @ + 1]

MineBlock ==
    \E b \in Content \cup {"INIT"} :
        /\ Append(core, b) \in Chains
        /\ CoreMoves(Append(core, b))
        /\ UNCHANGED budget

\* A longer branch replaces the active one.
Reorganize ==
    /\ budget.reorgs < MaxReorgs
    /\ \E c \in Chains :
        /\ Len(c) > Len(core)
        /\ ~IsPrefix(core, c)
        /\ CoreMoves(c)
    /\ Spend("reorgs")

\* invalidateblock: the best height can go down.
Invalidate ==
    /\ budget.invalidations < MaxInvalidations
    /\ core # <<>>
    /\ CoreMoves(Front(core))
    /\ Spend("invalidations")

-----------------------------------------------------------------------------
(* States, deltas and the store's transactions. *)

TipHeight(st) == Len(Last(st).hash)

\* Fault: the parent hash is not compared.
AcceptsHeightOnly(st, v) ==
    IF st = <<>> THEN Last(v.hash) = "INIT" ELSE Len(v.hash) = TipHeight(st) + 1

\* apply_block accepts the view: the configured INIT starts the chain, and
\* validate_linkage compares height and parent hash after that.
Accepts(st, v) ==
    IF st = <<>> THEN Last(v.hash) = "INIT" ELSE Front(v.hash) = Last(st).hash

\* store.apply_block's checks: the stored state is the delta's before, and the
\* unique keys of canonical_blocks.
Committable(before, v) ==
    /\ protocol_state = before
    /\ Len(v.hash) \notin DOMAIN canonical_blocks
    /\ \A h \in DOMAIN canonical_blocks : canonical_blocks[h].block.hash # v.hash

StoreBlock(before, v) ==
    /\ protocol_state' = Append(before, v)
    /\ canonical_blocks' =
        [h \in DOMAIN canonical_blocks \cup {Len(v.hash)} |->
            IF h = Len(v.hash) THEN [block |-> v, before |-> before]
            ELSE canonical_blocks[h]]
    /\ UNCHANGED <<reorg_journal, mempool_overlay>>

\* rollback_tip finds a tip and its journal row, and disconnect_block accepts it.
Rollbackable ==
    /\ protocol_state # <<>>
    /\ TipHeight(protocol_state) \in DOMAIN canonical_blocks
    /\ canonical_blocks[TipHeight(protocol_state)].block.hash = Last(protocol_state).hash

\* Fault: the rolled back row stays.
StoreRollbackKeepsRow ==
    /\ Rollbackable
    /\ protocol_state' = canonical_blocks[TipHeight(protocol_state)].before
    /\ UNCHANGED <<canonical_blocks, reorg_journal, mempool_overlay>>

StoreRollback ==
    LET tip == TipHeight(protocol_state)
        row == canonical_blocks[tip]
    IN  /\ Rollbackable
        /\ protocol_state' = row.before
        /\ canonical_blocks' = [h \in DOMAIN canonical_blocks \ {tip} |-> canonical_blocks[h]]
        /\ reorg_journal' = reorg_journal \cup
            {[disconnected |-> row.block.hash,
              restored |-> IF row.before = <<>> THEN <<>> ELSE Last(row.before).hash]}
        /\ UNCHANGED mempool_overlay

-----------------------------------------------------------------------------
(* The worker. *)

Goto(label) == pc' = label

\* The locals of run_once end with the pass.
EndPass ==
    /\ Goto("wait")
    /\ best_height' = 0 /\ height' = 0 /\ view' = <<>> /\ mempool' = {}

\* run_once returns an error: the pass ends and the worker waits.
Fail ==
    /\ EndPass
    /\ health' = [health EXCEPT !.last_error = TRUE, !.catching_up = FALSE]

Fault(kind) ==
    /\ kind \in Faults
    /\ budget.faults < MaxFaults
    /\ Spend("faults")

\* PollWakeup's timer fires.
WakeUp ==
    /\ pc = "wait"
    /\ Goto("run")
    /\ UNCHANGED <<coreVars, state, passVars, health, storeVars>>

StartPass ==
    /\ pc = "run"
    /\ Goto("status")
    /\ health' = [health EXCEPT !.catching_up = TRUE]
    /\ UNCHANGED <<coreVars, state, passVars, storeVars>>

CheckReady ==
    /\ pc = "status"
    /\ Goto("best_height")
    /\ UNCHANGED <<coreVars, state, passVars, health, storeVars>>

ReadBestHeight ==
    /\ pc = "best_height"
    /\ best_height' = Len(core)
    /\ calm' = TRUE
    /\ Goto("reconcile")
    /\ UNCHANGED <<core, budget, state, height, view, mempool, health, storeVars>>

\* Without a tip there is nothing to reconcile.
ReconcileNothing ==
    /\ pc = "reconcile"
    /\ state = <<>>
    /\ Goto("find_init")
    /\ UNCHANGED <<coreVars, state, passVars, health, storeVars>>

\* Fault: a tip below Core's counts as canonical.
TipBelowCore == TipHeight(state) <= Len(core)

TipOnCore == TipHeight(state) <= Len(core) /\ BlockHash(core, TipHeight(state)) = Last(state).hash

ReconcileMatch ==
    /\ pc = "reconcile"
    /\ state # <<>>
    /\ TipHeight(state) <= best_height
    /\ TipOnCore
    /\ height' = TipHeight(state) + 1
    /\ Goto("block")
    /\ UNCHANGED <<coreVars, state, best_height, view, mempool, health, storeVars>>

\* Above best_height the hash is not even asked for.
ReconcileMismatch ==
    /\ pc = "reconcile"
    /\ state # <<>>
    /\ TipHeight(state) <= best_height => TipHeight(state) <= Len(core) /\ ~TipOnCore
    /\ Goto("rollback")
    /\ UNCHANGED <<coreVars, state, passVars, health, storeVars>>

\* getblockhash: the height is out of range by now.
ReconcileOutOfRange ==
    /\ pc = "reconcile"
    /\ state # <<>>
    /\ TipHeight(state) <= best_height
    /\ TipHeight(state) > Len(core)
    /\ Fail
    /\ UNCHANGED <<coreVars, state, storeVars>>

\* Fault: the worker's own state is not rolled back.
RollbackTipKeepsMemory ==
    /\ pc = "rollback"
    /\ StoreRollback
    /\ Goto("reconcile")
    /\ UNCHANGED <<coreVars, state, passVars, health>>

\* rollback_tip undoes the stored tip, whatever the worker's own tip is.
RollbackTip ==
    /\ pc = "rollback"
    /\ StoreRollback
    /\ state' = protocol_state'
    /\ Goto(IF state' = <<>> THEN "find_init" ELSE "reconcile")
    /\ UNCHANGED <<coreVars, passVars, health>>

\* rollback_tip returns None ("database has no rollback journal for current
\* tip") or an error.
RollbackRefused ==
    /\ pc = "rollback"
    /\ ~Rollbackable
    /\ Fail
    /\ UNCHANGED <<coreVars, state, storeVars>>

RollbackUnacknowledged ==
    /\ pc = "rollback"
    /\ Fault("rollback_ack")
    /\ StoreRollback
    /\ Fail
    /\ UNCHANGED <<core, calm, state>>

\* transaction_height of the configured INIT.
FindInit ==
    /\ pc = "find_init"
    /\ IF HasInit(core) THEN height' = InitHeight(core) /\ Goto("block")
       ELSE Goto("mempool") /\ UNCHANGED height
    /\ UNCHANGED <<coreVars, state, best_height, view, mempool, health, storeVars>>

\* Fault: the range of heights excludes the best height.
CatchUpStopsEarly ==
    /\ pc = "block"
    /\ height >= best_height
    /\ Goto("mempool")
    /\ UNCHANGED <<coreVars, state, passVars, health, storeVars>>

CatchUpDone ==
    /\ pc = "block"
    /\ height > best_height
    /\ Goto("mempool")
    /\ UNCHANGED <<coreVars, state, passVars, health, storeVars>>

\* getblockhash and getblock; the second is by hash, so one read of the chain.
FetchBlock ==
    /\ pc = "block"
    /\ height <= best_height
    /\ IF height <= Len(core)
       THEN /\ view' = BlockHash(core, height)
            /\ Goto("resolve")
            /\ UNCHANGED <<best_height, height, mempool, health>>
       ELSE Fail
    /\ UNCHANGED <<coreVars, state, storeVars>>

\* The prevout heights are read from the chain that is active by now, then
\* apply_block runs in memory.
ResolveAndReduce ==
    /\ pc = "resolve"
    /\ LET v == [hash |-> view, exact |-> IsPrefix(Front(view), core)]
       IN  IF Accepts(state, v)
           THEN /\ state' = Append(state, v)
                /\ Goto("commit")
                /\ UNCHANGED <<passVars, health>>
           ELSE Fail /\ UNCHANGED state
    /\ UNCHANGED <<coreVars, storeVars>>

CommitBlock ==
    /\ pc = "commit"
    /\ Committable(Front(state), Last(state))
    /\ StoreBlock(Front(state), Last(state))
    /\ height' = height + 1
    /\ Goto("block")
    /\ UNCHANGED <<coreVars, state, best_height, view, mempool, health>>

\* "database state changed before block commit", or the insert conflicts.
CommitRefused ==
    /\ pc = "commit"
    /\ ~Committable(Front(state), Last(state))
    /\ Goto("reload")
    /\ UNCHANGED <<coreVars, state, passVars, health, storeVars>>

CommitFails ==
    /\ pc = "commit"
    /\ Fault("call")
    /\ Goto("reload")
    /\ UNCHANGED <<core, calm, state, passVars, health, storeVars>>

CommitUnacknowledged ==
    /\ pc = "commit"
    /\ Committable(Front(state), Last(state))
    /\ Fault("apply_ack")
    /\ StoreBlock(Front(state), Last(state))
    /\ Goto("reload")
    /\ UNCHANGED <<core, calm, state, passVars, health>>

\* Fault: the reduced block stays in memory.
ReloadSkipped ==
    /\ pc = "reload"
    /\ Fail
    /\ UNCHANGED <<coreVars, state, storeVars>>

ReloadState ==
    /\ pc = "reload"
    /\ state' = protocol_state
    /\ Fail
    /\ UNCHANGED <<coreVars, storeVars>>

\* load_state().await.unwrap_or(delta.before)
ReloadFails ==
    /\ pc = "reload"
    /\ Fault("reload")
    /\ state' = Front(state)
    /\ Fail
    /\ UNCHANGED <<core, calm, storeVars>>

ReadMempool ==
    /\ pc = "mempool"
    /\ mempool' = MempoolOf(core)
    /\ Goto("overlay")
    /\ UNCHANGED <<coreVars, state, best_height, height, view, health, storeVars>>

\* Fault: a success does not clear the error of an earlier pass.
ReplaceMempoolKeepsError ==
    /\ pc = "overlay"
    /\ mempool_overlay' = mempool
    /\ health' = [health EXCEPT !.catching_up = FALSE]
    /\ EndPass
    /\ UNCHANGED <<coreVars, state, protocol_state, canonical_blocks, reorg_journal>>

\* replace_mempool, and the pass has succeeded.
ReplaceMempool ==
    /\ pc = "overlay"
    /\ mempool_overlay' = mempool
    /\ health' = [last_successful_height |-> IF state = <<>> THEN 0 ELSE TipHeight(state),
                  last_error |-> FALSE, catching_up |-> FALSE]
    /\ EndPass
    /\ UNCHANGED <<coreVars, state, protocol_state, canonical_blocks, reorg_journal>>

ReplaceUnacknowledged ==
    /\ pc = "overlay"
    /\ Fault("apply_ack")
    /\ mempool_overlay' = mempool
    /\ Fail
    /\ UNCHANGED <<core, calm, state, protocol_state, canonical_blocks, reorg_journal>>

\* Any other awaited call fails: run_once returns with `?`.
CallFails ==
    /\ \/ pc \in {"status", "best_height", "rollback", "find_init", "resolve", "mempool",
                  "overlay"}
       \/ pc = "reconcile" /\ state # <<>> /\ TipHeight(state) <= best_height
       \/ pc = "block" /\ height <= best_height
    /\ Fault("call")
    /\ Fail
    /\ UNCHANGED <<core, calm, state, storeVars>>

NoHealth == [last_successful_height |-> 0, last_error |-> FALSE, catching_up |-> FALSE]

\* main: bind_or_load, a default WorkerHealth and a new worker.
Restart ==
    /\ Fault("crash")
    /\ state' = protocol_state
    /\ health' = NoHealth
    /\ Goto("run")
    /\ best_height' = 0 /\ height' = 0 /\ view' = <<>> /\ mempool' = {}
    /\ UNCHANGED <<core, calm, storeVars>>

-----------------------------------------------------------------------------
Init ==
    /\ core = <<>>
    /\ budget = [reorgs |-> 0, invalidations |-> 0, faults |-> 0]
    /\ calm = FALSE
    /\ pc = "run"
    /\ state = <<>>
    /\ best_height = 0 /\ height = 0 /\ view = <<>> /\ mempool = {}
    /\ health = NoHealth
    /\ protocol_state = <<>>
    /\ canonical_blocks = [h \in {} |-> <<>>]
    /\ reorg_journal = {}
    /\ mempool_overlay = {}

CoreNext == MineBlock \/ Reorganize \/ Invalidate

\* The steps the worker takes when nothing fails.
WorkerNext ==
    \/ WakeUp \/ StartPass \/ CheckReady \/ ReadBestHeight
    \/ ReconcileNothing \/ ReconcileMatch \/ ReconcileMismatch \/ ReconcileOutOfRange
    \/ RollbackTip \/ RollbackRefused
    \/ FindInit \/ CatchUpDone \/ FetchBlock \/ ResolveAndReduce
    \/ CommitBlock \/ CommitRefused \/ ReloadState
    \/ ReadMempool \/ ReplaceMempool

FaultNext ==
    \/ RollbackUnacknowledged \/ CommitFails \/ CommitUnacknowledged \/ ReloadFails
    \/ ReplaceUnacknowledged \/ CallFails

Next == CoreNext \/ WorkerNext \/ FaultNext \/ Restart

Spec == Init /\ [][Next]_vars

\* The timer wakes the worker again and again and every call returns, so a
\* worker that can take a step takes one.  Nothing is assumed of Core.
FairSpec == Spec /\ WF_vars(WorkerNext)

-----------------------------------------------------------------------------
(* Properties. *)

Hashes(st) == [i \in DOMAIN st |-> st[i].hash]

\* The blocks the database should hold for chain c: all from INIT on.
CanonicalHashes(c) ==
    IF HasInit(c)
    THEN [i \in 1..(Len(c) - InitHeight(c) + 1) |-> BlockHash(c, InitHeight(c) + i - 1)]
    ELSE <<>>

Synced == Hashes(protocol_state) = CanonicalHashes(core)

\* protocol_state and canonical_blocks, two tables of one transaction, agree
\* through every failure and restart: the journal has one row for each block of
\* the stored state, whose inverse is exactly the state below that block.
StoreCoherent ==
    /\ DOMAIN canonical_blocks = {Len(protocol_state[i].hash) : i \in DOMAIN protocol_state}
    /\ \A i \in DOMAIN protocol_state :
        canonical_blocks[Len(protocol_state[i].hash)] =
            [block |-> protocol_state[i], before |-> SubSeq(protocol_state, 1, i - 1)]

\* Outside a commit, the worker's memory and the database are on one branch,
\* one possibly behind the other after a lost answer: a block reduced in memory
\* whose transaction failed never survives the error path.
OneBranch ==
    pc \notin {"commit", "reload"} =>
        IsPrefix(state, protocol_state) \/ IsPrefix(protocol_state, state)

\* A pass that reports success has stored exactly Core's chain from INIT on, if
\* Core did not move since the pass read its best height.
HealthyMeansSynced == pc = "wait" /\ ~health.last_error /\ calm => Synced

\* Rollback stops at the common ancestor: a block that is on Core's chain for
\* the whole pass is never disconnected.
DisconnectsOnlyStale ==
    [][calm /\ Len(protocol_state') < Len(protocol_state) =>
        ~IsPrefix(Last(protocol_state).hash, core)]_vars

Stored == INSTANCE CanonicalChain WITH
    chain <- [i \in DOMAIN protocol_state |->
                [hash |-> protocol_state[i].hash,
                 previous_hash |-> Front(protocol_state[i].hash),
                 height |-> Len(protocol_state[i].hash)]]

\* The database is a canonical chain: every committed transaction connects one
\* linked block or disconnects the tip, whatever the worker believes.
StoredIsCanonical == Stored!Spec

\* Once Core is stable and calls succeed, the database comes to hold Core's
\* chain from INIT on, and keeps it.
CatchesUp == <>[]Synced

\* The gates of /readyz (api.rs) pass for the present state.
GatesPass ==
    /\ protocol_state # <<>>
    /\ TipHeight(protocol_state) = Len(core)
    /\ ~health.catching_up
    /\ ~health.last_error

\* No failure leaves the service unready for good: once INIT stays on Core's
\* chain and calls succeed, the gates pass again and again.  They do not stay
\* open, since each pass of the worker sets catching_up.
ReadyAgain == <>[]HasInit(core) => []<>GatesPass

\* A block that stays stored on Core's chain was reduced with the prevout
\* heights of its own branch.
DerivedFromItsBranch ==
    pc = "wait" /\ ~health.last_error /\ calm =>
        \A i \in DOMAIN protocol_state : protocol_state[i].exact
===============================================================================
