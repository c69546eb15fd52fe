--------------------------------- MODULE Store ---------------------------------
(***************************************************************************)
(* The PostgreSQL store (store.rs) under any number of writer processes:   *)
(* bind_or_load, apply_block, rollback_tip and replace_mempool, each a     *)
(* transaction of several statements.  PostgreSQL runs them READ           *)
(* COMMITTED: a statement sees what is committed when it starts, the       *)
(* writes of a transaction appear to others when it commits, and a         *)
(* transaction that does not commit leaves nothing and frees its locks.    *)
(*                                                                         *)
(* A writer is the most general user of the store: it may reduce any block *)
(* on its own state, ask for a rollback or bring any mempool, at any time. *)
(* A ChainState is the sequence of its blocks' contents, so heights count  *)
(* from the INIT block and the hash of a block is the state it ends.  A    *)
(* block emits one event, and touches the one object its content names.    *)
(***************************************************************************)
EXTENDS Integers, Sequences, FiniteSets

CONSTANTS
    Writer,       \* processes on one database
    Deployment,   \* bindings: network, INIT txid and specification hash
    Release,      \* release identities
    Content,      \* contents of blocks
    MempoolTx,    \* unconfirmed transactions
    Operation,    \* store operations the writers use once they are bound
    MaxHeight,    \* bound on the number of blocks
    MaxPasses,    \* bound on replaced overlays
    MaxFaults     \* bound on failing statements and processes that stop

NoBinding == "unbound"

ASSUME StoreAssumption ==
    /\ NoBinding \notin Deployment
    /\ Operation \subseteq {"apply", "rollback", "mempool"}
    /\ MaxHeight \in Nat /\ MaxPasses \in Nat /\ MaxFaults \in Nat

VARIABLES
    binding,           \* protocol_state.binding
    protocol_state,    \* protocol_state.state
    canonical_blocks,  \* height -> [content, before, release]
    canonical_events,  \* set of [height, content]
    canonical_objects, \* set of [key, state_seq]
    reorg_journal,     \* its latest row [disconnected, restored], as a set
    mempool_overlay,   \* set of [txid, pass]
    lock,              \* holder of the advisory lock, as a set
    op,                \* operation of each writer: "down", "none" or a name
    step,              \* its next statement
    config,            \* deployment and release it was started with
    memory,            \* its ChainState, after the block while it applies one
    loaded,            \* the ChainState its rollback read
    overlay,           \* what its replace_mempool has seen, removed and added
    views,             \* history: [txs, alone] of each mempool brought, in order
    faults

canonicalVars ==
    <<binding, protocol_state, canonical_blocks, canonical_events, canonical_objects,
      reorg_journal>>
mempoolVars == <<mempool_overlay, views>>
transactionVars == <<lock, loaded, overlay>>
vars == <<canonicalVars, mempoolVars, transactionVars, op, step, config, memory, faults>>

\* delta.before of a state that ends with the delta's block.
Before(st) == SubSeq(st, 1, Len(st) - 1)

\* One row for each object of a state.
Objects(st) ==
    {[key |-> c, state_seq |-> Cardinality({i \in DOMAIN st : st[i] = c})] :
        c \in {st[i] : i \in DOMAIN st}}

NoConfig == [deployment |-> NoBinding, release |-> NoBinding]
Untouched == [seen |-> {}, gone |-> {}, todo |-> {}, added |-> {}]

Init ==
    /\ binding = NoBinding
    /\ protocol_state = <<>>
    /\ canonical_blocks = <<>>
    /\ canonical_events = {}
    /\ canonical_objects = {}
    /\ reorg_journal = {}
    /\ mempool_overlay = {}
    /\ lock = {}
    /\ op = [w \in Writer |-> "down"]
    /\ step = [w \in Writer |-> "none"]
    /\ config = [w \in Writer |-> NoConfig]
    /\ memory = [w \in Writer |-> <<>>]
    /\ loaded = [w \in Writer |-> <<>>]
    /\ overlay = [w \in Writer |-> Untouched]
    /\ views = <<>>
    /\ faults = 0

-----------------------------------------------------------------------------
(* Transactions and their statements. *)

Goto(w, label) == step' = [step EXCEPT ![w] = label]

\* w is in operation o, at statement s.
At(w, o, s) == op[w] = o /\ step[w] = s

\* w begins operation o, whose first statement is s.
Begin(w, o, s) ==
    /\ op' = [op EXCEPT ![w] = o]
    /\ Goto(w, s)

\* The transaction of w is over: its locks are free and what it read is gone.
EndTransaction(w) ==
    /\ lock' = lock \ {w}
    /\ loaded' = [loaded EXCEPT ![w] = <<>>]
    /\ overlay' = [overlay EXCEPT ![w] = Untouched]

\* The transaction of w is over, and so is the operation.
Return(w) ==
    /\ Begin(w, "none", "none")
    /\ EndTransaction(w)

LockFree == lock = {}

\* advisory_lock, the first statement of three of the operations.
Acquire(w) ==
    /\ step[w] = "lock"
    /\ LockFree
    /\ lock' = {w}
    /\ Goto(w, "load")
    /\ UNCHANGED <<canonicalVars, mempoolVars, loaded, overlay, op, config, memory, faults>>

\* Fault: the rows of the state before are not deleted.
SyncObjectsInsertOnly(st) == canonical_objects' = canonical_objects \cup Objects(st)

\* sync_objects: every row is deleted and those of st are inserted.
SyncObjects(st) == canonical_objects' = Objects(st)

-----------------------------------------------------------------------------
(* connect and bind_or_load. *)

Start(w) ==
    /\ op[w] = "down"
    /\ \E d \in Deployment, r \in Release :
        config' = [config EXCEPT ![w] = [deployment |-> d, release |-> r]]
    /\ Begin(w, "bind", "lock")
    /\ UNCHANGED <<canonicalVars, mempoolVars, transactionVars, memory, faults>>

\* Fault: a stored binding is taken over without a comparison.
BindableAny(w) == TRUE

\* The database is empty or bound to the configured deployment.
Bindable(w) == binding \in {NoBinding, config[w].deployment}

Bind(w) ==
    /\ At(w, "bind", "load")
    /\ Bindable(w)
    /\ binding' = IF binding = NoBinding THEN config[w].deployment ELSE binding
    /\ memory' = [memory EXCEPT ![w] = protocol_state]
    /\ Return(w)
    /\ UNCHANGED <<protocol_state, canonical_blocks, canonical_events, canonical_objects,
                   reorg_journal, mempoolVars, config, faults>>

\* "database is bound to another Tandem deployment": the process ends.
BindRefused(w) ==
    /\ At(w, "bind", "load")
    /\ ~Bindable(w)
    /\ Begin(w, "down", "none")
    /\ EndTransaction(w)
    /\ config' = [config EXCEPT ![w] = NoConfig]
    /\ UNCHANGED <<canonicalVars, mempoolVars, memory, faults>>

-----------------------------------------------------------------------------
(* apply_block, and the worker's reload when it fails. *)

\* The reducer accepted a block on the writer's own state.
BeginApply(w) ==
    /\ "apply" \in Operation
    /\ op[w] = "none"
    /\ Len(memory[w]) < MaxHeight
    /\ \E c \in Content : memory' = [memory EXCEPT ![w] = Append(@, c)]
    /\ Begin(w, "apply", "lock")
    /\ UNCHANGED <<canonicalVars, mempoolVars, transactionVars, config, faults>>

\* The stored state is the one the block was reduced on.
StoredIsBefore(w) == protocol_state = Before(memory[w])

LoadForApply(w) ==
    /\ At(w, "apply", "load")
    /\ StoredIsBefore(w)
    /\ Goto(w, "commit")
    /\ UNCHANGED <<canonicalVars, mempoolVars, transactionVars, op, config, memory, faults>>

\* Fault: the block is offered again without a reload.
ApplyRefusedRetries(w) ==
    /\ At(w, "apply", "load")
    /\ ~StoredIsBefore(w)
    /\ Goto(w, "lock")
    /\ EndTransaction(w)
    /\ UNCHANGED <<canonicalVars, mempoolVars, op, config, memory, faults>>

\* "database state changed before block commit".
ApplyRefused(w) ==
    /\ At(w, "apply", "load")
    /\ ~StoredIsBefore(w)
    /\ Goto(w, "reload")
    /\ EndTransaction(w)
    /\ UNCHANGED <<canonicalVars, mempoolVars, op, config, memory, faults>>

\* load_state, or delta.before where that fails too.
Reload(w) ==
    /\ At(w, "apply", "reload")
    /\ \/ memory' = [memory EXCEPT ![w] = protocol_state] /\ UNCHANGED faults
       \/ /\ faults < MaxFaults
          /\ faults' = faults + 1
          /\ memory' = [memory EXCEPT ![w] = Before(@)]
    /\ Return(w)
    /\ UNCHANGED <<canonicalVars, mempoolVars, config>>

BlockRow(w) ==
    [content |-> memory[w][Len(memory[w])], before |-> Before(memory[w]),
     release |-> config[w].release]

\* Fault: every row gets the identity of the running release.
InsertBlockRelabels(w) ==
    canonical_blocks' = [h \in DOMAIN canonical_blocks \cup {Len(memory[w])} |->
        IF h = Len(memory[w]) THEN BlockRow(w)
        ELSE [canonical_blocks[h] EXCEPT !.release = config[w].release]]

\* The block with its roots, the release that computed them, and its inverse.
InsertBlock(w) ==
    canonical_blocks' = [h \in DOMAIN canonical_blocks \cup {Len(memory[w])} |->
        IF h = Len(memory[w]) THEN BlockRow(w) ELSE canonical_blocks[h]]

\* The inserts, sync_objects and save_state, visible once they are committed.
CommitApply(w) ==
    /\ At(w, "apply", "commit")
    /\ InsertBlock(w)
    /\ canonical_events' = canonical_events \cup
        {[height |-> Len(memory[w]), content |-> BlockRow(w).content]}
    /\ SyncObjects(memory[w])
    /\ protocol_state' = memory[w]
    /\ Return(w)
    /\ UNCHANGED <<binding, reorg_journal, mempoolVars, config, memory, faults>>

-----------------------------------------------------------------------------
(* rollback_tip. *)

\* The worker found the tip of its own state stale.
BeginRollback(w) ==
    /\ "rollback" \in Operation
    /\ op[w] = "none"
    /\ memory[w] # <<>>
    /\ Begin(w, "rollback", "lock")
    /\ UNCHANGED <<canonicalVars, mempoolVars, transactionVars, config, memory, faults>>

\* The stored state has a tip, and the journal of that height is the tip's.
Disconnectable ==
    /\ protocol_state # <<>>
    /\ Len(protocol_state) \in DOMAIN canonical_blocks
    /\ LET row == canonical_blocks[Len(protocol_state)]
       IN  Append(row.before, row.content) = protocol_state

LoadForRollback(w) ==
    /\ At(w, "rollback", "load")
    /\ Disconnectable
    /\ loaded' = [loaded EXCEPT ![w] = protocol_state]
    /\ Goto(w, "commit")
    /\ UNCHANGED <<canonicalVars, mempoolVars, lock, overlay, op, config, memory, faults>>

RollbackRefused(w) ==
    /\ At(w, "rollback", "load")
    /\ ~Disconnectable
    /\ Return(w)
    /\ UNCHANGED <<canonicalVars, mempoolVars, config, memory, faults>>

\* Fault: everything from the writer's own tip on is disconnected at once.
CommitRollbackToOwnTip(w) ==
    LET height   == IF Len(memory[w]) <= Len(loaded[w]) THEN Len(memory[w]) ELSE Len(loaded[w])
        restored == canonical_blocks[height].before
    IN  /\ At(w, "rollback", "commit")
        /\ canonical_blocks' = [h \in 1 .. (height - 1) |-> canonical_blocks[h]]
        /\ canonical_events' = {e \in canonical_events : e.height < height}
        /\ SyncObjects(restored)
        /\ protocol_state' = restored
        /\ reorg_journal' = {[disconnected |-> loaded[w], restored |-> restored]}
        /\ memory' = [memory EXCEPT ![w] = restored]
        /\ Return(w)
        /\ UNCHANGED <<binding, mempoolVars, config, faults>>

\* The row goes, its events with it (ON DELETE CASCADE), the state and its
\* objects are those of the inverse journal, and reorg_journal gets a row.
CommitRollback(w) ==
    LET height   == Len(loaded[w])
        restored == canonical_blocks[height].before
    IN  /\ At(w, "rollback", "commit")
        /\ canonical_blocks' = [h \in DOMAIN canonical_blocks \ {height} |-> canonical_blocks[h]]
        /\ canonical_events' = {e \in canonical_events : e.height # height}
        /\ SyncObjects(restored)
        /\ protocol_state' = restored
        /\ reorg_journal' = {[disconnected |-> loaded[w], restored |-> restored]}
        /\ memory' = [memory EXCEPT ![w] = restored]
        /\ Return(w)
        /\ UNCHANGED <<binding, mempoolVars, config, faults>>

-----------------------------------------------------------------------------
(* replace_mempool, which does not call advisory_lock.  Its statements only  *)
(* meet the row locks and the primary key of mempool_overlay.                *)

BeginMempool(w) ==
    /\ "mempool" \in Operation
    /\ op[w] = "none"
    /\ Len(views) < MaxPasses
    /\ \E txs \in SUBSET MempoolTx :
        /\ views' = Append(views,
            [txs |-> txs, alone |-> \A x \in Writer : op[x] # "mempool"])
        /\ overlay' = [overlay EXCEPT ![w] =
            [Untouched EXCEPT !.todo = {[txid |-> t, pass |-> Len(views) + 1] : t \in txs}]]
    /\ Begin(w, "mempool", "snapshot")
    /\ UNCHANGED <<canonicalVars, mempool_overlay, lock, loaded, config, memory, faults>>

\* DELETE starts: these are the rows it will visit.
DeleteSnapshot(w) ==
    /\ At(w, "mempool", "snapshot")
    /\ overlay' = [overlay EXCEPT ![w].seen = mempool_overlay]
    /\ Goto(w, "delete")
    /\ UNCHANGED <<canonicalVars, mempoolVars, lock, loaded, op, config, memory, faults>>

\* A row that another transaction removes is waited for, and skipped once that
\* transaction has committed.
DeleteRows(w) ==
    /\ At(w, "mempool", "delete")
    /\ \A x \in Writer \ {w} : overlay[w].seen \cap overlay[x].gone = {}
    /\ overlay' = [overlay EXCEPT ![w].gone = overlay[w].seen \cap mempool_overlay]
    /\ Goto(w, "insert")
    /\ UNCHANGED <<canonicalVars, mempoolVars, lock, loaded, op, config, memory, faults>>

SameTxid(row, rows) == \E r \in rows : r.txid = row.txid

\* An INSERT of row by w waits for x, which has inserted or removed that txid.
Awaits(w, row, x) ==
    /\ x # w
    /\ SameTxid(row, overlay[x].gone \cup overlay[x].added)

\* The primary key: a committed row of that txid that w has not removed.
Duplicate(w, row) == SameTxid(row, mempool_overlay \ overlay[w].gone)

\* Fault: an insert that is its own transaction.
InsertRowAutocommit(w) ==
    /\ At(w, "mempool", "insert")
    /\ \E row \in overlay[w].todo :
        /\ overlay' = [overlay EXCEPT ![w].todo = @ \ {row}, ![w].gone = {}]
        /\ mempool_overlay' = (mempool_overlay \ overlay[w].gone) \cup {row}
    /\ UNCHANGED <<canonicalVars, views, lock, loaded, op, step, config, memory, faults>>

InsertRow(w) ==
    /\ At(w, "mempool", "insert")
    /\ \E row \in overlay[w].todo :
        /\ \A x \in Writer : ~Awaits(w, row, x)
        /\ ~Duplicate(w, row)
        /\ overlay' = [overlay EXCEPT ![w].todo = @ \ {row}, ![w].added = @ \cup {row}]
    /\ UNCHANGED <<canonicalVars, mempoolVars, lock, loaded, op, step, config, memory, faults>>

\* The transaction of w is rolled back and replace_mempool returns the error.
AbortMempool(w) ==
    /\ Return(w)
    /\ UNCHANGED <<canonicalVars, mempoolVars, config, memory, faults>>

InsertDuplicate(w) ==
    /\ At(w, "mempool", "insert")
    /\ \E row \in overlay[w].todo :
        /\ \A x \in Writer : ~Awaits(w, row, x)
        /\ Duplicate(w, row)
    /\ AbortMempool(w)

\* Each writer of S can only wait for another of S.
WaitInCircle(S) ==
    \A x \in S :
        /\ At(x, "mempool", "insert")
        /\ overlay[x].todo # {}
        /\ \A row \in overlay[x].todo : \E y \in S : Awaits(x, row, y)

\* PostgreSQL ends one of the transactions that wait for each other.
DeadlockDetected(w) ==
    /\ \E S \in SUBSET Writer : w \in S /\ WaitInCircle(S)
    /\ AbortMempool(w)

CommitMempool(w) ==
    /\ At(w, "mempool", "insert")
    /\ overlay[w].todo = {}
    /\ mempool_overlay' = (mempool_overlay \ overlay[w].gone) \cup overlay[w].added
    /\ Return(w)
    /\ UNCHANGED <<canonicalVars, views, config, memory, faults>>

-----------------------------------------------------------------------------
(* Faults: PostgreSQL fails a statement or a commit, or the process ends.     *)

Running == {"bind", "apply", "rollback", "mempool"}

\* The transaction leaves nothing; its caller gets the error.  For bind_or_load
\* that is main, and the process ends: Crash.
StatementFails(w) ==
    /\ op[w] \in Running \ {"bind"}
    /\ step[w] # "reload"
    /\ faults < MaxFaults
    /\ faults' = faults + 1
    /\ IF op[w] = "apply" THEN Begin(w, "apply", "reload") ELSE Begin(w, "none", "none")
    /\ EndTransaction(w)
    /\ UNCHANGED <<canonicalVars, mempoolVars, config, memory>>

Crash(w) ==
    /\ op[w] # "down"
    /\ faults < MaxFaults
    /\ faults' = faults + 1
    /\ Begin(w, "down", "none")
    /\ EndTransaction(w)
    /\ config' = [config EXCEPT ![w] = NoConfig]
    /\ memory' = [memory EXCEPT ![w] = <<>>]
    /\ UNCHANGED <<canonicalVars, mempoolVars>>

\* What a writer does next inside an operation it has begun.
Progress(w) ==
    \/ Bind(w) \/ BindRefused(w)
    \/ LoadForApply(w) \/ ApplyRefused(w) \/ Reload(w) \/ CommitApply(w)
    \/ LoadForRollback(w) \/ RollbackRefused(w) \/ CommitRollback(w)
    \/ DeleteSnapshot(w) \/ DeleteRows(w) \/ InsertRow(w) \/ InsertDuplicate(w)
    \/ DeadlockDetected(w) \/ CommitMempool(w)

Next ==
    \E w \in Writer :
        \/ Start(w) \/ BeginApply(w) \/ BeginRollback(w) \/ BeginMempool(w)
        \/ Acquire(w) \/ Progress(w)
        \/ StatementFails(w) \/ Crash(w)

Spec == Init /\ [][Next]_vars

\* PostgreSQL grants a lock in the order of the requests, so a waiting writer
\* is served however often others take the lock: strong fairness of Acquire.
FairSpec ==
    /\ Spec
    /\ \A w \in Writer : WF_vars(Progress(w)) /\ SF_vars(Acquire(w))

-----------------------------------------------------------------------------
(* Properties. *)

Statement == {"none", "lock", "load", "reload", "commit", "snapshot", "delete", "insert"}
State == Seq(Content)
Config == [deployment : Deployment, release : Release] \cup {NoConfig}
Row == [content : Content, before : State, release : Release]

TablesTyped ==
    /\ binding \in Deployment \cup {NoBinding}
    /\ protocol_state \in State
    /\ \A h \in DOMAIN canonical_blocks : h \in Nat /\ canonical_blocks[h] \in Row

WritersTyped ==
    /\ lock \in SUBSET Writer
    /\ op \in [Writer -> Running \cup {"down", "none"}]
    /\ step \in [Writer -> Statement]
    /\ config \in [Writer -> Config]
    /\ memory \in [Writer -> State]
    /\ loaded \in [Writer -> State]

\* The types of the canonical tables and of the writers.
TypeOK == TablesTyped /\ WritersTyped

\* The tables apply_block and rollback_tip write agree, whatever transactions of
\* other processes ran in between and whichever of them failed: a block row for
\* each block of the stored state with the state before it as its inverse, that
\* block's event, and the objects of the stored state.
ProjectionsCoherent ==
    /\ DOMAIN canonical_blocks = 1 .. Len(protocol_state)
    /\ \A h \in DOMAIN canonical_blocks :
        /\ canonical_blocks[h].before = SubSeq(protocol_state, 1, h - 1)
        /\ canonical_blocks[h].content = protocol_state[h]
    /\ canonical_events =
        {[height |-> h, content |-> protocol_state[h]] : h \in 1 .. Len(protocol_state)}
    /\ canonical_objects = Objects(protocol_state)

\* A process that bind_or_load let through has the deployment the database is
\* bound to, so no two deployments ever write one database.
OneDeployment ==
    \A w \in Writer : op[w] \notin {"down", "bind"} => config[w].deployment = binding

\* A block row is never rewritten: a later release does not replace the
\* identity of the one that computed a height it did not disconnect.
RowsNeverRelabelled ==
    [][\A h \in DOMAIN canonical_blocks \cap DOMAIN canonical_blocks' :
        canonical_blocks'[h] = canonical_blocks[h]]_vars

\* Chain of the stored rows, as CanonicalChain has it.
StoredChain ==
    [h \in 1 .. Len(protocol_state) |->
        [hash |-> Append(canonical_blocks[h].before, canonical_blocks[h].content),
         previous_hash |-> canonical_blocks[h].before, height |-> h]]

Chain == INSTANCE CanonicalChain WITH chain <- StoredChain

\* The commits of concurrent processes are connects and disconnects of one
\* linked chain: apply_block's comparison under the lock refuses a block that
\* was reduced on a state the database has left.
WritersShareOneChain == Chain!Spec

\* A begun operation ends: lock waits, row waits and their cycles are resolved.
OperationsEnd ==
    \A w \in Writer : op[w] \in Running ~> op[w] \notin Running

\* Rows of the n-th mempool brought; before the first there are none.
OverlayOf(n) == {[txid |-> t, pass |-> n] : t \in (IF n = 0 THEN {} ELSE views[n].txs)}

\* docs/database.md: mempool replacement is serialized even if a second process
\* is started by mistake.  So the overlay is the whole of one mempool brought.
OverlayWholeAlways == \E n \in 0 .. Len(views) : mempool_overlay = OverlayOf(n)

\* As long as no two processes replace the overlay at once, it is the whole of
\* one mempool that was brought, through failures, crashes and the commits of
\* other processes.
OverlayWhole == (\A n \in DOMAIN views : views[n].alone) => OverlayWholeAlways
================================================================================
