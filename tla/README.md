# TLA+ model of the Tandem verifier

Specifications, model-checking configurations and proofs for `tandem-verifier-rs`: the reducer
that derives two-party objects from Bitcoin blocks, the worker and the store that keep a PostgreSQL
database on Bitcoin Core's chain, the endpoints that report and sign what the database holds, the start
of the service, and the command line tool.

`PROJECT.json` lists every component, run, source mapping, finding, hazard and theorem.

## The system

| Part | Code | State | Operations |
|---|---|---|---|
| Reducer | `tandem-core/src/reducer.rs` | `ChainState`: protocol status, tip, chained root, `objects`, `active` carrier index | `apply_block`, `disconnect_block` |
| Types, markers, roots | `types.rs`, `marker.rs`, `roots.rs` | none | key and witness checks, marker parsing, Merkle and chained roots |
| Ingestion worker | `tandem-verifier/src/ingest.rs` | in-memory `ChainState`, `WorkerHealth` | `run`, `run_once`, `reconcile_reorg` |
| Store | `store.rs`, `migrations/` | six tables; `protocol_state` and `canonical_blocks` are authoritative | `bind_or_load`, `load_state`, `apply_block`, `rollback_tip`, `replace_mempool` |
| Block source | `rpc.rs` | none of its own; reads Core | `status`, `best_height`, `block_hash`, `block`, `transaction_height`, `mempool` |
| API and signer | `api.rs`, `signer.rs` | none | `agreement`, `readiness` and read-only queries |
| Start, configuration, wakeups, CLI | `main.rs`, `config.rs`, `wakeup.rs`, `tandem-cli` | none | start and gate checks, timer or ZMQ, fixture checks and replay |

An object is held by a 2-of-2 carrier output. CREATE makes it, MARK and ROTATE move it to a new
carrier and advance its sequence by one, CLOSE ends it, an unmarked spend after a delay refunds it,
and every other spend of its carrier ends it as noncanonical. The worker fetches blocks by height,
reduces each in memory and commits state, roots, events and the inverse of the block in one
transaction. After a reorganization it replays inverses until the stored tip is on Core's chain. An
agreement request reads health, Core, the stored state, the stored roots and Core again, without a
common transaction, and signs.

What is hard: two maps that must move together; a block processed transaction by transaction
against a state that already contains its own earlier transactions; exact inverses over any mix of
blocks and rollbacks; u32 counters behind an `expect`; Core moving between any two calls; commits
whose answer is lost; crashes; a second process on the same database; wakeups that get lost; a
signature or a readiness answer over values read at different moments; byte lengths and tree shapes
at their boundaries; starts that fail half way.

## Modules

| Module | Models | Notes |
|---|---|---|
| `Lists` | | operators on sequences that `Ingest`, `Marker`, `Merkle` and `Startup` share |
| `Tandem` | `types.rs`, outcomes of marker tests, `block_root` | operators only |
| `Validation` | the validators of `reducer.rs` | each returns the reason of its first failing check, in the code's order |
| `Reducer` | `apply_block`, `disconnect_block`, prevout resolution | state machine and its properties |
| `MCReducer` | | transactions and funding for two runs |
| `ReducerProofs` | | TLAPS proofs about the states and the journal of `Reducer` |
| `History` | | the inductive invariant behind the event properties, and the effect of one transaction; definitions only, `EXTENDS Reducer` |
| `EventProofs` | | lemmas: effects, new blocks and rollbacks keep that invariant; `EXTENDS ReducerProofs` |
| `HistoryProofs` | | TLAPS proofs about events, carriers and object history; `EXTENDS EventProofs` |
| `CanonicalChain` | | abstract specification: a chain that changes by connecting one linked block or disconnecting its tip |
| `Ingest` | `ingest.rs`, `store.rs`, the calls of `rpc.rs` | its tables implement `CanonicalChain`, as the reducer's journal does |
| `MCIngest` | | symmetry of block contents |
| `IngestProofs` | | TLAPS proofs about `Ingest` |
| `Wakeup` | `ZmqWakeup` in `wakeup.rs`, `build_wakeup` in `main.rs`, composed with `Ingest` | `EXTENDS Ingest` |
| `Readiness` | `readiness` in `api.rs` | `EXTENDS Ingest` |
| `Agreement` | `agreement` in `api.rs` | `EXTENDS Ingest` |
| `Api` | both endpoints beside the worker, with restarts | `EXTENDS Agreement, Readiness` |
| `MCApi` | | symmetry of block contents |
| `ServiceProofs` | | TLAPS proofs about `Wakeup` and `Api`; `EXTENDS IngestProofs` |
| `Store` | `store.rs` statement by statement, with any number of processes | its tables implement `CanonicalChain` |
| `MCStore` | | symmetry of processes, contents, deployments and releases |
| `StoreProofs` | | TLAPS proofs about `Store`, the overlay included |
| `Marker` | `marker.rs` byte by byte, the fields `reducer.rs` reads, `population_namespace` | operators only |
| `Merkle` | `roots.rs` | operators only |
| `CommandLine` | `tandem-cli` | `EXTENDS Marker, Merkle` |
| `Startup` | `main.rs`, `config.rs`, loading of the signer, the database binding | |
| `Programs` | one command of `CommandLine`, or starts of `Startup` | they share no state |
| `Commitments` | | what a root reveals, read back from its term; the module of the run `programs` |
| `ProgramProofs` | | TLAPS proofs about the mainnet gate, the byte contract and markers |
| `RootProofs` | | TLAPS proofs about Merkle trees, roots, `verify-vectors` and `replay` |

### Reducer

`apply_block` runs in memory with nothing in between. The model splits it to stay readable: a Begin
action (`BeginInitBlock`, `BeginFailedInitBlock`, `BeginBlock`), one `Process...` action for each
transaction, and `FinishBlock`. While `reducing` is true no other action is enabled. Blocks that
`apply_block` rejects leave the state unchanged, so rejection is a failed guard. `Outcome` is the
branch of `process_transaction` that a transaction takes; the actions are those branches.

Bitcoin is the environment (`coins`, `mined`, `undo`): blocks spend unspent outputs once and do not
repeat transaction ids. Relative locktimes and signatures are not assumed to be checked; the
validators check them. Hashes are the terms they commit to, so they do not collide. A witness is the
shape it reveals, a marker the outcome of the tests on its bytes, a fee comparison stays arithmetic.
Block hashes contain the parent hash, so a wrong parent is representable; `Next` offers blocks with
any height and either a right or a wrong parent. A coinbase input has prevout `<<0, 0>>`.

### Ingest

One action per awaited call, and Core may change between any two. A chain is the sequence of its
block contents, so a block hash is a chain prefix. Since the reducer is deterministic and is verified
in `Reducer`, a `ChainState` here is the sequence of block views it was computed from. A view also
records whether its prevout heights were resolved on the block's own branch (`exact`).

`store.apply_block`, `rollback_tip` and `replace_mempool` are PostgreSQL transactions and therefore
atomic. Their failures are actions: refused by a check or a unique key, failed without effect
(`call`), committed with the answer lost (`apply_ack`, `rollback_ack`). `reload` is the failure of
`load_state` behind `unwrap_or(delta.before)`. `crash` restarts the process from the database.

### Agreement, Readiness, Api

An agreement request and a readiness probe read one thing after the other, each read a step between the
steps of `Ingest`. A chained root commits to all blocks below it, so a tuple's root is the state that it
closes. A probe notes each failure until the answer; `SELECT 1` reads nothing of the model, so it is part
of the step that begins the probe. `seen` is a history of Core's chains between the probe's status and
state reads. Any call of either may fail (`FailCall`, the second alternatives of the probe's reads), and
whether Core is ready (`ready_for`) is a choice. A stored `FailedInit` state only refuses, in both, so it
takes the same alternatives.

`Api` composes both with the worker, Core, faults and restarts. A request only reads and cannot affect
another, so one request at a time shows what any number of them can see.

### Wakeup

`notices` is the queue of the subscription. `ReceiveNotice` replaces the timer's `WakeUp`; every other
step of the worker is `Ingest`'s. A message can be lost, a receive can fail (then `run` sleeps a second
and makes a pass), and `missed` remembers that something outside the verifier went wrong since the worker
was last woken. `bitcoind` publishes when its tip moves to a new block, so blocks that an operator
invalidates are left to `Ingest`.

### Store

`Ingest` takes a transaction as one step, which is right for one process. `Store` takes it apart: the
lock, the read, and the commit, at which the writes appear to others. A process is the most general
caller: it reduces any block on its own state, rolls back or replaces the overlay at any time, and can
be started with any deployment and release. `lock` is the advisory lock. `replace_mempool` does not take
it, so its statements are steps of their own: `DELETE` takes a snapshot, waits for rows that another
transaction removes and skips them, `INSERT` waits for a txid another transaction has inserted or
removed, fails on a duplicate, and PostgreSQL ends one of a circle of waiting transactions
(`READ COMMITTED`, modelled from its documented behaviour, marked external in the map). A state is the
sequence of its block contents; a block has one event and touches one object. `reorg_journal` is only
appended to and read by one endpoint, so the model keeps its latest row. `views` is a history: the mempool
each replacement was given, and whether it ran `alone`.

### Marker, Merkle, CommandLine

A script of `Marker` is one of the four push encodings of a declared length, and a body of its own length.
`find_marker_candidate` and `parse` are the two functions of `marker.rs`; `Option` is a set with at most one
element. In `Merkle` a digest is the tuple of its domain and inputs, so equal digests mean equal preimages; the fields
of an object that its leaf always copies are one component. The
loop of `merkle` is a recursive function of the number of its turns, and `sort_by_key` puts each element
at its rank: one more than the number of elements with a smaller key, or with the same key and in front of it.

`CommandLine` is one run of one command, from any input to a report or an error. `verify-vectors` takes the
script of its fixture through `DetectMarker` and `ParseMarker`, and `replay` takes the events and objects of
each block, in any order, through the roots of `Merkle`; so the properties of markers and roots are stated
there. Comparisons of a digest with a value of the same file are one fact of the input. Kept in full: the
loop over the locked files, the loop over adjacent Merkle levels with its width check and padding, the
choice of the root, and the comparison of expected roots by index. One marker and one of the two trees of a
fixture stand for the list and for both.

### Startup

`stage` is the check `main` is at, in the code's order. `args` holds the arguments with the files they
name; `binding` is the row of `protocol_state`, which outlives the process. A specification is a text
over the bytes its contract mentions, and its digest is the text; an approver is a name, padded or not.
`Programs` checks `Startup` and `CommandLine` in one run: a behaviour belongs to one or to the other.

## Runs

| Run | Shows | Bounds |
|---|---|---|
| `lifecycle` | index, events, counters, refund delay, phase, journal and object history agree; refinement of `CanonicalChain` | 7 heights, 2 transactions per block, one object with valid and invalid variants of each operation, `U32_MAX` = 3 |
| `pair` | no carrier spend goes unnoticed; event keys are unique | two objects, 5 heights, joint spends, several markers |
| `ingest_store` | tables agree with each other and with memory; refinement of `CanonicalChain` | 3 heights, 1 reorganization, 1 lower best height, 3 faults of any kind |
| `ingest_sync` | success means synced, rollback is minimal, catch-up happens, readiness returns once INIT stays on Core's chain | as above, 2 faults: failing call, unacknowledged block commit, crash |
| `wakeup_notices` | no wakeup is lost inside the verifier; messages alone suffice | 3 heights, 1 reorganization, 2 faults, lost messages included |
| `api` | a tuple is signed only while it is true of Core's chain; a ready answer read a chain that was Core's | 3 heights, 1 reorganization, 1 lost rollback answer or crash, Core's height does not go down |
| `store_writers` | tables coherent, one deployment, rows keep their release, one chain | 2 processes, 2 deployments, 2 releases, 3 heights, 2 faults |
| `store_operations` | begun operations end; the overlay is one mempool unless replacements overlapped | 2 processes, 2 unconfirmed transactions, 2 replacements, 1 fault |
| `programs` | exactly canonical scripts parse, no read out of range, namespaces agree; roots determine the sorted leaves, two Merkle programs agree, replay reports what was expected; mainnet needs two people, the byte contract is exact | 18 lengths and 7 opcode bytes; 5 leaves, 4 levels, 3 files or blocks, 5 events, 4 objects; 2 names, 2 approvers, texts of 4 bytes, any number of starts |
| `lost_rollback` | violation: see Findings | 2 heights |
| `late_resolution` | violation: see Findings | 4 heights, 2 reorganizations |
| `store_overlay_race` | violation: see Findings | 2 processes, 2 replacements |

Protocol constants are scaled down (`REFUND_DELAY` 2, `FOUNDING_WINDOW` 1, `INIT_LEAD` 1) so that
both sides of every boundary occur within the heights explored. Reducer transactions form a fixed
set per run, with spends that build on each other; every subset and order that Bitcoin allows is
explored. Two objects suffice for the reducer's cross-object questions because the code only ever
relates the carriers spent by one transaction. Three heights with one reorganization give the worker
a fork below its tip, above it and at INIT, with a fault before, during and after the rollback.
Two processes suffice for the store because the lock makes every conflict one between its holder and
another, and a circle of row waits needs two. Five leaves give trees with an odd level at the bottom,
one above it, and none. The lengths of `programs` are both sides of 4, 7, 75, 80
and 255, and those of the five operations.

Three bounds leave out what the code does not promise:

- `ingest_sync` leaves out the `reload` fault. When the answer to the commit of the INIT block is lost and
  `load_state` fails too, memory falls back to the state before the block (`ingest.rs`, line 127). While
  INIT is off Core's chain, `reconcile_reorg` sees no tip in memory, a pass succeeds and the stored block
  stays: with `reload` among its faults the run violates `HealthyMeansSynced`. `ingest_store` includes it.
- `ingest_sync` also leaves out `rollback_ack`, the subject of `lost_rollback`.
- `api` has `MaxInvalidations = 0`. Both endpoints compare the stored tip with Core by height only
  (`api.rs`, lines 103 and 204). Where Core's height may go down and come back, a probe can answer ready
  for a state that is on no chain Core had meanwhile (`ReadyMeansHeld` fails with `MaxInvalidations = 1`),
  also one whose INIT block Core has replaced.

Deadlock checking is on, except where the system may stop: a command is finished (`programs`), and a worker
without a timer waits for a message that need not come (`wakeup_notices`).

Symmetry is used only for safety; runs that check liveness do not use it. `store_writers` checks
`RowsNeverRelabelled` and `WritersShareOneChain`, and `api` `SignsCoresChain`, which constrain single steps.

**Fairness.** `FairSpec` assumes weak fairness of the worker's own steps taken together: the timer
fires again and again and awaited calls return. Core is not assumed to do anything. Faults are bounded
by `MaxFaults` and reorganizations by `MaxReorgs`, so the liveness property says: after the last
fault and the last reorganization, the database reaches Core's chain and stays there.
`ZmqFairSpec` replaces the timer by the queue: a queued message is received and calls return, and Core
need not publish. `FairSpec` of `Store` has weak fairness of each process inside an operation it has
begun, and strong fairness of taking the advisory lock, because PostgreSQL grants it in the order of the
requests.

## Findings

- **Unacknowledged rollback of the INIT block** (`lost_rollback`). When the answer to the commit in
  `rollback_tip` is lost, `reconcile_reorg` returns with the old state still in memory. One block
  later in the chain this repairs itself, because the next rollback replaces memory by the stored
  state. If the rolled back block was the first, the database has no tip, `rollback_tip` returns
  `None`, and every later pass fails. A restart recovers. `docs/runbook.md` asks the operator to stop
  the process when a rollback fails; nothing in the worker does.
- **Prevout heights resolved late** (`late_resolution`). The block is fetched by hash, its prevouts
  from whatever chain is active afterwards. If Core leaves the branch and returns, the stored block
  matches Core but was reduced with other heights.
- **Overlay of two mempools** (`store_overlay_race`). `replace_mempool` does not take the advisory lock
  that `docs/database.md` says every write path takes. With two processes, each deletes before the other
  commits, and the overlay ends with rows of both. `store_operations` shows it
  whole while no two replacements overlap; the same document calls a second process a mistake.

Three more places where the code is narrower than its description, without a run of their own:

- `agreement` signs a lower height while the stored tip is another block than Core's at the same height
  (`docs/agreement.md` lists a differing tip among the refusals). The signed tuple is right (`api`).
- With ZMQ configured a failed pass waits for the next message like any other, so external failures are
  retried only when Core publishes a block. With the timer they are retried (`CatchesUp`, `ReadyAgain`).
- `verify-vectors` checks each declared Merkle level against the next, but neither the first against the
  verified leaves nor that the last has one hash, so `AcceptedRootIsMerkle` assumes both. The published
  fixture is pinned by its digest.

## Proofs

The theorems hold for every value of the constants that satisfies the named assumptions. The reducer's are
about any transactions, block sizes, heights and protocol parameters (`ParameterAssumption`,
`BitcoinAssumption`), the worker's about any chain length and any number of reorganizations and faults
(`IngestAssumption`), the store's about any sets of processes, deployments, releases and contents
(`StoreAssumption`), the start's about any names and bounds (`StartupAssumption`), those about markers about
any payload lengths below 65,536 and any opcode bytes (`MarkerAssumption`), those about roots about levels,
event lists, object lists and replays of any length (`CommandLineAssumption`).

A leaf that names no prover is tried with SMT, with Zenon, and with SMT again with more time (the `USE` at the
head of each module): in a long run the SMT translation of a leaf, easy or not, now and then exceeds its limit.

| Module | Theorem | Statement |
|---|---|---|
| `ReducerProofs` | `ReducerInvariant` | `Spec => []ReducerInv` |
| | `TypeCorrectness` | `Spec => []TypeOK` |
| | `IndexCorrectness` | `Spec => []ActiveIndexCoherent` |
| | `ChapterCorrectness` | `Spec => []ChapterCountBounded` |
| | `PhaseCorrectness` | `Spec => []ObjectsOnlyAfterOpen` |
| | `JournalCorrectness` | `Spec => []JournalLinked` |
| | `BranchRefinement` | `Spec => BranchIsCanonical` |
| `HistoryProofs` | `EventInvariant` | `Spec => []EventInv` |
| | `CarriersUnspent` | `Spec => []CarrierUnspent` |
| | `OperationsPerBlock` | `Spec => []OneOperationPerBlock` |
| | `EventsKeyed` | `Spec => []EventKeysUnique` |
| | `RefundsAreMature` | `Spec => []RefundAfterDelay` |
| | `EventsDetermineObjects` | `Spec => []EventsExplainObjects` |
| | `ObjectsAdvance` | `Spec => ObjectsOnlyAdvance` |
| `IngestProofs` | `StoreStaysCoherent` | `Spec => []StoreCoherent` |
| | `MemoryOnOneBranch` | `Spec => []OneBranch` |
| | `StoreRefinement` | `Spec => StoredIsCanonical` |
| | `SuccessMeansSynced` | `MemoryIsStored` implies `Spec => []HealthyMeansSynced` |
| | `RollbackStopsAtAncestor` | `MemoryIsStored` implies `Spec => DisconnectsOnlyStale` |
| `ServiceProofs` | `NoLostWakeup` | `MemoryIsStored` implies `ZmqSpec => []AsleepMeansSynced` |
| | `SignaturesAreOfCore` | `ApiSpec => SignsCoresChain` |
| | `ReadyIsHeld` | `MaxInvalidations = 0` implies `ApiSpec => []ReadyMeansHeld` |
| `StoreProofs` | `StoreInvariant` | `Spec => []StoreInv` |
| | `StoreCoherence` | `Spec => []ProjectionsCoherent` |
| | `DatabaseOfOneDeployment` | `Spec => []OneDeployment` |
| | `ReleasesStay` | `Spec => RowsNeverRelabelled` |
| | `WritersRefineChain` | `Spec => WritersShareOneChain` |
| | `OverlayOfOneMempool` | `Spec => []OverlayWhole` |
| `ProgramProofs` | `MainnetGateHolds` | `StartupSpec => []MainnetNeedsTwoPeople` |
| | `SpecTextsCanonical` | `StartupSpec => []SpecContractExact` |
| | `CanonicalScriptsParse` | `ProgramsSpec => []ParsesExactlyCanonical` |
| | `FieldAccessInBounds` | `ProgramsSpec => []FieldsWithinPayload` |
| | `NamespaceReadingsAgree` | `ProgramsSpec => []NamespacesAgree` |
| `RootProofs` | `MerkleProgramsAgree` | `ProgramsSpec => []AcceptedRootIsMerkle` |
| | `ReplayReportsExpected` | `ProgramsSpec => []ReplayMatchesExpected` |
| | `MerkleCommits` | lists with the same `merkle` root have the same leaves, if no leaf is an inner node |
| | `EventRootInjective` | lists with the same `event_root` hold the same events |
| | `ObjectRootInjective` | lists with the same `object_state_root` have the same snapshot |
| | `ChainedRootCommits` | replays with the same last chained root agree on every height |

Three hypotheses restrict what is claimed:

- `MemoryIsStored` says that neither the answer to a rollback's commit is lost (`rollback_ack`) nor the
  reload after a failed commit fails (`reload`). With either fault memory can differ from the database, and
  the properties really fail: see the bounds of `ingest_sync` and the finding `lost_rollback`. All other
  faults, crashes included, are covered. The three theorems about the store do not need it.
- `MaxInvalidations = 0` says that Core's height never goes down. The probe compares heights only, and
  `ReadyMeansHeld` fails without it (see the bounds of `api`).
- `ParameterAssumption` has `INIT_LEAD` at least 1; the code's constant is 1,008. The INIT
  transaction is the only one whose carrier spends are not looked at; with a lead of 0 it could spend,
  unnoticed, a carrier created earlier in its own block.

### The reducer

No state property of the reducer but `ReducerInv` is inductive. Index coherence survives a CREATE, MARK or ROTATE only if the new
carrier is not indexed already, which holds because every indexed carrier comes from a confirmed
transaction and the transaction being processed is not confirmed yet (`KnownTo`, `PendingFresh`).
It survives a rollback only if the restored state is itself coherent with what was confirmed *then*,
so `Sound` is kept for every entry of the journal with the matching entry of `undo` (`StacksOK`).
The chapter bound needs the u32 check on the sequence that `SequenceFailure` makes before either
counter moves. The proof has one lemma per change of state (`TerminateSound`, `InsertSound`,
`MoveSound`, `SetSequenceSound`, `CreateSound`), one per validator fact that an action relies on, and
one per action.

`JournalLinked` needs `LinkInv`: while a block is being reduced, the block already extends the tip
of the saved clone, and between blocks the clone equals the state. `LinkInvariant` proves it on top
of `ReducerInvariant`. For the refinement, `FinishBlock` maps to `Connect`, `DisconnectBlock` to
`Disconnect`, and every other action leaves the journal alone.

The properties of events need a relation between four things at once: objects, unspent outputs, confirmed
transactions and the events of the branch. `Level` states it for one point of the branch: an active object's
carrier is unspent, has the right value and keys, and is no older than the object's last event; every object
is what its last event left; each event but the first continues an earlier one; the MARKs are in
bijection with `1 .. chapter_count`; refunds are mature. `EventInv` keeps `Level` for the current state and `Snapshot` (`Level`,
and no event above the tip) for the clone and for every state a rollback may restore. It also says that the
block's inputs carry the outputs they spend (`ResolvedOK`), and that the INIT block itself creates nothing.
`Effect` describes what one transaction does, for all of its carriers and markers; the lemmas of
`EventProofs` show that an effect keeps each conjunct, those of `HistoryProofs` that every processing action
has such an effect. These definitions are in `History`. An exit event's `sub_index` is the rank of its object among the ones the transaction spends;
that ranks differ (`RanksDistinct`) follows from the finiteness of a transaction.
The five state properties follow from `EventInv`, `ObjectsAdvance` from the effect alone.

### The worker, wakeups and the API

`StoreInv` of `IngestProofs` holds under all faults. `Grown` says that a ChainState consists of the blocks of one
branch from its INIT on; memory and store are comparable by prefix, one block apart during a
commit. From it follow coherence, one branch, and the refinement, in which only a commit or a
rollback that reaches the database is a step of `CanonicalChain`.

`PassInv` adds, under `MemoryIsStored`, that memory is the stored state outside a commit, and what each stage of
a pass knows while Core stands still (`calm`): the height it read is Core's, the tip it is about to
disconnect is off Core's chain, the next block extends a prefix of it.

`WakeInv` adds that a queued message, or a lost one or a failed call, accounts for every change the current pass
has not seen. `RequestInv` says that roots read from one row are of one branch and stay so after any rollback.
Only `SignTuple` signs, and the hash it compares with Core makes that branch Core's (`SignsCoresChain`), although the stored
tip was compared by height only.
For the probe, `HeightInv` says that every hash held anywhere is no longer than Core's chain and equal to it at
the same length. `ProbeInv` carries this from the read of Core's height to the read of the state.

### The store

`ProjectionsCoherent` is not inductive: a commit relies on a comparison made an earlier step ago.
`StoreInv` adds that only the holder of the lock is past its first statement (`LockInv`), and that what
the holder has read is still what is stored (`ReadInv`): the state before its block, or the state its
rollback loaded. `WriterInv` says which statements an operation has. One lemma per action and conjunct
then gives `StoreInvariant`, and the refinement maps `CommitApply` to `Connect`, `CommitRollback` to
`Disconnect` and every other step to a stutter.

The overlay is written without the lock. `OverlayInv` says that, as long as no two replacements overlapped, at
most one is under way, the committed rows are one mempool, the replacement has visited all of
them, and what it inserted and has still to insert is the mempool it was given.

### The start

For the mainnet gate, `StartupInv` adds that a start past the gate is signed off, and that its binding is
among the authorized ones, from the gate until the process ends. That a set of trimmed names with two
elements means two different people is `ApproversAreTwo`, from the cardinality theorems.

`SpecBytesContract` shows for a text of any length that the six tests of `verify_spec_bytes` amount to the
contract. The step that is not obvious is the split into lines (`BlanksMean`): a blank before an LF is the last
byte of the piece that begins at the largest cut before it, which exists by well-foundedness of the
natural numbers (`LargestElement`).

### Markers

`MarkerInv` says that what a run of `verify-vectors` holds is what `find_marker_candidate` and `parse` return for
its script, and that it has ended if one returned nothing. The three theorems then are about these functions. In
one direction, each push encoding of a length is decoded to that length and is minimal only if it is the shortest,
so a script that parses is the `Encode` of its payload; in the other, an encoded payload of legal length passes
each test. The reads of a field stay inside because `parse` compares the length with that of the opcode.

### Roots

Merkle trees are lists of levels. The loop of `merkle` stops with one hash after at most as many turns as there are
leaves (`LevelsEndInMerkle`), so levels that follow each other and end in one hash end in the root. `LevelInv`
adds that the levels `verify-vectors` has passed follow each other. `ReplayInv` says that the roots derived so far are
those `ReplayRoots` has at the same places, and that each was compared with the one expected there.

`MerkleCommits` descends two trees from the shared root at once: nodes that are equal have equal children, so the sets of
hashes of corresponding levels agree (`TreesAgree`), and the trees have the same height because a leaf is not a node. The
last hash of an odd level is repeated, so a root determines the set of its leaves and not how often the last one occurs;
a leaf holds its event's position or its object's key. Sorting is a bijection of places: ranks differ and none exceeds the length
(`RanksNumber`), so each place has exactly one element (`SortedMeans`) and sorting keeps the set of elements. With
the domains of leaves, nodes and empty lists apart, the event and object roots are injective, and from the last
chained root back to the first so is the chain.

These proofs use induction over a set of numbers (`SetInduction`, from well-foundedness) with the hypothesis as a set,
because the library's induction theorems take an operator that the provers do not instantiate.

### Only model-checked

- Liveness (`CatchesUp`, `ReadyAgain`, `NoticesSuffice`, `OperationsEnd`): outside what TLAPS proves here.
- `EventRootCommits` and `ObjectRootCommits`: they read the ordered leaves back from a root with a recursive operator, beside
  which TLAPS proves nothing. `EventRootInjective` and `ObjectRootInjective` prove for lists of any length that
  the roots determine their leaves; that the leaves are in ascending order within the root is left to the run.

## Not modelled

- ECDSA, Ed25519, SHA256, JCS, JSON, hex, SQL text, HTTP: pure conversions or I/O, abstracted to their
  outcomes. Digests are free terms, so a collision is not represented.
- The read endpoints other than readiness and agreement: one `SELECT` each (`stats` three), which change no
  state and decide nothing. The three reads of `stats` may see different blocks; nothing documents that
  they belong together.
- The formats of URLs, commits, key ids and credentials in `config.rs`: one fact of the arguments.
- `schema` and identifier comparisons of the CLI: one fact of the input each.
- Fuzz targets and tests: they drive the functions above and hold no state.
