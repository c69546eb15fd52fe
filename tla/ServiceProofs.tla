---------------------------- MODULE ServiceProofs -----------------------------
(***************************************************************************)
(* What runs around the worker's passes, for every chain length, any number*)
(* of reorganizations and any failures: the ZMQ wakeup loses no change of  *)
(* Core's chain, a signed tuple is of one branch, and a ready answer means *)
(* what it says.                                                           *)
(***************************************************************************)
EXTENDS Wakeup, Api, IngestProofs

\* The provers of a leaf that names none, in this order.
USE SMT, Zenon, SMTT(30)

-----------------------------------------------------------------------------
(* Wakeups. *)

\* A message in the queue or an accident accounts for every change of Core's
\* chain, and every error, that the pass under way has not seen.
WakeInv ==
    /\ notices \in Nat
    /\ notices = 0 /\ ~missed /\ pc \notin {"run", "status", "best_height"} =>
        /\ calm
        /\ pc # "reload"
        /\ pc = "wait" => ~health.last_error

-----------------------------------------------------------------------------
\* A stored state can be rolled back as long as it has a tip.
LEMMA TipHasRow ==
    ASSUME StoreInv, protocol_state # <<>>
    PROVE  Rollbackable
  <1>1. /\ Last(protocol_state) = protocol_state[Len(protocol_state)]
        /\ Len(protocol_state) \in DOMAIN protocol_state
    BY GrownTypes DEF StoreInv
  <1> DEFINE i == Len(protocol_state)
  <1>2. TipHeight(protocol_state) = Len(protocol_state[i].hash) BY <1>1 DEF TipHeight
  <1>3. /\ Len(protocol_state[i].hash) \in DOMAIN canonical_blocks
        /\ canonical_blocks[Len(protocol_state[i].hash)] =
                [block |-> protocol_state[i], before |-> SubSeq(protocol_state, 1, i - 1)]
    BY <1>1 DEF StoreInv, StoreCoherent
  <1> QED BY <1>1, <1>2, <1>3 DEF Rollbackable

\* The block above the stored tip meets no row of its height or hash.
LEMMA NextBlockCommittable ==
    ASSUME StoreInv, state # <<>>, Front(state) = protocol_state
    PROVE  Committable(Front(state), Last(state))
  <1> DEFINE n == Len(state)
             v == Last(state)
  <1>1. /\ state \in Seq(View) /\ n \in Nat /\ n > 0 /\ v = state[n]
    BY GrownTypes DEF StoreInv
  <1>2. /\ Len(protocol_state) = n - 1
        /\ \A i \in 1..(n - 1) : protocol_state[i] = state[i]
    BY <1>1, FrontAndLast
  <1>3. DOMAIN protocol_state = 1..(n - 1) BY <1>2, GrownTypes DEF StoreInv
  <1>4. \A i \in 1..(n - 1) : Len(state[i].hash) # Len(v.hash)
    <2> SUFFICES ASSUME NEW i \in 1..(n - 1) PROVE Len(state[i].hash) # Len(v.hash)
      OBVIOUS
    <2>1. i \in 1..n /\ n \in 1..n BY <1>1
    <2>2. Len(state[i].hash) = Len(state[1].hash) + i - 1 /\ Len(v.hash) = Len(state[1].hash) + n - 1
      BY <1>1, <2>1 DEF StoreInv, Grown
    <2>3. Len(state[1].hash) \in Nat BY <1>1, GrownTypes DEF StoreInv
    <2> QED BY <1>1, <2>2, <2>3
  <1> HIDE DEF n, v
  <1>5. DOMAIN canonical_blocks = {Len(protocol_state[i].hash) : i \in 1..(n - 1)}
    BY <1>3 DEF StoreInv, StoreCoherent
  <1>6. \A i \in 1..(n - 1) : canonical_blocks[Len(protocol_state[i].hash)].block = protocol_state[i]
    <2> SUFFICES ASSUME NEW i \in 1..(n - 1)
                 PROVE  canonical_blocks[Len(protocol_state[i].hash)].block = protocol_state[i]
      OBVIOUS
    <2>1. canonical_blocks[Len(protocol_state[i].hash)] =
              [block |-> protocol_state[i], before |-> SubSeq(protocol_state, 1, i - 1)]
      BY <1>3 DEF StoreInv, StoreCoherent
    <2> QED BY <2>1
  <1>7. \A h \in DOMAIN canonical_blocks :
            h # Len(v.hash) /\ canonical_blocks[h].block.hash # v.hash
    BY <1>2, <1>4, <1>5, <1>6
  <1> QED BY <1>7 DEF Committable, v

\* While Core stands still and no call fails, no check of the pass fails.
LEMMA CalmPassSucceeds ==
    ASSUME StoreInv, PassInv, WorkerNext, calm,
           pc \notin {"wait", "run", "status", "best_height", "reload"}
    PROVE  calm' /\ pc' # "reload" /\ (pc' = "wait" => ~health'.last_error)
  <1> USE DEF coreVars, Goto
  <1>1. CASE \/ WakeUp \/ StartPass \/ CheckReady \/ ReadBestHeight \/ ReloadState
    BY <1>1, Zenon DEF WakeUp, StartPass, CheckReady, ReadBestHeight, ReloadState
  <1>2. CASE ReconcileNothing \/ ReconcileMatch \/ ReconcileMismatch
    BY <1>2, ZenonT(30) DEF ReconcileNothing, ReconcileMatch, ReconcileMismatch
  <1>3. CASE ReconcileOutOfRange
    BY <1>3, GrownTypes, PrefixIsBlockHash DEF ReconcileOutOfRange, PassInv, StoreInv
  <1>4. CASE RollbackTip BY <1>4 DEF RollbackTip
  <1>5. CASE RollbackRefused BY <1>5, TipHasRow DEF RollbackRefused, PassInv
  <1>6. CASE FindInit \/ CatchUpDone \/ ReadMempool BY <1>6, ZenonT(30) DEF FindInit, CatchUpDone, ReadMempool
  <1>7. CASE FetchBlock BY <1>7 DEF FetchBlock, PassInv
  <1>8. CASE ResolveAndReduce
    <2> DEFINE v == [hash |-> view, exact |-> IsPrefix(Front(view), core)]
    <2>1. /\ core \in Branch /\ height \in 0..Len(core) /\ height > 0
          /\ view = BlockHash(core, height) /\ Following
      BY <1>8, PrefixIsBlockHash DEF ResolveAndReduce, PassInv, StoreInv
    <2>2. Len(view) = height /\ view[height] = core[height] /\ Front(view) = BlockHash(core, height - 1)
      BY <2>1, BlockHashes
    <2>3. CASE state = <<>>
      <3>1. core[height] = "INIT" BY <2>1, <2>3, InitHeightInRange DEF Following
      <3> QED BY <1>8, <2>2, <2>3, <3>1 DEF ResolveAndReduce, Accepts, Last
    <2>4. CASE state # <<>>
      <3>1. Last(state).hash \in Branch /\ Len(Last(state).hash) \in Nat
        BY <2>4, GrownTypes DEF StoreInv, TipHeight
      <3>2. BlockHash(core, Len(Last(state).hash)) = Last(state).hash
        BY <2>1, <2>4, <3>1, PrefixIsBlockHash DEF Following
      <3>3. Len(Last(state).hash) = height - 1 BY <2>1, <2>4, <3>1 DEF Following, TipHeight
      <3> QED BY <1>8, <2>2, <2>4, <3>2, <3>3 DEF ResolveAndReduce, Accepts
    <2> QED BY <2>3, <2>4
  <1>9. CASE CommitBlock BY <1>9 DEF CommitBlock
  <1>10. CASE CommitRefused
    BY <1>10, NextBlockCommittable DEF CommitRefused, PassInv, StoreInv
  <1>11. CASE ReplaceMempool BY <1>11 DEF ReplaceMempool, EndPass
  <1> QED BY <1>1, <1>2, <1>3, <1>4, <1>5, <1>6, <1>7, <1>8, <1>9, <1>10, <1>11 DEF WorkerNext

-----------------------------------------------------------------------------
\* The steps of the ZMQ worker keep what the timer's worker keeps.
LEMMA ZmqKeepsIngest ==
    ASSUME MemoryIsStored, StoreInv, PassInv, [ZmqNext]_zmqVars
    PROVE  StoreInv' /\ PassInv'
  <1>1. CASE LoseNotice \/ UNCHANGED zmqVars
    <2>1. UNCHANGED <<core, calm, pc, state, passVars, health, storeVars>>
      BY <1>1 DEF LoseNotice, zmqVars, vars, coreVars
    <2>2. StoreInv' BY <2>1, FrameKeepsStoreInv DEF passVars, storeVars, StoreInv
    <2>3. PassInv' BY <2>1 DEF passVars, storeVars, PassInv, Following, Synced
    <2> QED BY <2>2, <2>3
  <1>2. CASE ReceiveFails
    <2>1. StoreInv'
      BY <1>2, FrameKeepsStoreInv DEF ReceiveFails, Goto, passVars, storeVars, StoreInv
    <2>2. PassInv' BY <1>2 DEF ReceiveFails, Goto, passVars, storeVars, PassInv
    <2> QED BY <2>1, <2>2
  <1>3. CASE Publish
    BY <1>3, CoreKeepsStoreInv, CoreKeepsPassInv DEF Publish, CoreNext
  <1>4. CASE ReceiveNotice \/ PassStep
    BY <1>4, WorkerKeepsStoreInv, WorkerKeepsPassInv DEF ReceiveNotice, PassStep, WorkerNext
  <1>5. CASE PassFault \/ RestartSubscribed
    BY <1>5, FaultKeepsStoreInv, FaultKeepsPassInv DEF PassFault, RestartSubscribed
  <1> QED BY <1>1, <1>2, <1>3, <1>4, <1>5 DEF ZmqNext, ZmqWorkerNext

\* A change of Core's chain leaves a message, or counts as missed.
LEMMA ZmqKeepsWakeInv ==
    ASSUME StoreInv, PassInv, WakeInv, [ZmqNext]_zmqVars
    PROVE  WakeInv'
  <1>1. CASE Publish BY <1>1 DEF Publish, WakeInv
  <1>2. CASE LoseNotice BY <1>2 DEF LoseNotice, WakeInv
  <1>3. CASE ReceiveNotice BY <1>3 DEF ReceiveNotice, WakeUp, Goto, WakeInv
  <1>4. CASE ReceiveFails BY <1>4 DEF ReceiveFails, Goto, WakeInv
  <1>5. CASE PassFault BY <1>5 DEF PassFault, WakeInv
  <1>6. CASE RestartSubscribed BY <1>6 DEF RestartSubscribed, Restart, Goto, WakeInv
  <1>7. CASE PassStep
    <2>1. WorkerNext /\ pc # "wait" /\ notices' = notices /\ missed' = missed
      BY <1>7 DEF PassStep
    <2> SUFFICES ASSUME notices = 0, ~missed, pc' \notin {"run", "status", "best_height"}
                 PROVE  calm' /\ pc' # "reload" /\ (pc' = "wait" => ~health'.last_error)
      BY <2>1 DEF WakeInv
    <2>2. CASE pc \in {"run", "status", "best_height"}
      <3>1. ReadBestHeight
        BY <2>1, <2>2, ZenonT(30) DEF WorkerNext, WakeUp, StartPass, CheckReady, ReconcileNothing,
              ReconcileMatch, ReconcileMismatch, ReconcileOutOfRange, RollbackTip, RollbackRefused,
              FindInit, CatchUpDone, FetchBlock, ResolveAndReduce, CommitBlock, CommitRefused,
              ReloadState, ReadMempool, ReplaceMempool, Goto
      <3> QED BY <3>1 DEF ReadBestHeight, Goto
    <2>3. CASE pc \notin {"run", "status", "best_height"}
      BY <2>1, <2>3, CalmPassSucceeds DEF WakeInv
    <2> QED BY <2>2, <2>3
  <1>8. CASE UNCHANGED zmqVars BY <1>8 DEF zmqVars, vars, coreVars, WakeInv
  <1> QED BY <1>1, <1>2, <1>3, <1>4, <1>5, <1>6, <1>7, <1>8 DEF ZmqNext, ZmqWorkerNext

\* A worker asleep on an empty queue has stored Core's chain, unless a message
\* was lost or a call failed since it was last woken: no order of passes and
\* messages loses a wakeup inside the verifier.
THEOREM NoLostWakeup ==
    ASSUME MemoryIsStored
    PROVE  ZmqSpec => []AsleepMeansSynced
  <1> DEFINE Inv == StoreInv /\ PassInv /\ WakeInv
  <1>1. ZmqInit => Inv
    <2>1. ZmqInit => Init BY DEF ZmqInit
    <2>2. Init => PassInv BY DEF Init, PassInv
    <2>3. ZmqInit => WakeInv BY DEF ZmqInit, Init, WakeInv
    <2> QED BY <2>1, <2>2, <2>3, StoreInvInit
  <1>2. Inv /\ [ZmqNext]_zmqVars => Inv'
    BY ZmqKeepsIngest, ZmqKeepsWakeInv
  <1>3. Inv => AsleepMeansSynced
    BY DEF PassInv, WakeInv, AsleepMeansSynced
  <1> QED BY <1>1, <1>2, <1>3, PTL DEF ZmqSpec

-----------------------------------------------------------------------------
(* Endpoints. *)

\* The hashes the verifier knows of: what it fetches, holds and has stored.
KnownHashes ==
    {view} \cup {state[i].hash : i \in DOMAIN state}
           \cup {protocol_state[i].hash : i \in DOMAIN protocol_state}

Budget == [reorgs : Nat, invalidations : Nat, faults : Nat]

RequestRecord ==
    [pc : {"none", "worker", "status", "state", "roots", "hash", "signed"},
     height : Nat, blocks : Nat,
     roots : {<<>>} \cup [block_hash : Branch, chained_root : Seq(View)]]

ProbeRecord ==
    [pc : {"none", "status", "state", "worker", "answered"}, failed : BOOLEAN,
     blocks : Nat, stored : Seq(View), ready : BOOLEAN]

\* A tuple read from the store is of one branch, and stays so.
RequestInv ==
    /\ request \in RequestRecord
    /\ request.pc \in {"hash", "signed"} =>
        Hashes(request.roots.chained_root) = CanonicalHashes(request.roots.block_hash)

\* Where Core's height never goes down, a known hash as long as Core's chain is
\* Core's chain.
HeightInv ==
    /\ budget \in Budget
    /\ \A h \in KnownHashes : Len(h) <= Len(core) /\ (Len(h) = Len(core) => h = core)

\* The hash h is that of a block, at the height the probe read from Core, of a
\* chain that was Core's since.
SeenAtHeight(h) == \E c \in seen : probe.blocks <= Len(c) /\ BlockHash(c, probe.blocks) = h

\* From the status read on, every known hash of the height read is of a chain
\* that was Core's since; so is the tip of the state the probe loads.
ProbeInv ==
    /\ probe \in ProbeRecord
    /\ probe.pc = "state" =>
        /\ core \in seen
        /\ ~probe.failed => \A h \in KnownHashes : Len(h) = probe.blocks => SeenAtHeight(h)
    /\ probe.pc \in {"worker", "answered"} /\ ~probe.failed =>
        /\ Grown(probe.stored)
        /\ probe.stored # <<>>
        /\ TipHeight(probe.stored) = probe.blocks => SeenAtHeight(Last(probe.stored).hash)
    /\ probe.pc = "answered" /\ probe.ready =>
        ~probe.failed /\ TipHeight(probe.stored) = probe.blocks

-----------------------------------------------------------------------------
(* Signed tuples. *)

\* The worker and the store run as in Ingest, whatever the requests do.
LEMMA ApiRunsIngest == ApiSpec => Spec
  <1>1. ApiInit => Init BY DEF ApiInit
  <1>2. [ApiNext]_apiVars => [Next]_vars
    BY Zenon DEF ApiNext, apiVars, Requests, Probes, Works, RestartServer, Next, RequestNext, ProbeNext,
           Ask, CheckWorker, ReadStatus, CheckState, ReadRoots, FailCall, SignTuple, RefuseHash,
           EndRequest, Refuse, Continue, Probe, QueryCore, LoadState, AnswerProbe, EndProbe
  <1> QED BY <1>1, <1>2, PTL DEF ApiSpec, Spec

\* A row's tuple covers exactly the blocks of its own branch from INIT on.
LEMMA TupleIsWhole ==
    ASSUME StoreInv, NEW h \in DOMAIN canonical_blocks
    PROVE  LET t == Tuple(canonical_blocks[h])
           IN  /\ t \in [block_hash : Branch, chained_root : Seq(View)]
               /\ Hashes(t.chained_root) = CanonicalHashes(t.block_hash)
  <1>1. PICK i \in DOMAIN protocol_state : h = Len(protocol_state[i].hash)
    BY DEF StoreInv, StoreCoherent
  <1>2. canonical_blocks[h] = [block |-> protocol_state[i], before |-> SubSeq(protocol_state, 1, i - 1)]
    BY <1>1 DEF StoreInv, StoreCoherent
  <1> DEFINE p == SubSeq(protocol_state, 1, i)
  <1>3. /\ protocol_state \in Seq(View) /\ Grown(protocol_state)
        /\ i \in 1..Len(protocol_state) /\ Len(protocol_state) \in Nat
        /\ protocol_state[i].hash \in Branch
    BY GrownTypes DEF StoreInv
  <1>4. i \in 0..Len(protocol_state) /\ i - 1 \in 0..i BY <1>3
  <1>5. p \in Seq(View) /\ Len(p) = i /\ p[i] = protocol_state[i]
    BY <1>3, <1>4, FirstElements
  <1>6. SubSeq(p, 1, i - 1) = SubSeq(protocol_state, 1, i - 1) BY <1>3, <1>4, FirstOfFirst
  <1>7. Grown(p) BY <1>3, <1>4, GrownPrefix
  <1> HIDE DEF p
  <1>8. p # <<>> BY <1>3, <1>5, EmptySeq
  <1>9. Front(p) = SubSeq(protocol_state, 1, i - 1) /\ Last(p) = protocol_state[i]
    BY <1>5, <1>6 DEF Front, Last
  <1>10. Append(SubSeq(protocol_state, 1, i - 1), protocol_state[i]) = p
    BY <1>5, <1>8, <1>9, FrontAndLast, ZenonT(30)
  <1>11. Tuple(canonical_blocks[h]) = [block_hash |-> protocol_state[i].hash, chained_root |-> p]
    <2> DEFINE b == SubSeq(protocol_state, 1, i - 1)
    <2>1. canonical_blocks[h] = [block |-> protocol_state[i], before |-> b] BY <1>2
    <2> HIDE DEF b
    <2>2. canonical_blocks[h].block = protocol_state[i] /\ canonical_blocks[h].before = b BY <2>1
    <2>3. /\ canonical_blocks[h].block = protocol_state[i]
          /\ canonical_blocks[h].before = SubSeq(protocol_state, 1, i - 1)
      BY <2>2 DEF b
    <2>4. Append(canonical_blocks[h].before, canonical_blocks[h].block) = p BY <1>10, <2>3, ZenonT(30)
    <2> QED BY <2>3, <2>4, ZenonT(30) DEF Tuple
  <1>12. Hashes(p) = CanonicalHashes(protocol_state[i].hash) BY <1>7, <1>8, <1>9, GrownIsWhole
  <1>13. Tuple(canonical_blocks[h]) \in [block_hash : Branch, chained_root : Seq(View)]
    BY <1>3, <1>5, <1>11
  <1>14. /\ Tuple(canonical_blocks[h]).chained_root = p
         /\ Tuple(canonical_blocks[h]).block_hash = protocol_state[i].hash
    BY <1>11
  <1> QED BY <1>12, <1>13, <1>14

\* The steps of a request.
LEMMA RequestKeepsInv ==
    ASSUME StoreInv, RequestInv, RequestNext
    PROVE  RequestInv'
  <1> USE DEF RequestInv, RequestRecord
  <1>1. NoRequest \in RequestRecord /\ NoRequest.pc = "none" BY DEF NoRequest
  <1>2. CASE Ask
    <2>1. \A h \in 1..MaxHeight : h \in Nat OBVIOUS
    <2> QED BY <1>2, <2>1, Zenon DEF Ask, NoRequest
  <1>3. CASE CheckWorker BY <1>1, <1>3 DEF CheckWorker, Refuse, Continue
  <1>4. CASE ReadStatus
    <2>1. Len(core) \in Nat BY PrefixIsBlockHash DEF StoreInv
    <2> QED BY <1>1, <1>4, <2>1, ZenonT(30) DEF ReadStatus
  <1>5. CASE CheckState BY <1>1, <1>5 DEF CheckState, Refuse, Continue
  <1>6. CASE ReadRoots
    <2>1. CASE request.height \in DOMAIN canonical_blocks
      <3> DEFINE t == Tuple(canonical_blocks[request.height])
      <3>1. /\ t \in [block_hash : Branch, chained_root : Seq(View)]
            /\ Hashes(t.chained_root) = CanonicalHashes(t.block_hash)
        BY <2>1, TupleIsWhole
      <3>2. request' = [request EXCEPT !.pc = "hash", !.roots = t] BY <1>6, <2>1 DEF ReadRoots
      <3> HIDE DEF t
      <3> QED BY <3>1, <3>2, ZenonT(30)
    <2>2. CASE request.height \notin DOMAIN canonical_blocks BY <1>1, <1>6, <2>2 DEF ReadRoots, Refuse
    <2> QED BY <2>1, <2>2
  <1>7. CASE SignTuple BY <1>7 DEF SignTuple
  <1>8. CASE RefuseHash BY <1>1, <1>8 DEF RefuseHash, Refuse
  <1>9. CASE EndRequest BY <1>1, <1>9 DEF EndRequest
  <1>10. CASE FailCall BY <1>1, <1>10 DEF FailCall, Refuse
  <1> QED BY <1>2, <1>3, <1>4, <1>5, <1>6, <1>7, <1>8, <1>9, <1>10 DEF RequestNext

\* What a request has read is of one branch in every state.
LEMMA RequestInvariant == ApiSpec => []RequestInv
  <1>1. ApiInit => RequestInv BY DEF ApiInit, RequestInv, RequestRecord, NoRequest
  <1>2. StoreInv /\ RequestInv /\ [ApiNext]_apiVars => RequestInv'
    <2> SUFFICES ASSUME StoreInv, RequestInv, [ApiNext]_apiVars PROVE RequestInv'
      OBVIOUS
    <2>1. CASE Requests BY <2>1, RequestKeepsInv DEF Requests
    <2>2. CASE Probes \/ Works \/ UNCHANGED apiVars
      BY <2>2 DEF Probes, Works, apiVars, RequestInv
    <2>3. CASE RestartServer BY <2>3 DEF RestartServer, RequestInv, RequestRecord, NoRequest
    <2> QED BY <2>1, <2>2, <2>3 DEF ApiNext
  <1> QED BY <1>1, <1>2, ApiRunsIngest, StoreInvariant, PTL DEF ApiSpec

\* No other step of a request signs.
LEMMA OnlySignTupleSigns ==
    ASSUME RequestInv, RequestNext, request'.pc = "signed"
    PROVE  SignTuple
  <1> USE DEF RequestInv, RequestRecord
  <1>1. NoRequest.pc # "signed" BY DEF NoRequest
  <1>2. ~Ask BY ZenonT(30) DEF Ask, NoRequest
  <1>3. ~CheckWorker BY <1>1 DEF CheckWorker, Refuse, Continue
  <1>4. ~ReadStatus BY ZenonT(30) DEF ReadStatus
  <1>5. ~CheckState BY <1>1 DEF CheckState, Refuse, Continue
  <1>6. ~ReadRoots BY <1>1, ZenonT(30) DEF ReadRoots, Refuse
  <1>7. ~FailCall /\ ~RefuseHash /\ ~EndRequest
    BY <1>1 DEF FailCall, RefuseHash, EndRequest, Refuse
  <1> QED BY <1>2, <1>3, <1>4, <1>5, <1>6, <1>7 DEF RequestNext

\* Whatever happens between a request's reads, a tuple is signed only while its
\* root covers exactly Core's own chain from INIT to the requested height.
THEOREM SignaturesAreOfCore == ApiSpec => SignsCoresChain
  <1>1. RequestInv /\ [ApiNext]_apiVars =>
          [request'.pc = "signed" =>
              /\ request.height <= Len(core)
              /\ Hashes(request'.roots.chained_root) =
                     CanonicalHashes(BlockHash(core, request.height))]_request
    <2> SUFFICES ASSUME RequestInv, [ApiNext]_apiVars, request' # request, request'.pc = "signed"
                 PROVE  /\ request.height <= Len(core)
                        /\ Hashes(request'.roots.chained_root) =
                               CanonicalHashes(BlockHash(core, request.height))
      OBVIOUS
    <2>1. ~Probes /\ ~Works /\ ~UNCHANGED apiVars
      BY Zenon DEF Probes, Works, apiVars
    <2>2. ~RestartServer BY DEF RestartServer, NoRequest
    <2>3. SignTuple BY <2>1, <2>2, OnlySignTupleSigns DEF ApiNext, Requests
    <2>4. /\ request.pc = "hash" /\ request' = [request EXCEPT !.pc = "signed"]
          /\ request.height <= Len(core)
          /\ BlockHash(core, request.height) = request.roots.block_hash
      BY <2>3 DEF SignTuple, HashMatches
    <2>5. request'.roots = request.roots BY <2>4 DEF RequestInv, RequestRecord
    <2> QED BY <2>4, <2>5, Zenon DEF RequestInv
  <1> QED BY <1>1, RequestInvariant, PTL DEF ApiSpec, SignsCoresChain

-----------------------------------------------------------------------------
(* Ready answers. *)

\* What the verifier knows of are chains.
LEMMA KnownAreBranches ==
    ASSUME StoreInv
    PROVE  /\ \A h \in KnownHashes : h \in Branch /\ Len(h) \in Nat
           /\ core \in Branch /\ Len(core) \in Nat
  <1>1. /\ core \in Branch /\ view \in Branch
        /\ \A i \in DOMAIN state : state[i].hash \in Branch
        /\ \A i \in DOMAIN protocol_state : protocol_state[i].hash \in Branch
    BY GrownTypes, ZenonT(30) DEF StoreInv
  <1> QED BY <1>1, PrefixIsBlockHash DEF KnownHashes

\* The elements of the front of a ChainState are elements of it.
LEMMA FrontHashes ==
    ASSUME NEW st, Grown(st), st # <<>>
    PROVE  \A i \in DOMAIN Front(st) : i \in DOMAIN st /\ Front(st)[i] = st[i]
  <1>1. st \in Seq(View) /\ Len(st) \in Nat /\ DOMAIN st = 1..Len(st) BY GrownTypes
  <1>2. /\ Front(st) \in Seq(View) /\ Len(Front(st)) = Len(st) - 1
        /\ \A i \in 1..(Len(st) - 1) : Front(st)[i] = st[i]
    BY <1>1, FrontAndLast, ZenonT(30)
  <1>3. DOMAIN Front(st) = 1..(Len(st) - 1) BY <1>2, LenProperties
  <1> QED BY <1>1, <1>2, <1>3

\* Only the fetched block is new to the verifier, and it is a block of Core's
\* chain; Core's own steps tell it nothing.
LEMMA KnownSteps ==
    ASSUME StoreInv, [Next]_vars
    PROVE  \/ KnownHashes' \subseteq KnownHashes
           \/ core' = core /\ \A h \in KnownHashes' : h \in KnownHashes \/ IsPrefix(h, core)
  <1> USE DEF passVars, storeVars, coreVars, KnownHashes
  <1>1. CASE UNCHANGED <<view, state, protocol_state>> BY <1>1
  <1>2. IsPrefix(<<>>, core)
    <2>1. <<>> \in Branch /\ core \in Branch /\ Len(<<>>) = 0 /\ Len(core) \in Nat
      BY ChainsAreBranches, KnownAreBranches, EmptySeq
    <2>2. BlockHash(core, 0) = <<>> BY <2>1, SubSeqEmpty DEF BlockHash
    <2> QED BY <2>1, <2>2, PrefixIsBlockHash
  <1>3. CASE view' = <<>> /\ core' = core /\ UNCHANGED <<state, protocol_state>> BY <1>2, <1>3
  <1>4. CASE RollbackTip \/ RollbackUnacknowledged
    <2>1. /\ protocol_state # <<>> /\ protocol_state' = Front(protocol_state)
          /\ Grown(protocol_state)
      BY <1>4, StoreRollbackKeeps DEF RollbackTip, RollbackUnacknowledged, StoreInv
    <2>2. \A i \in DOMAIN protocol_state' : i \in DOMAIN protocol_state /\ protocol_state'[i] = protocol_state[i]
      BY <2>1, FrontHashes
    <2>3. /\ core' = core /\ (view' = view \/ view' = <<>>)
          /\ (state' = state \/ state' = protocol_state')
      BY <1>4, FailTypes DEF RollbackTip, RollbackUnacknowledged
    <2> QED BY <1>2, <2>2, <2>3
  <1>5. CASE FetchBlock
    <2>1. CASE height <= Len(core)
      <3>1. height \in 0..Len(core) /\ core \in Branch /\ Len(core) \in Nat
        BY <2>1, KnownAreBranches DEF StoreInv
      <3>2. BlockHash(core, height) \in Branch /\ Len(BlockHash(core, height)) = height
        BY <3>1, BlockHashes
      <3>3. IsPrefix(BlockHash(core, height), core) BY <3>1, <3>2, PrefixIsBlockHash
      <3> QED BY <1>5, <2>1, <3>3 DEF FetchBlock
    <2>2. CASE ~(height <= Len(core)) BY <1>3, <1>5, <2>2, FailTypes DEF FetchBlock
    <2> QED BY <2>1, <2>2, ZenonT(30)
  <1>6. CASE ResolveAndReduce
    <2> DEFINE v == [hash |-> view, exact |-> IsPrefix(Front(view), core)]
    <2>1. CASE Accepts(state, v)
      <3>1. state' = Append(state, v) /\ view' = view /\ protocol_state' = protocol_state
        BY <1>6, <2>1 DEF ResolveAndReduce
      <3>2. v \in View /\ state \in Seq(View) /\ Len(state) \in Nat /\ DOMAIN state = 1..Len(state)
        BY <1>6, GrownTypes, ZenonT(30) DEF ResolveAndReduce, StoreInv, View, IsPrefix
      <3>3. /\ state' \in Seq(View) /\ Len(state') = Len(state) + 1
            /\ \A i \in 1..Len(state) : state'[i] = state[i]
            /\ state'[Len(state) + 1].hash = view
        BY <3>1, <3>2, AppendProperties
      <3>4. DOMAIN state' = 1..(Len(state) + 1) BY <3>3, LenProperties
      <3>5. \A i \in DOMAIN state' : (i \in DOMAIN state /\ state'[i] = state[i]) \/ state'[i].hash = view
        BY <3>2, <3>3, <3>4
      <3> QED BY <3>1, <3>5
    <2>2. CASE ~Accepts(state, v) BY <1>3, <1>6, <2>2, FailTypes DEF ResolveAndReduce
    <2> QED BY <2>1, <2>2, ZenonT(30)
  <1>7. CASE CommitBlock \/ CommitUnacknowledged
    <2>1. pc = "commit" BY <1>7 DEF CommitBlock, CommitUnacknowledged
    <2>2. protocol_state' = state
      BY <1>7, <2>1, StoreBlockKeeps DEF CommitBlock, CommitUnacknowledged, StoreInv
    <2>3. view' = view /\ state' = state BY <1>7 DEF CommitBlock, CommitUnacknowledged
    <2> QED BY <2>2, <2>3
  <1>8. CASE ReloadFails
    <2>1. /\ Grown(state) /\ state # <<>> /\ state' = Front(state)
          /\ core' = core /\ view' = <<>> /\ protocol_state' = protocol_state
      BY <1>8, FailTypes DEF ReloadFails, StoreInv
    <2>2. \A i \in DOMAIN state' : i \in DOMAIN state /\ state'[i] = state[i] BY <2>1, FrontHashes
    <2> QED BY <1>2, <2>1, <2>2
  <1>9. CASE ReloadState \/ Restart
    <2>1. core' = core /\ view' = <<>> /\ state' = protocol_state /\ protocol_state' = protocol_state
      BY <1>9, FailTypes DEF ReloadState, Restart
    <2> QED BY <1>2, <2>1
  <1>10. CASE CoreNext BY <1>1, <1>10, ZenonT(30) DEF CoreNext, MineBlock, Reorganize, Invalidate,
                                                    CoreMoves
  <1>11. CASE \/ WakeUp \/ StartPass \/ CheckReady \/ ReadBestHeight
              \/ ReconcileNothing \/ ReconcileMatch \/ ReconcileMismatch
              \/ FindInit \/ CatchUpDone \/ CommitRefused \/ CommitFails \/ ReadMempool
    BY <1>1, <1>11, ZenonT(30) DEF WakeUp, StartPass, CheckReady, ReadBestHeight, ReconcileNothing,
          ReconcileMatch, ReconcileMismatch, FindInit, CatchUpDone, CommitRefused, CommitFails,
          ReadMempool
  <1>12. CASE \/ ReconcileOutOfRange \/ RollbackRefused \/ ReplaceMempool
              \/ ReplaceUnacknowledged \/ CallFails
    BY <1>3, <1>12, FailTypes DEF ReconcileOutOfRange, RollbackRefused, ReplaceMempool, EndPass,
          ReplaceUnacknowledged, CallFails
  <1>13. CASE UNCHANGED vars BY <1>1, <1>13, ZenonT(30) DEF vars
  <1> QED BY <1>4, <1>5, <1>6, <1>7, <1>8, <1>9, <1>10, <1>11, <1>12, <1>13, ZenonT(30)
          DEF Next, WorkerNext, FaultNext

\* Core's chain changes only by growing, when no block is invalidated.
LEMMA CoreOnlyGrows ==
    ASSUME MaxInvalidations = 0, StoreInv, HeightInv, [Next]_vars
    PROVE  /\ budget' \in Budget
           /\ \/ core' = core
              \/ Len(core') \in Nat /\ Len(core') > Len(core) /\ KnownHashes' = KnownHashes
  <1> USE DEF HeightInv, Budget
  <1>1. CASE MineBlock
    <2>1. PICK b \in Content \cup {"INIT"} : core' = Append(core, b) /\ budget' = budget
      BY <1>1 DEF MineBlock, CoreMoves
    <2>2. core \in Seq(Block) /\ Len(core) \in Nat BY KnownAreBranches DEF Branch
    <2>3. Len(core') = Len(core) + 1 BY <2>1, <2>2, AppendProperties DEF Block
    <2>4. KnownHashes' = KnownHashes
      BY <1>1 DEF MineBlock, CoreMoves, passVars, storeVars, KnownHashes
    <2> QED BY <2>1, <2>2, <2>3, <2>4
  <1>2. CASE Reorganize
    <2>1. core' \in Branch /\ Len(core') > Len(core)
      BY <1>2, ChainsAreBranches DEF Reorganize, CoreMoves
    <2>2. Len(core') \in Nat BY <2>1, PrefixIsBlockHash
    <2>3. KnownHashes' = KnownHashes
      BY <1>2 DEF Reorganize, CoreMoves, passVars, storeVars, KnownHashes
    <2>4. budget' \in Budget BY <1>2 DEF Reorganize, Spend
    <2> QED BY <2>1, <2>2, <2>3, <2>4
  <1>3. CASE Invalidate BY <1>3 DEF Invalidate
  <1>4. CASE WorkerNext
    <2>1. core' = core /\ budget' = budget
      BY <1>4, ZenonT(30) DEF WorkerNext, coreVars, WakeUp, StartPass, CheckReady, ReadBestHeight,
            ReconcileNothing, ReconcileMatch, ReconcileMismatch, ReconcileOutOfRange, RollbackTip,
            RollbackRefused, FindInit, CatchUpDone, FetchBlock, ResolveAndReduce, CommitBlock,
            CommitRefused, ReloadState, ReadMempool, ReplaceMempool
    <2> QED BY <2>1
  <1>5. CASE FaultNext \/ Restart
    <2>1. core' = core /\ Spend("faults")
      BY <1>5 DEF FaultNext, RollbackUnacknowledged, CommitFails, CommitUnacknowledged, ReloadFails,
            ReplaceUnacknowledged, CallFails, Restart, Fault
    <2> QED BY <2>1 DEF Spend
  <1>6. CASE UNCHANGED vars BY <1>6 DEF vars, coreVars
  <1> QED BY <1>1, <1>2, <1>3, <1>4, <1>5, <1>6 DEF Next, CoreNext

\* A prefix of Core's chain is shorter than it or is the whole of it.
LEMMA PrefixOfCore ==
    ASSUME StoreInv, NEW h \in Branch, IsPrefix(h, core)
    PROVE  /\ Len(h) <= Len(core) /\ (Len(h) = Len(core) => h = core)
           /\ BlockHash(core, Len(h)) = h
  <1>1. Len(h) <= Len(core) /\ BlockHash(core, Len(h)) = h /\ core \in Branch /\ Len(core) \in Nat
    BY KnownAreBranches, PrefixIsBlockHash
  <1>2. Len(core) \in 0..Len(core) BY <1>1
  <1>3. BlockHash(core, Len(core)) = core BY <1>1, <1>2, BlockHashes
  <1> QED BY <1>1, <1>3

\* Every step keeps HeightInv, when no block is invalidated.
LEMMA StepKeepsHeightInv ==
    ASSUME MaxInvalidations = 0, StoreInv, StoreInv', HeightInv, [Next]_vars
    PROVE  HeightInv'
  <1>1. \A h \in KnownHashes : Len(h) <= Len(core) /\ (Len(h) = Len(core) => h = core) BY DEF HeightInv
  <1>2. \A h \in KnownHashes : Len(h) \in Nat BY KnownAreBranches
  <1>3. \A h \in KnownHashes' : h \in Branch
    <2>1. /\ view' \in Branch
          /\ \A i \in DOMAIN state' : state'[i].hash \in Branch
          /\ \A i \in DOMAIN protocol_state' : protocol_state'[i].hash \in Branch
      BY GrownTypes DEF StoreInv
    <2> QED BY <2>1 DEF KnownHashes
  <1>4. Len(core) \in Nat BY KnownAreBranches
  <1>5. budget' \in Budget BY CoreOnlyGrows
  <1>6. CASE Len(core') \in Nat /\ Len(core') > Len(core) /\ KnownHashes' = KnownHashes
    <2>1. \A h \in KnownHashes' : Len(h) < Len(core') /\ Len(h) \in Nat
      BY <1>1, <1>2, <1>4, <1>6
    <2>2. \A h \in KnownHashes' : Len(h) <= Len(core') /\ Len(h) # Len(core') BY <1>6, <2>1
    <2> QED BY <1>5, <2>2 DEF HeightInv
  <1>7. CASE core' = core
    <2>1. \A h \in KnownHashes' : h \in KnownHashes \/ IsPrefix(h, core) BY KnownSteps
    <2>2. \A h \in KnownHashes' : Len(h) <= Len(core) /\ (Len(h) = Len(core) => h = core)
      BY <1>1, <1>3, <2>1, PrefixOfCore
    <2> QED BY <1>5, <1>7, <2>2 DEF HeightInv
  <1> QED BY <1>6, <1>7, CoreOnlyGrows

\* No probe, no obligation.
LEMMA NoProbeKeepsInv ==
    ASSUME probe' = NoProbe
    PROVE  ProbeInv'
  <1>1. <<>> \in Seq(View) BY EmptySeq
  <1>2. probe' \in ProbeRecord /\ probe'.pc = "none" BY <1>1 DEF NoProbe, ProbeRecord
  <1> QED BY <1>2 DEF ProbeInv

\* The steps of a probe.
LEMMA ProbeKeepsInv ==
    ASSUME StoreInv, HeightInv, ProbeInv, ProbeNext
    PROVE  ProbeInv'
  <1>1. probe \in ProbeRecord BY DEF ProbeInv
  <1>2. UNCHANGED vars
    BY ZenonT(30) DEF ProbeNext, Probe, QueryCore, LoadState, AnswerProbe, EndProbe
  <1>3. core' = core /\ KnownHashes' = KnownHashes
    BY <1>2 DEF vars, coreVars, passVars, storeVars, KnownHashes
  <1>4. CASE Probe
    <2>1. probe' \in ProbeRecord /\ probe'.pc = "status"
      BY <1>1, <1>4, ZenonT(30) DEF Probe, Proceed, ProbeRecord
    <2> QED BY <2>1 DEF ProbeInv
  <1>5. CASE QueryCore
    <2>1. Len(core) \in Nat /\ core \in Branch BY KnownAreBranches
    <2>2. /\ probe' \in ProbeRecord /\ probe'.pc = "state" /\ seen' = {core}
          /\ ~probe'.failed => probe'.blocks = Len(core)
      BY <1>1, <1>5, <2>1, ZenonT(30) DEF QueryCore, Proceed, ProbeRecord
    <2>3. BlockHash(core, Len(core)) = core
      <3>1. Len(core) \in 0..Len(core) BY <2>1
      <3> QED BY <2>1, <3>1, BlockHashes
    <2>4. ASSUME ~probe'.failed, NEW h \in KnownHashes', Len(h) = probe'.blocks
          PROVE  SeenAtHeight(h)'
      <3>1. h = core BY <1>3, <2>2, <2>4 DEF HeightInv
      <3> QED BY <2>1, <2>2, <2>3, <2>4, <3>1 DEF SeenAtHeight
    <2> QED BY <1>3, <2>2, <2>4 DEF ProbeInv
  <1>6. CASE LoadState
    <2>1. protocol_state \in Seq(View) /\ Grown(protocol_state) BY GrownTypes DEF StoreInv
    <2>2. /\ probe' \in ProbeRecord /\ probe'.pc = "worker" /\ seen' = seen
          /\ probe'.blocks = probe.blocks
          /\ ~probe'.failed =>
                ~probe.failed /\ probe'.stored = protocol_state /\ protocol_state # <<>>
      BY <1>1, <1>6, <2>1, ZenonT(30) DEF LoadState, Proceed, ProbeRecord
    <2>3. ASSUME ~probe'.failed, TipHeight(probe'.stored) = probe'.blocks
          PROVE  SeenAtHeight(Last(probe.stored).hash)'
      <3> DEFINE h == Last(protocol_state).hash
      <3>1. h \in KnownHashes
        <4>1. /\ Last(protocol_state) = protocol_state[Len(protocol_state)]
              /\ Len(protocol_state) \in DOMAIN protocol_state
          BY <2>1, <2>2, <2>3, GrownTypes
        <4> QED BY <4>1 DEF KnownHashes
      <3>2. Len(h) = probe.blocks BY <2>2, <2>3 DEF TipHeight
      <3>3. SeenAtHeight(h) BY <1>6, <2>2, <2>3, <3>1, <3>2 DEF LoadState, ProbeInv
      <3>4. probe'.stored = protocol_state BY <2>2, <2>3
      <3> QED BY <2>2, <3>3, <3>4 DEF SeenAtHeight
    <2> QED BY <2>1, <2>2, <2>3 DEF ProbeInv
  <1>7. CASE AnswerProbe
    <2> DEFINE r == /\ ~probe.failed /\ ~health.catching_up /\ ~health.last_error
                    /\ AtCoreHeight(probe.stored, probe.blocks)
    <2>1. /\ probe.pc = "worker" /\ seen' = seen
          /\ probe' = [probe EXCEPT !.pc = "answered", !.ready = r]
      BY <1>7 DEF AnswerProbe
    <2>2. r \in BOOLEAN /\ (r => ~probe.failed /\ TipHeight(probe.stored) = probe.blocks)
      BY DEF AtCoreHeight
    <2> HIDE DEF r
    <2>3. /\ probe' \in ProbeRecord /\ probe'.pc = "answered" /\ probe'.ready = r
          /\ probe'.failed = probe.failed /\ probe'.blocks = probe.blocks
          /\ probe'.stored = probe.stored
      BY <1>1, <2>1, <2>2, ZenonT(30) DEF ProbeRecord
    <2>4. SeenAtHeight(Last(probe.stored).hash) => SeenAtHeight(Last(probe.stored).hash)'
      BY <2>1, <2>3 DEF SeenAtHeight
    <2> QED BY <2>1, <2>2, <2>3, <2>4 DEF ProbeInv
  <1>8. CASE EndProbe BY <1>8, NoProbeKeepsInv DEF EndProbe
  <1> QED BY <1>4, <1>5, <1>6, <1>7, <1>8 DEF ProbeNext

\* The worker's, Core's and failing steps under a probe.
LEMMA WorkKeepsProbeInv ==
    ASSUME StoreInv, StoreInv', ProbeInv, Works
    PROVE  ProbeInv'
  <1>1. probe' = probe /\ [Next]_vars BY DEF Works, Next
  <1>2. seen \subseteq seen' /\ (probe.pc # "state" => seen' = seen) BY DEF Works
  <1>3. \A h : SeenAtHeight(h) => SeenAtHeight(h)' BY <1>1, <1>2 DEF SeenAtHeight
  <1>4. CASE probe.pc = "state"
    <2>1. core' \in seen' BY <1>4 DEF Works
    <2>2. ASSUME ~probe.failed, NEW h \in KnownHashes', Len(h) = probe.blocks
          PROVE  SeenAtHeight(h)'
      <3>1. CASE h \in KnownHashes BY <1>3, <1>4, <2>2, <3>1 DEF ProbeInv
      <3>2. CASE core' = core /\ IsPrefix(h, core)
        <4>1. h \in Branch
          BY GrownTypes DEF StoreInv, KnownHashes
        <4>2. Len(h) <= Len(core) /\ BlockHash(core, Len(h)) = h BY <3>2, <4>1, PrefixOfCore
        <4> QED BY <1>1, <2>1, <2>2, <3>2, <4>2 DEF SeenAtHeight
      <3> QED BY <1>1, <3>1, <3>2, KnownSteps
    <2> QED BY <1>1, <1>4, <2>1, <2>2 DEF ProbeInv
  <1>5. CASE probe.pc # "state" BY <1>1, <1>3, <1>5 DEF ProbeInv
  <1> QED BY <1>4, <1>5

\* Where Core's height never goes down, a probe that answers ready has read a
\* stored state that holds, from INIT up to Core's height, exactly a chain that
\* was Core's between the two reads: comparing heights is enough.
THEOREM ReadyIsHeld ==
    ASSUME MaxInvalidations = 0
    PROVE  ApiSpec => []ReadyMeansHeld
  <1>1. ApiInit => HeightInv /\ ProbeInv
    <2> SUFFICES ASSUME ApiInit PROVE HeightInv /\ ProbeInv
      OBVIOUS
    <2>1. KnownHashes = {<<>>} BY DEF ApiInit, Init, KnownHashes
    <2>2. HeightInv BY <2>1, EmptySeq DEF ApiInit, Init, HeightInv, Budget
    <2>3. <<>> \in Seq(View) BY EmptySeq
    <2>4. probe \in ProbeRecord /\ probe.pc = "none" BY <2>3 DEF ApiInit, NoProbe, ProbeRecord
    <2> QED BY <2>2, <2>4 DEF ProbeInv
  <1>2. StoreInv /\ StoreInv' /\ HeightInv /\ [ApiNext]_apiVars /\ [Next]_vars => HeightInv'
    BY StepKeepsHeightInv
  <1>3. StoreInv /\ StoreInv' /\ HeightInv /\ ProbeInv /\ [ApiNext]_apiVars => ProbeInv'
    <2> SUFFICES ASSUME StoreInv, StoreInv', HeightInv, ProbeInv, [ApiNext]_apiVars
                 PROVE  ProbeInv'
      OBVIOUS
    <2>1. CASE Probes BY <2>1, ProbeKeepsInv DEF Probes
    <2>2. CASE Works BY <2>2, WorkKeepsProbeInv
    <2>3. CASE RestartServer BY <2>3, NoProbeKeepsInv DEF RestartServer
    <2>4. CASE Requests \/ UNCHANGED apiVars
      <3>1. UNCHANGED <<vars, probe, seen>>
        BY <2>4, ZenonT(30) DEF Requests, apiVars, probeVars, RequestNext, Ask, CheckWorker, ReadStatus,
              CheckState, ReadRoots, FailCall, SignTuple, RefuseHash, EndRequest, Refuse, Continue
      <3>2. core' = core /\ KnownHashes' = KnownHashes
        BY <3>1 DEF vars, coreVars, passVars, storeVars, KnownHashes
      <3>3. \A h : SeenAtHeight(h) => SeenAtHeight(h)' BY <3>1 DEF SeenAtHeight
      <3> QED BY <3>1, <3>2, <3>3 DEF ProbeInv
    <2> QED BY <2>1, <2>2, <2>3, <2>4 DEF ApiNext
  <1>4. ProbeInv => ReadyMeansHeld
    <2> SUFFICES ASSUME ProbeInv, SaidReady PROVE ReadyMeansHeld
      BY DEF ReadyMeansHeld
    <2>1. /\ Grown(probe.stored) /\ probe.stored # <<>>
          /\ SeenAtHeight(Last(probe.stored).hash)
      BY DEF ProbeInv, SaidReady
    <2>2. Hashes(probe.stored) = CanonicalHashes(Last(probe.stored).hash) BY <2>1, GrownIsWhole
    <2> QED BY <2>1, <2>2 DEF SeenAtHeight, ReadyMeansHeld
  <1>5. ApiSpec => [][Next]_vars BY ApiRunsIngest, PTL DEF Spec
  <1> QED BY <1>1, <1>2, <1>3, <1>4, <1>5, ApiRunsIngest, StoreInvariant, PTL DEF ApiSpec
===============================================================================
