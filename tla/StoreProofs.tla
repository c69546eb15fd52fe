------------------------------ MODULE StoreProofs ------------------------------
(***************************************************************************)
(* Proofs about the store for any number of writers, deployments, releases *)
(* and blocks.  The canonical tables need the advisory lock: while a       *)
(* transaction is between its load and its commit no other one can commit, *)
(* so what it read is still what is stored.                                *)
(***************************************************************************)
EXTENDS Store, SequenceTheorems, TLAPS

\* The provers of a leaf that names none, in this order.
USE SMT, Zenon, SMTT(30)

-----------------------------------------------------------------------------
(* Sequences. *)

\* A prefix has the length and the elements asked for.
LEMMA PrefixElements ==
    ASSUME NEW S, NEW s \in Seq(S), NEW n \in 0 .. Len(s)
    PROVE  /\ SubSeq(s, 1, n) \in Seq(S)
           /\ Len(SubSeq(s, 1, n)) = n
           /\ \A i \in 1 .. n : SubSeq(s, 1, n)[i] = s[i]
<1>1. Len(s) \in Nat /\ n \in Int /\ 1 \in Int /\ \A i \in 1 .. n : s[i] \in S
  OBVIOUS
<1>2. /\ SubSeq(s, 1, n) \in Seq(S)
      /\ Len(SubSeq(s, 1, n)) = IF 1 <= n THEN n - 1 + 1 ELSE 0
      /\ \A i \in 1 .. (n - 1 + 1) : SubSeq(s, 1, n)[i] = s[1 + i - 1]
  BY <1>1, SubSeqProperties
<1> QED
  BY <1>1, <1>2

\* The state before the last block has the blocks below it.
LEMMA BeforeElements ==
    ASSUME NEW S, NEW s \in Seq(S), s # <<>>
    PROVE  /\ Before(s) \in Seq(S)
           /\ Len(s) \in Nat \ {0}
           /\ Len(Before(s)) = Len(s) - 1
           /\ \A i \in 1 .. (Len(s) - 1) : Before(s)[i] = s[i]
           /\ s[Len(s)] \in S
<1>1. Len(s) \in Nat /\ Len(s) # 0
  OBVIOUS
<1>2. Len(s) - 1 \in 0 .. Len(s)
  BY <1>1
<1>3. /\ Before(s) \in Seq(S)
      /\ Len(Before(s)) = Len(s) - 1
      /\ \A i \in 1 .. (Len(s) - 1) : Before(s)[i] = s[i]
  BY <1>2, PrefixElements, Zenon DEF Before
<1>5. s[Len(s)] \in S
  BY <1>1
<1> QED
  BY <1>1, <1>3, <1>5

\* Two sequences with the same length and the same elements are the same.
LEMMA SameElements ==
    ASSUME NEW S, NEW s \in Seq(S), NEW t \in Seq(S), Len(s) = Len(t),
           \A i \in 1 .. Len(s) : s[i] = t[i]
    PROVE  s = t
OBVIOUS

\* A block's before is a prefix both of the state and of the state before its
\* tip.
LEMMA PrefixOfBefore ==
    ASSUME NEW S, NEW s \in Seq(S), s # <<>>, NEW h \in 1 .. Len(s)
    PROVE  SubSeq(Before(s), 1, h - 1) = SubSeq(s, 1, h - 1)
<1> DEFINE a == SubSeq(Before(s), 1, h - 1)
           b == SubSeq(s, 1, h - 1)
<1>1. h - 1 \in 0 .. Len(s) /\ h - 1 \in 0 .. Len(Before(s))
  BY BeforeElements
<1>2. /\ a \in Seq(S) /\ Len(a) = h - 1 /\ \A i \in 1 .. (h - 1) : a[i] = Before(s)[i]
  BY <1>1, BeforeElements, PrefixElements
<1>3. /\ b \in Seq(S) /\ Len(b) = h - 1 /\ \A i \in 1 .. (h - 1) : b[i] = s[i]
  BY <1>1, PrefixElements
<1>4. \A i \in 1 .. (h - 1) : i \in 1 .. (Len(s) - 1)
  BY <1>1, BeforeElements
<1>5. \A i \in 1 .. (h - 1) : a[i] = b[i]
  BY <1>2, <1>3, <1>4, BeforeElements
<1> HIDE DEF a, b
<1>6. a = b
  BY <1>2, <1>3, <1>5, SameElements
<1> QED
  BY <1>6 DEF a, b

\* The state before the tip and the tip make the state.
LEMMA AppendToBefore ==
    ASSUME NEW S, NEW s \in Seq(S), s # <<>>
    PROVE  Append(Before(s), s[Len(s)]) = s
<1>1. /\ Append(Before(s), s[Len(s)]) \in Seq(S)
      /\ Len(Append(Before(s), s[Len(s)])) = Len(s)
  BY BeforeElements
<1>2. \A i \in 1 .. Len(s) : Append(Before(s), s[Len(s)])[i] = s[i]
  BY BeforeElements
<1> QED
  BY <1>1, <1>2, SameElements

\* Appending a block to a state makes that state the one before the tip.
LEMMA BeforeOfAppend ==
    ASSUME NEW S, NEW s \in Seq(S), NEW e \in S
    PROVE  /\ Append(s, e) \in Seq(S)
           /\ Append(s, e) # <<>>
           /\ Len(Append(s, e)) = Len(s) + 1
           /\ Before(Append(s, e)) = s
<1> DEFINE a == Append(s, e)
<1>1. /\ a \in Seq(S) /\ Len(a) = Len(s) + 1 /\ Len(s) \in Nat
      /\ \A i \in 1 .. Len(s) : a[i] = s[i]
  OBVIOUS
<1> HIDE DEF a
<1>2. a # <<>>
  BY <1>1
<1>3. /\ Before(a) \in Seq(S)
      /\ Len(Before(a)) = Len(a) - 1
      /\ \A i \in 1 .. (Len(a) - 1) : Before(a)[i] = a[i]
  BY <1>1, <1>2, BeforeElements, Zenon
<1>4. Len(Before(a)) = Len(s) /\ \A i \in 1 .. Len(s) : Before(a)[i] = s[i]
  BY <1>1, <1>3
<1>5. Before(a) = s
  BY <1>3, <1>4, SameElements
<1> QED
  BY <1>1, <1>2, <1>5 DEF a

-----------------------------------------------------------------------------
(* The inductive invariant. *)

\* A transaction past advisory_lock holds the lock, and nobody else does.
LockInv ==
    /\ \A w \in Writer : step[w] \in {"load", "commit"} => w \in lock
    /\ \A v, w \in lock : v = w

\* A process that runs has a configuration, and a block on its state while it
\* applies one.
WriterInv ==
    \A w \in Writer :
        /\ op[w] # "down" => config[w] \in [deployment : Deployment, release : Release]
        /\ op[w] = "apply" => memory[w] # <<>>

\* What a transaction that is about to commit has read is what is stored.
ReadInv ==
    \A w \in Writer :
        /\ At(w, "apply", "commit") => protocol_state = Before(memory[w])
        /\ At(w, "rollback", "commit") => loaded[w] = protocol_state /\ protocol_state # <<>>

StoreInv ==
    /\ TypeOK
    /\ LockInv
    /\ WriterInv
    /\ ReadInv
    /\ ProjectionsCoherent
    /\ OneDeployment

\* The empty database satisfies the invariant.
LEMMA StoreInitially == Init => StoreInv
<1> SUFFICES ASSUME Init PROVE StoreInv
  OBVIOUS
<1>1. TypeOK
  BY StoreAssumption
  DEF Init, TypeOK, TablesTyped, WritersTyped, State, Config, Running, Statement, NoConfig
<1>2. LockInv /\ WriterInv /\ ReadInv /\ OneDeployment
  BY DEF Init, LockInv, WriterInv, ReadInv, OneDeployment, At
<1>3. ProjectionsCoherent
  BY DEF Init, ProjectionsCoherent, Objects
<1> QED
  BY <1>1, <1>2, <1>3 DEF StoreInv

\* Only three actions write the canonical tables; bind_or_load writes nothing
\* but the binding.
LEMMA TablesWritten ==
    ASSUME NEW w \in Writer,
           \/ Start(w) \/ BeginApply(w) \/ BeginRollback(w) \/ BeginMempool(w)
           \/ Acquire(w) \/ Progress(w) \/ StatementFails(w) \/ Crash(w)
    PROVE  \/ UNCHANGED canonicalVars
           \/ Bind(w)
           \/ CommitApply(w)
           \/ CommitRollback(w)
BY DEF Start, BeginApply, BeginRollback, BeginMempool, Acquire, Progress, StatementFails, Crash,
       BindRefused, LoadForApply, ApplyRefused, Reload, LoadForRollback, RollbackRefused,
       DeleteSnapshot, DeleteRows, InsertRow, InsertDuplicate, DeadlockDetected, AbortMempool,
       CommitMempool

\* Begin, Goto and EndTransaction keep the types of what they change.
LEMMA OperationTypes ==
    ASSUME WritersTyped, NEW w \in Writer
    PROVE  /\ \A s \in Statement : Goto(w, s) => step' \in [Writer -> Statement]
           /\ \A o \in Running \cup {"down", "none"}, s \in Statement : Begin(w, o, s) =>
                /\ op' \in [Writer -> Running \cup {"down", "none"}]
                /\ step' \in [Writer -> Statement]
           /\ EndTransaction(w) => lock' \in SUBSET Writer /\ loaded' \in [Writer -> State]
           /\ Return(w) =>
                /\ op' \in [Writer -> Running \cup {"down", "none"}]
                /\ step' \in [Writer -> Statement]
                /\ lock' \in SUBSET Writer
                /\ loaded' \in [Writer -> State]
<1>1. \A s \in Statement : Goto(w, s) => step' \in [Writer -> Statement]
  BY DEF WritersTyped, Goto
<1>2. \A o \in Running \cup {"down", "none"}, s \in Statement : Begin(w, o, s) =>
        op' \in [Writer -> Running \cup {"down", "none"}]
  BY DEF WritersTyped, Begin
<1>3. EndTransaction(w) => lock' \in SUBSET Writer
  BY DEF WritersTyped, EndTransaction
<1>4. EndTransaction(w) => loaded' \in [Writer -> State]
  <2>1. <<>> \in State
    BY DEF State
  <2> QED
    BY <2>1 DEF WritersTyped, EndTransaction
<1>5. "none" \in Statement
  BY DEF Statement
<1> QED
  BY <1>1, <1>2, <1>3, <1>4, <1>5 DEF Begin, Return

\* What CommitRollback restores.
LEMMA RestoredState ==
    ASSUME StoreInv, NEW w \in Writer, CommitRollback(w)
    PROVE  /\ loaded[w] = protocol_state
           /\ protocol_state # <<>>
           /\ protocol_state \in State
           /\ Len(protocol_state) \in DOMAIN canonical_blocks
           /\ canonical_blocks[Len(protocol_state)].before = Before(protocol_state)
<1>1. loaded[w] = protocol_state /\ protocol_state # <<>> /\ protocol_state \in State
  BY DEF CommitRollback, StoreInv, ReadInv, TypeOK, TablesTyped
<1>2. Len(protocol_state) \in 1 .. Len(protocol_state)
  BY <1>1, BeforeElements DEF State
<1> QED
  BY <1>1, <1>2 DEF StoreInv, ProjectionsCoherent, Before

\* Types of the writers, action by action.
LEMMA StepKeepsWriterTypes ==
    ASSUME StoreInv, NEW w \in Writer,
           \/ Start(w) \/ BeginApply(w) \/ BeginRollback(w) \/ BeginMempool(w)
           \/ Acquire(w) \/ Progress(w) \/ StatementFails(w) \/ Crash(w)
    PROVE  WritersTyped'
<1> USE DEF Running, Statement, transactionVars
<1>a. WritersTyped /\ TablesTyped /\ WriterInv
  BY DEF StoreInv, TypeOK
<1>b. NoConfig \in Config
  BY DEF Config
<1> USE OperationTypes
<1>1. CASE Start(w)
  BY <1>1, <1>a DEF WritersTyped, Start, Config
<1>2. CASE BeginApply(w)
  BY <1>2, <1>a, BeforeOfAppend DEF WritersTyped, BeginApply, State
<1>3. CASE BeginRollback(w) \/ BeginMempool(w)
  BY <1>3, <1>a DEF WritersTyped, BeginRollback, BeginMempool
<1>4. CASE Acquire(w)
  BY <1>4, <1>a DEF WritersTyped, Acquire
<1>5. CASE StatementFails(w)
  BY <1>5, <1>a DEF WritersTyped, StatementFails
<1>6. CASE Crash(w)
  <2>1. <<>> \in State
    BY DEF State
  <2> QED
    BY <2>1, <1>6, <1>a, <1>b DEF WritersTyped, Crash
<1>7. CASE Bind(w)
  BY <1>7, <1>a DEF WritersTyped, TablesTyped, Bind
<1>8. CASE BindRefused(w)
  BY <1>8, <1>a, <1>b DEF WritersTyped, BindRefused
<1>9. CASE LoadForApply(w) \/ ApplyRefused(w)
  BY <1>9, <1>a DEF WritersTyped, LoadForApply, ApplyRefused
<1>10. CASE LoadForRollback(w) \/ RollbackRefused(w)
  BY <1>10, <1>a DEF WritersTyped, TablesTyped, LoadForRollback, RollbackRefused
<1>11. CASE Reload(w)
  <2>1. Before(memory[w]) \in State
    BY <1>11, <1>a, BeforeElements DEF WritersTyped, Reload, WriterInv, At, State
  <2> QED
    BY <2>1, <1>11, <1>a DEF WritersTyped, TablesTyped, Reload
<1>12. CASE DeleteSnapshot(w) \/ DeleteRows(w) \/ InsertRow(w)
  BY <1>12, <1>a DEF WritersTyped, DeleteSnapshot, DeleteRows, InsertRow
<1>13. CASE CommitMempool(w) \/ InsertDuplicate(w) \/ DeadlockDetected(w)
  BY <1>13, <1>a DEF WritersTyped, CommitMempool, InsertDuplicate, DeadlockDetected, AbortMempool
<1>14. CASE CommitApply(w)
  BY <1>14, <1>a DEF WritersTyped, CommitApply
<1>15. CASE CommitRollback(w)
  <2>3. canonical_blocks[Len(loaded[w])].before \in State
    BY <1>15, <1>a, RestoredState DEF TablesTyped, Row
  <2> QED
    BY <2>3, <1>15, <1>a DEF WritersTyped, CommitRollback
<1> QED
  BY <1>1, <1>2, <1>3, <1>4, <1>5, <1>6, <1>7, <1>8, <1>9, <1>10, <1>11, <1>12, <1>13, <1>14, <1>15
  DEF Progress

\* The row CommitApply inserts, and the state its caller passes.
LEMMA AppliedBlock ==
    ASSUME StoreInv, NEW w \in Writer, CommitApply(w)
    PROVE  /\ memory[w] \in State
           /\ memory[w] # <<>>
           /\ protocol_state = Before(memory[w])
           /\ Len(memory[w]) = Len(protocol_state) + 1
           /\ BlockRow(w) \in Row
           /\ BlockRow(w).before = protocol_state
           /\ BlockRow(w).content = memory[w][Len(memory[w])]
<1>1. memory[w] \in State /\ memory[w] # <<>> /\ config[w].release \in Release
  BY DEF StoreInv, TypeOK, WritersTyped, WriterInv, CommitApply, At
<1>2. protocol_state = Before(memory[w])
  BY DEF StoreInv, ReadInv, CommitApply
<1>3. /\ Before(memory[w]) \in State /\ Len(memory[w]) \in Nat
      /\ Len(Before(memory[w])) = Len(memory[w]) - 1
      /\ memory[w][Len(memory[w])] \in Content
  BY <1>1, BeforeElements DEF State
<1> QED
  BY <1>1, <1>2, <1>3 DEF BlockRow, Row

\* Types of the tables.
LEMMA StepKeepsTableTypes ==
    ASSUME StoreInv, NEW w \in Writer,
           \/ Start(w) \/ BeginApply(w) \/ BeginRollback(w) \/ BeginMempool(w)
           \/ Acquire(w) \/ Progress(w) \/ StatementFails(w) \/ Crash(w)
    PROVE  TablesTyped'
<1>a. TablesTyped
  BY DEF StoreInv, TypeOK
<1>1. CASE UNCHANGED canonicalVars
  BY <1>1, <1>a DEF TablesTyped, canonicalVars
<1>2. CASE Bind(w)
  <2>1. config[w].deployment \in Deployment
    BY <1>2 DEF Bind, At, StoreInv, WriterInv
  <2> QED
    BY <2>1, <1>2, <1>a DEF TablesTyped, Bind
<1>3. CASE CommitApply(w)
  <2>0. BlockRow(w) \in Row /\ memory[w] \in State
    BY <1>3, AppliedBlock
  <2>1. BlockRow(w) \in Row /\ memory[w] \in State /\ Len(memory[w]) \in Nat
    BY <2>0 DEF State
  <2>2. \A h \in DOMAIN canonical_blocks' : h \in Nat /\ canonical_blocks'[h] \in Row
    BY <2>1, <1>3, <1>a DEF TablesTyped, CommitApply, InsertBlock
  <2> QED
    BY <2>1, <2>2, <1>3, <1>a, ZenonT(30) DEF TablesTyped, CommitApply
<1>4. CASE CommitRollback(w)
  <2>1. canonical_blocks[Len(loaded[w])].before \in State
    BY <1>4, <1>a, RestoredState DEF TablesTyped, Row
  <2>2. \A h \in DOMAIN canonical_blocks' : h \in Nat /\ canonical_blocks'[h] \in Row
    BY <1>4, <1>a DEF TablesTyped, CommitRollback
  <2> QED
    BY <2>1, <2>2, <1>4, <1>a DEF TablesTyped, CommitRollback
<1> QED
  BY <1>1, <1>2, <1>3, <1>4, TablesWritten

\* How one step moves the writers: w takes the lock and nobody holds it, or w
\* ends its transaction, or w moves on with the lock it has.
LEMMA LockMoves ==
    ASSUME NEW w \in Writer,
           \/ Start(w) \/ BeginApply(w) \/ BeginRollback(w) \/ BeginMempool(w)
           \/ Acquire(w) \/ Progress(w) \/ StatementFails(w) \/ Crash(w)
    PROVE  \E l \in Statement :
               /\ step' = [step EXCEPT ![w] = l] \/ (step' = step /\ step[w] = l)
               /\ \/ lock = {} /\ lock' = {w}
                  \/ lock' = lock \ {w} /\ l \notin {"load", "commit"}
                  \/ lock' = lock /\ (l \in {"load", "commit"} => step[w] \in {"load", "commit"})
<1> USE DEF Goto, Begin, EndTransaction, Return, At, Statement, transactionVars
<1>1. CASE Start(w) \/ BeginApply(w) \/ BeginRollback(w) \/ BeginMempool(w)
  BY <1>1 DEF Start, BeginApply, BeginRollback, BeginMempool
<1>2. CASE Acquire(w)
  BY <1>2 DEF Acquire, LockFree
<1>3. CASE StatementFails(w)
  BY <1>3 DEF StatementFails
<1>4. CASE Crash(w)
  BY <1>4 DEF Crash
<1>5. CASE Bind(w) \/ BindRefused(w)
  BY <1>5 DEF Bind, BindRefused
<1>6. CASE LoadForApply(w) \/ LoadForRollback(w)
  BY <1>6 DEF LoadForApply, LoadForRollback
<1>7. CASE ApplyRefused(w) \/ RollbackRefused(w)
  BY <1>7 DEF ApplyRefused, RollbackRefused
<1>8. CASE Reload(w)
  BY <1>8 DEF Reload
<1>9. CASE CommitApply(w)
  BY <1>9 DEF CommitApply
<1>10. CASE CommitRollback(w)
  BY <1>10 DEF CommitRollback
<1>11. CASE DeleteSnapshot(w) \/ DeleteRows(w) \/ InsertRow(w)
  BY <1>11 DEF DeleteSnapshot, DeleteRows, InsertRow
<1>12. CASE CommitMempool(w) \/ InsertDuplicate(w) \/ DeadlockDetected(w)
  BY <1>12 DEF CommitMempool, InsertDuplicate, DeadlockDetected, AbortMempool
<1> QED
  BY <1>1, <1>2, <1>3, <1>4, <1>5, <1>6, <1>7, <1>8, <1>9, <1>10, <1>11, <1>12 DEF Progress

\* One holder of the lock at a time.
LEMMA StepKeepsLock ==
    ASSUME StoreInv, NEW w \in Writer,
           \/ Start(w) \/ BeginApply(w) \/ BeginRollback(w) \/ BeginMempool(w)
           \/ Acquire(w) \/ Progress(w) \/ StatementFails(w) \/ Crash(w)
    PROVE  LockInv'
<1>1. LockInv /\ step \in [Writer -> Statement]
  BY DEF StoreInv, TypeOK, WritersTyped
<1>2. PICK l \in Statement :
        /\ step' = [step EXCEPT ![w] = l] \/ (step' = step /\ step[w] = l)
        /\ \/ lock = {} /\ lock' = {w}
           \/ lock' = lock \ {w} /\ l \notin {"load", "commit"}
           \/ lock' = lock /\ (l \in {"load", "commit"} => step[w] \in {"load", "commit"})
  BY LockMoves
<1>3. \A v \in Writer : step'[v] = IF v = w THEN l ELSE step[v]
  BY <1>1, <1>2
<1> QED
  BY <1>1, <1>2, <1>3 DEF LockInv

\* A step of w changes nothing of another writer.
LEMMA OthersKeep ==
    ASSUME StoreInv, NEW w \in Writer, NEW v \in Writer, v # w,
           \/ Start(w) \/ BeginApply(w) \/ BeginRollback(w) \/ BeginMempool(w)
           \/ Acquire(w) \/ Progress(w) \/ StatementFails(w) \/ Crash(w)
    PROVE  /\ op'[v] = op[v] /\ step'[v] = step[v] /\ config'[v] = config[v]
           /\ memory'[v] = memory[v] /\ loaded'[v] = loaded[v]
<1> USE DEF Goto, Begin, EndTransaction, Return, transactionVars
<1>a. WritersTyped
  BY DEF StoreInv, TypeOK
<1> USE <1>a DEF WritersTyped
<1>1. CASE Start(w) \/ BeginApply(w) \/ BeginRollback(w) \/ BeginMempool(w)
  BY <1>1 DEF Start, BeginApply, BeginRollback, BeginMempool
<1>2. CASE Acquire(w)
  BY <1>2 DEF Acquire
<1>3. CASE StatementFails(w)
  BY <1>3 DEF StatementFails
<1>4. CASE Crash(w)
  BY <1>4 DEF Crash
<1>5. CASE Bind(w) \/ BindRefused(w)
  BY <1>5 DEF Bind, BindRefused
<1>6. CASE LoadForApply(w) \/ LoadForRollback(w)
  BY <1>6 DEF LoadForApply, LoadForRollback
<1>7. CASE ApplyRefused(w) \/ RollbackRefused(w)
  BY <1>7 DEF ApplyRefused, RollbackRefused
<1>8. CASE Reload(w)
  BY <1>8 DEF Reload
<1>9. CASE CommitApply(w)
  BY <1>9 DEF CommitApply
<1>10. CASE CommitRollback(w)
  BY <1>10, Zenon DEF CommitRollback
<1>11. CASE DeleteSnapshot(w) \/ DeleteRows(w) \/ InsertRow(w)
  BY <1>11 DEF DeleteSnapshot, DeleteRows, InsertRow
<1>12. CASE CommitMempool(w) \/ InsertDuplicate(w) \/ DeadlockDetected(w)
  BY <1>12, ZenonT(60) DEF CommitMempool, InsertDuplicate, DeadlockDetected, AbortMempool
<1> QED
  BY <1>1, <1>2, <1>3, <1>4, <1>5, <1>6, <1>7, <1>8, <1>9, <1>10, <1>11, <1>12, ZenonT(60)
  DEF Progress

\* Where a step leaves w itself: stopped, back with its caller, begun, or on
\* with the same operation, configuration and state.
Moved(w) ==
    \/ op'[w] = "down"
    \/ /\ op'[w] = "none" /\ op[w] # "down" /\ config'[w] = config[w]
       /\ op[w] = "bind" => Bind(w)
    \/ Start(w) /\ op'[w] = "bind" /\ step'[w] = "lock"
    \/ BeginApply(w) /\ op'[w] = "apply" /\ step'[w] = "lock"
    \/ /\ op'[w] \in {"rollback", "mempool"} /\ step'[w] # "commit"
       /\ op[w] = "none" /\ config'[w] = config[w]
    \/ LoadForApply(w) \/ LoadForRollback(w)
    \/ /\ op'[w] = op[w] /\ step'[w] # "commit"
       /\ config'[w] = config[w] /\ memory'[w] = memory[w]

\* Every step leaves w in one of these ways.
LEMMA OwnMove ==
    ASSUME StoreInv, NEW w \in Writer,
           \/ Start(w) \/ BeginApply(w) \/ BeginRollback(w) \/ BeginMempool(w)
           \/ Acquire(w) \/ Progress(w) \/ StatementFails(w) \/ Crash(w)
    PROVE  Moved(w)
<1> USE DEF Goto, Begin, EndTransaction, Return, At, transactionVars
<1>a. WritersTyped
  BY DEF StoreInv, TypeOK
<1> USE <1>a DEF WritersTyped, Moved
<1>1. CASE Start(w) \/ BeginApply(w) \/ BeginRollback(w) \/ BeginMempool(w)
  BY <1>1 DEF Start, BeginApply, BeginRollback, BeginMempool
<1>2. CASE Acquire(w)
  BY <1>2 DEF Acquire
<1>3. CASE StatementFails(w)
  BY <1>3 DEF StatementFails, Running
<1>4. CASE Crash(w) \/ BindRefused(w)
  BY <1>4 DEF Crash, BindRefused
<1>5. CASE Bind(w)
  BY <1>5 DEF Bind
<1>6. CASE LoadForApply(w) \/ LoadForRollback(w)
  BY <1>6, ZenonT(60)
<1>7. CASE ApplyRefused(w) \/ RollbackRefused(w)
  BY <1>7 DEF ApplyRefused, RollbackRefused
<1>8. CASE Reload(w)
  BY <1>8 DEF Reload
<1>9. CASE CommitApply(w)
  BY <1>9 DEF CommitApply
<1>10. CASE CommitRollback(w)
  BY <1>10, Zenon DEF CommitRollback
<1>11. CASE DeleteSnapshot(w) \/ DeleteRows(w) \/ InsertRow(w)
  BY <1>11 DEF DeleteSnapshot, DeleteRows, InsertRow
<1>12. CASE CommitMempool(w)
  BY <1>12 DEF CommitMempool
<1>13. CASE InsertDuplicate(w)
  BY <1>13, ZenonT(60) DEF InsertDuplicate, AbortMempool
<1>14. CASE DeadlockDetected(w)
  <2>1. AbortMempool(w) /\ op[w] = "mempool"
    BY <1>14 DEF DeadlockDetected, WaitInCircle
  <2> QED
    BY <2>1 DEF AbortMempool
<1> HIDE <1>a DEF Goto, Begin, EndTransaction, Return, At, transactionVars, WritersTyped, Moved
<1> QED
  BY <1>1, <1>2, <1>3, <1>4, <1>5, <1>6, <1>7, <1>8, <1>9, <1>10, <1>11, <1>12, <1>13, <1>14
  DEF Progress

\* A running process keeps its configuration; one that applies has a block.
LEMMA StepKeepsWriters ==
    ASSUME StoreInv, NEW w \in Writer,
           \/ Start(w) \/ BeginApply(w) \/ BeginRollback(w) \/ BeginMempool(w)
           \/ Acquire(w) \/ Progress(w) \/ StatementFails(w) \/ Crash(w)
    PROVE  WriterInv'
<1>a. WriterInv /\ WritersTyped
  BY DEF StoreInv, TypeOK
<1>1. ASSUME NEW v \in Writer, v # w
      PROVE  /\ op'[v] # "down" => config'[v] \in [deployment : Deployment, release : Release]
             /\ op'[v] = "apply" => memory'[v] # <<>>
  BY <1>1, <1>a, OthersKeep DEF WriterInv
<1>2. /\ op'[w] # "down" => config'[w] \in [deployment : Deployment, release : Release]
      /\ op'[w] = "apply" => memory'[w] # <<>>
  <2>1. CASE Start(w) /\ op'[w] = "bind"
    BY <2>1, <1>a DEF Start, WritersTyped
  <2>2. CASE BeginApply(w)
    <3>1. PICK c \in Content : memory' = [memory EXCEPT ![w] = Append(@, c)]
      BY <2>2, ZenonT(60) DEF BeginApply
    <3>2. memory[w] \in Seq(Content) /\ memory'[w] = Append(memory[w], c)
      BY <3>1, <1>a DEF WritersTyped, State
    <3>3. memory'[w] # <<>>
      BY <3>2, BeforeOfAppend
    <3> QED
      BY <2>2, <3>3, <1>a, Zenon DEF BeginApply, WriterInv
  <2>3. CASE LoadForApply(w) \/ LoadForRollback(w)
    BY <2>3, <1>a DEF LoadForApply, LoadForRollback, WriterInv
  <2> QED
    BY <2>1, <2>2, <2>3, <1>a, OwnMove, ZenonT(60) DEF WriterInv, Moved
<1> QED
  BY <1>1, <1>2 DEF WriterInv

\* While another transaction holds the lock w commits nothing canonical.
LEMMA CommitsExclude ==
    ASSUME StoreInv, NEW w \in Writer, NEW v \in Writer, v # w, step[v] = "commit",
           CommitApply(w) \/ CommitRollback(w)
    PROVE  FALSE
<1>1. step[w] = "commit"
  BY Zenon DEF CommitApply, CommitRollback, At
<1>2. v \in lock /\ w \in lock
  BY <1>1, Zenon DEF StoreInv, LockInv
<1> QED
  BY <1>2, Zenon DEF StoreInv, LockInv

\* What a transaction read stays what is stored until it commits.
LEMMA StepKeepsReads ==
    ASSUME StoreInv, NEW w \in Writer,
           \/ Start(w) \/ BeginApply(w) \/ BeginRollback(w) \/ BeginMempool(w)
           \/ Acquire(w) \/ Progress(w) \/ StatementFails(w) \/ Crash(w)
    PROVE  ReadInv'
<1>a. ReadInv /\ WritersTyped
  BY DEF StoreInv, TypeOK
<1>1. CommitApply(w) \/ CommitRollback(w) \/ protocol_state' = protocol_state
  BY TablesWritten DEF canonicalVars, Bind
<1>2. ASSUME NEW v \in Writer, v # w
      PROVE  /\ At(v, "apply", "commit")' => protocol_state' = Before(memory[v])'
             /\ At(v, "rollback", "commit")' =>
                    loaded'[v] = protocol_state' /\ protocol_state' # <<>>
  <2>1. /\ op'[v] = op[v] /\ step'[v] = step[v]
        /\ memory'[v] = memory[v] /\ loaded'[v] = loaded[v]
    BY <1>2, OthersKeep
  <2>2. step[v] = "commit" => protocol_state' = protocol_state
    BY <1>1, <1>2, CommitsExclude
  <2> QED
    BY <2>1, <2>2, <1>a, Zenon DEF ReadInv, At, Before
<1>3. /\ At(w, "apply", "commit")' => protocol_state' = Before(memory[w])'
      /\ At(w, "rollback", "commit")' => loaded'[w] = protocol_state' /\ protocol_state' # <<>>
  <2>1. CASE LoadForApply(w)
    BY <2>1, <1>a, ZenonT(60)
    DEF LoadForApply, StoredIsBefore, At, Before, canonicalVars, transactionVars
  <2>2. CASE LoadForRollback(w)
    BY <2>2, <1>a DEF LoadForRollback, Disconnectable, At, Goto, WritersTyped, canonicalVars
  <2> QED
    BY <2>1, <2>2, OwnMove, ZenonT(60) DEF Moved, At
<1> QED
  BY <1>2, <1>3 DEF ReadInv

\* The tables agree after a block is committed.
LEMMA ApplyKeepsCoherence ==
    ASSUME StoreInv, NEW w \in Writer, CommitApply(w)
    PROVE  ProjectionsCoherent'
<1> DEFINE st == protocol_state
           m == memory[w]
           n == Len(m)
<1>a. ProjectionsCoherent /\ st \in Seq(Content)
  BY DEF StoreInv, TypeOK, TablesTyped, State
<1>b. /\ m \in Seq(Content) /\ m # <<>> /\ st = Before(m) /\ n = Len(st) + 1 /\ n \in Nat
      /\ Len(st) \in Nat
      /\ BlockRow(w).before = st /\ BlockRow(w).content = m[n]
  BY <1>a, AppliedBlock DEF State
<1>c. \A h \in 1 .. Len(st) : m[h] = st[h]
  <2>1. \A i \in 1 .. (n - 1) : Before(m)[i] = m[i]
    BY <1>b, BeforeElements, Zenon
  <2> QED
    BY <2>1, <1>b
<1>d. /\ protocol_state' = m
      /\ canonical_objects' = Objects(m)
      /\ canonical_events' = canonical_events \cup {[height |-> n, content |-> m[n]]}
  BY <1>b DEF CommitApply, SyncObjects
<1>e. canonical_blocks' = [h \in DOMAIN canonical_blocks \cup {n} |->
        IF h = n THEN BlockRow(w) ELSE canonical_blocks[h]]
  BY DEF CommitApply, InsertBlock
<1>f. DOMAIN canonical_blocks = 1 .. Len(st)
  BY <1>a, Zenon DEF ProjectionsCoherent
<1> HIDE DEF st, m, n
<1>1. DOMAIN canonical_blocks' = 1 .. n
  BY <1>b, <1>e, <1>f
<1>2. ASSUME NEW h \in 1 .. n
      PROVE  /\ canonical_blocks'[h].before = SubSeq(m, 1, h - 1)
             /\ canonical_blocks'[h].content = m[h]
  <2>1. CASE h = n
    BY <2>1, <1>b, <1>e, <1>f DEF Before, n
  <2>2. CASE h # n
    <3>1. h \in 1 .. Len(st) /\ canonical_blocks'[h] = canonical_blocks[h]
      BY <2>2, <1>b, <1>e, <1>f
    <3>2. SubSeq(st, 1, h - 1) = SubSeq(m, 1, h - 1)
      BY <1>b, PrefixOfBefore DEF n
    <3>3. canonical_blocks[h].before = SubSeq(st, 1, h - 1) /\ canonical_blocks[h].content = st[h]
      BY <3>1, <1>a, <1>f DEF ProjectionsCoherent, st
    <3> QED
      BY <3>1, <3>2, <3>3, <1>c
  <2> QED
    BY <2>1, <2>2
<1>3. canonical_events' = {[height |-> h, content |-> m[h]] : h \in 1 .. n}
  <2>1. canonical_events = {[height |-> h, content |-> st[h]] : h \in 1 .. Len(st)}
    BY <1>a DEF ProjectionsCoherent, st
  <2>2. canonical_events = {[height |-> h, content |-> m[h]] : h \in 1 .. Len(st)}
    BY <2>1, <1>c
  <2>3. 1 .. n = (1 .. Len(st)) \cup {n}
    BY <1>b
  <2> QED
    BY <2>2, <2>3, <1>d
<1> QED
  BY <1>1, <1>2, <1>3, <1>d DEF ProjectionsCoherent, n

\* The tables agree after the tip is disconnected.
LEMMA RollbackKeepsCoherence ==
    ASSUME StoreInv, NEW w \in Writer, CommitRollback(w)
    PROVE  ProjectionsCoherent'
<1> DEFINE st == protocol_state
           r == Before(st)
           n == Len(st)
<1>a. ProjectionsCoherent /\ st \in Seq(Content) /\ st # <<>>
  BY RestoredState DEF StoreInv, State
<1>b. /\ n \in Nat \ {0} /\ Len(r) = n - 1
      /\ \A i \in 1 .. (n - 1) : r[i] = st[i]
  BY <1>a, BeforeElements
<1>c. loaded[w] = st /\ canonical_blocks[n].before = r
  BY RestoredState
<1>d. /\ protocol_state' = r
      /\ canonical_objects' = Objects(r)
      /\ canonical_events' = {e \in canonical_events : e.height # n}
      /\ canonical_blocks' = [h \in DOMAIN canonical_blocks \ {n} |-> canonical_blocks[h]]
  BY <1>c DEF CommitRollback, SyncObjects
<1>e. DOMAIN canonical_blocks = 1 .. n
  BY <1>a DEF ProjectionsCoherent
<1>f. \A h \in 1 .. n : /\ canonical_blocks[h].before = SubSeq(st, 1, h - 1)
                        /\ canonical_blocks[h].content = st[h]
  BY <1>a, <1>e, Zenon DEF ProjectionsCoherent
<1>g. canonical_events = {[height |-> h, content |-> st[h]] : h \in 1 .. n}
  BY <1>a DEF ProjectionsCoherent
<1>h. \A h \in 1 .. n : SubSeq(r, 1, h - 1) = SubSeq(st, 1, h - 1)
  BY <1>a, PrefixOfBefore
<1> HIDE DEF st, r, n
<1>1. DOMAIN canonical_blocks' = 1 .. Len(r)
  BY <1>b, <1>d, <1>e
<1>2. ASSUME NEW h \in 1 .. Len(r)
      PROVE  /\ canonical_blocks'[h].before = SubSeq(r, 1, h - 1)
             /\ canonical_blocks'[h].content = r[h]
  <2>1. h \in 1 .. n /\ h \in 1 .. (n - 1) /\ h # n
    BY <1>b
  <2>2. canonical_blocks'[h] = canonical_blocks[h]
    BY <2>1, <1>d, <1>e
  <2> QED
    BY <2>1, <2>2, <1>b, <1>f, <1>h, ZenonT(60)
<1>3. canonical_events' = {[height |-> h, content |-> r[h]] : h \in 1 .. Len(r)}
  <2>1. canonical_events' = {[height |-> h, content |-> st[h]] : h \in 1 .. (n - 1)}
    <3>1. \A e \in canonical_events' : \E h \in 1 .. (n - 1) :
            e = [height |-> h, content |-> st[h]]
      BY <1>b, <1>d, <1>g
    <3>2. \A h \in 1 .. (n - 1) : [height |-> h, content |-> st[h]] \in canonical_events'
      BY <1>b, <1>d, <1>g
    <3> QED
      BY <3>1, <3>2
  <2> QED
    BY <2>1, <1>b
<1> QED
  BY <1>1, <1>2, <1>3, <1>d, ZenonT(60) DEF ProjectionsCoherent

\* The tables agree after every step.
LEMMA StepKeepsCoherence ==
    ASSUME StoreInv, NEW w \in Writer,
           \/ Start(w) \/ BeginApply(w) \/ BeginRollback(w) \/ BeginMempool(w)
           \/ Acquire(w) \/ Progress(w) \/ StatementFails(w) \/ Crash(w)
    PROVE  ProjectionsCoherent'
<1>1. CASE UNCHANGED canonicalVars \/ Bind(w)
  <2>1. /\ protocol_state' = protocol_state /\ canonical_blocks' = canonical_blocks
        /\ canonical_events' = canonical_events /\ canonical_objects' = canonical_objects
    BY <1>1 DEF canonicalVars, Bind
  <2> QED
    BY <2>1 DEF StoreInv, ProjectionsCoherent
<1> QED
  BY <1>1, TablesWritten, ApplyKeepsCoherence, RollbackKeepsCoherence

\* Every process past bind_or_load has the deployment of the database.
LEMMA StepKeepsDeployment ==
    ASSUME StoreInv, NEW w \in Writer,
           \/ Start(w) \/ BeginApply(w) \/ BeginRollback(w) \/ BeginMempool(w)
           \/ Acquire(w) \/ Progress(w) \/ StatementFails(w) \/ Crash(w)
    PROVE  OneDeployment'
<1>a. OneDeployment /\ WriterInv
  BY DEF StoreInv
<1>1. CASE Bind(w)
  <2>1. binding' = config[w].deployment /\ config' = config
    BY <1>1 DEF Bind, Bindable
  <2>2. binding # NoBinding => binding' = binding
    BY <1>1 DEF Bind
  <2>3. \A v \in Writer : op[v] \notin {"down", "bind"} => binding # NoBinding
    BY <1>a, StoreAssumption DEF OneDeployment, WriterInv
  <2>4. \A v \in Writer : v # w => op'[v] = op[v]
    BY <1>1, OthersKeep
  <2> QED
    BY <2>1, <2>2, <2>3, <2>4, <1>a, ZenonT(60) DEF OneDeployment
<1>2. CASE ~Bind(w)
  <2>1. binding' = binding
    BY <1>2, TablesWritten, ZenonT(60) DEF canonicalVars, CommitApply, CommitRollback
  <2>2. \A v \in Writer : v # w => op'[v] = op[v] /\ config'[v] = config[v]
    BY OthersKeep, Zenon
  <2>3. op'[w] \notin {"down", "bind"} => config'[w] = config[w] /\ op[w] \notin {"down", "bind"}
    <3>1. CASE BeginApply(w)
      BY <3>1, ZenonT(60) DEF BeginApply
    <3>2. CASE LoadForApply(w) \/ LoadForRollback(w)
      BY <3>2, Zenon DEF LoadForApply, LoadForRollback, At
    <3> QED
      BY <1>2, <3>1, <3>2, OwnMove, Zenon DEF Moved
  <2> QED
    BY <2>1, <2>2, <2>3, <1>a, Zenon DEF OneDeployment
<1> QED
  BY <1>1, <1>2

-----------------------------------------------------------------------------
(* Theorems. *)

\* The inductive invariant of the store.
THEOREM StoreInvariant == Spec => []StoreInv
<1>1. ASSUME StoreInv, [Next]_vars
      PROVE  StoreInv'
  <2>1. ASSUME NEW w \in Writer,
               \/ Start(w) \/ BeginApply(w) \/ BeginRollback(w) \/ BeginMempool(w)
               \/ Acquire(w) \/ Progress(w) \/ StatementFails(w) \/ Crash(w)
        PROVE  StoreInv'
    BY <1>1, <2>1, StepKeepsWriterTypes, StepKeepsTableTypes, StepKeepsLock, StepKeepsWriters,
       StepKeepsReads, StepKeepsCoherence, StepKeepsDeployment DEF StoreInv, TypeOK
  <2>2. CASE UNCHANGED vars
    <3>1. TypeOK' /\ LockInv' /\ WriterInv' /\ OneDeployment'
      BY <1>1, <2>2 DEF StoreInv, TypeOK, TablesTyped, WritersTyped, LockInv, WriterInv,
         OneDeployment, vars, canonicalVars, transactionVars
    <3>2. ReadInv'
      BY <1>1, <2>2, Zenon DEF StoreInv, ReadInv, At, Before, vars, canonicalVars, transactionVars
    <3>3. ProjectionsCoherent'
      BY <1>1, <2>2, Zenon DEF StoreInv, ProjectionsCoherent, vars, canonicalVars
    <3> QED
      BY <3>1, <3>2, <3>3 DEF StoreInv
  <2> QED
    BY <1>1, <2>1, <2>2 DEF Next
<1> QED
  BY <1>1, StoreInitially, PTL DEF Spec

\* The tables apply_block and rollback_tip write agree, for any number of
\* processes on the database and whatever fails.
THEOREM StoreCoherence == Spec => []ProjectionsCoherent
BY StoreInvariant, PTL DEF StoreInv

\* bind_or_load lets one deployment only into a database.
THEOREM DatabaseOfOneDeployment == Spec => []OneDeployment
BY StoreInvariant, PTL DEF StoreInv

\* No transaction rewrites the row of a block: its release stays.
THEOREM ReleasesStay == Spec => RowsNeverRelabelled
<1>1. ASSUME StoreInv, [Next]_vars
      PROVE  [\A h \in DOMAIN canonical_blocks \cap DOMAIN canonical_blocks' :
                canonical_blocks'[h] = canonical_blocks[h]]_vars
  <2>1. ASSUME NEW w \in Writer,
               \/ Start(w) \/ BeginApply(w) \/ BeginRollback(w) \/ BeginMempool(w)
               \/ Acquire(w) \/ Progress(w) \/ StatementFails(w) \/ Crash(w)
        PROVE  \A h \in DOMAIN canonical_blocks \cap DOMAIN canonical_blocks' :
                canonical_blocks'[h] = canonical_blocks[h]
    <3>1. CASE UNCHANGED canonicalVars \/ Bind(w)
      BY <3>1 DEF canonicalVars, Bind
    <3>2. CASE CommitApply(w)
      <4>1. Len(memory[w]) \notin DOMAIN canonical_blocks
        <5>1. DOMAIN canonical_blocks = 1 .. Len(protocol_state)
          BY <1>1, Zenon DEF StoreInv, ProjectionsCoherent
        <5>2. Len(protocol_state) \in Nat
          BY <1>1 DEF StoreInv, TypeOK, TablesTyped, State
        <5>3. Len(memory[w]) = Len(protocol_state) + 1
          BY <1>1, <3>2, AppliedBlock
        <5> QED
          BY <5>1, <5>2, <5>3
      <4> QED
        BY <3>2, <4>1 DEF CommitApply, InsertBlock
    <3>3. CASE CommitRollback(w)
      BY <3>3 DEF CommitRollback
    <3> QED
      BY <2>1, <3>1, <3>2, <3>3, TablesWritten, ZenonT(60)
  <2> QED
    BY <1>1, <2>1 DEF Next
<1> QED
  BY <1>1, StoreInvariant, PTL DEF Spec, RowsNeverRelabelled

-----------------------------------------------------------------------------
(* Refinement of CanonicalChain. *)

\* The chain of a state.
ChainOf(st) ==
    [h \in 1 .. Len(st) |->
        [hash |-> SubSeq(st, 1, h), previous_hash |-> SubSeq(st, 1, h - 1), height |-> h]]

\* A prefix and the block above it make the next prefix.
LEMMA AppendToPrefix ==
    ASSUME NEW S, NEW s \in Seq(S), NEW h \in 1 .. Len(s)
    PROVE  Append(SubSeq(s, 1, h - 1), s[h]) = SubSeq(s, 1, h)
<1> DEFINE p == SubSeq(s, 1, h - 1)
           q == SubSeq(s, 1, h)
<1>1. h - 1 \in 0 .. Len(s) /\ h \in 0 .. Len(s) /\ s[h] \in S
  OBVIOUS
<1>2. p \in Seq(S) /\ Len(p) = h - 1 /\ \A i \in 1 .. (h - 1) : p[i] = s[i]
  BY <1>1, PrefixElements
<1>3. q \in Seq(S) /\ Len(q) = h /\ \A i \in 1 .. h : q[i] = s[i]
  BY <1>1, PrefixElements
<1> HIDE DEF p, q
<1>4. /\ Append(p, s[h]) \in Seq(S) /\ Len(Append(p, s[h])) = Len(q)
      /\ \A i \in 1 .. h : Append(p, s[h])[i] = q[i]
  BY <1>1, <1>2, <1>3
<1>5. Append(p, s[h]) = q
  BY <1>3, <1>4, SameElements
<1> QED
  BY <1>5 DEF p, q

\* The rows of a coherent database are the chain of its state.
LEMMA RowsAreTheChain ==
    ASSUME TablesTyped, ProjectionsCoherent
    PROVE  StoredChain = ChainOf(protocol_state)
<1>1. protocol_state \in Seq(Content)
  BY DEF TablesTyped, State
<1>2. \A h \in 1 .. Len(protocol_state) :
        /\ canonical_blocks[h].before = SubSeq(protocol_state, 1, h - 1)
        /\ Append(canonical_blocks[h].before, canonical_blocks[h].content)
            = SubSeq(protocol_state, 1, h)
  BY <1>1, AppendToPrefix, Zenon DEF ProjectionsCoherent
<1> QED
  BY <1>2, Zenon DEF StoredChain, ChainOf

\* The chain of a state is that of the state before its tip, with a linked tip.
LEMMA ChainGrowsByTip ==
    ASSUME NEW S, NEW s \in Seq(S), s # <<>>
    PROVE  LET c == ChainOf(s)
           IN  /\ Len(c) = Len(s) /\ Len(ChainOf(Before(s))) = Len(s) - 1
               /\ SubSeq(c, 1, Len(s) - 1) = ChainOf(Before(s))
               /\ c # <<>>
               /\ Len(s) > 1 =>
                    /\ c[Len(s)].previous_hash = c[Len(s) - 1].hash
                    /\ c[Len(s)].height = c[Len(s) - 1].height + 1
<1> DEFINE n == Len(s)
           c == ChainOf(s)
           b == ChainOf(Before(s))
           B == [hash : Seq(S), previous_hash : Seq(S), height : Int]
<1>1. n \in Nat \ {0} /\ Len(Before(s)) = n - 1 /\ Before(s) \in Seq(S)
  BY BeforeElements
<1>2. \A h \in 1 .. n : SubSeq(s, 1, h) \in Seq(S) /\ SubSeq(s, 1, h - 1) \in Seq(S)
  BY <1>1, PrefixElements
<1>3. \A h \in 1 .. (n - 1) : /\ SubSeq(Before(s), 1, h) = SubSeq(s, 1, h)
                              /\ SubSeq(Before(s), 1, h - 1) = SubSeq(s, 1, h - 1)
  <2>1. \A h \in 1 .. n : SubSeq(Before(s), 1, h - 1) = SubSeq(s, 1, h - 1)
    BY PrefixOfBefore
  <2>2. \A h \in 1 .. (n - 1) : h \in 1 .. n /\ h + 1 \in 1 .. n /\ (h + 1) - 1 = h
    BY <1>1
  <2> QED
    BY <2>1, <2>2
<1>4. /\ c = [h \in 1 .. n |-> [hash |-> SubSeq(s, 1, h), previous_hash |-> SubSeq(s, 1, h - 1),
                                height |-> h]]
      /\ b = [h \in 1 .. (n - 1) |-> [hash |-> SubSeq(s, 1, h),
                                      previous_hash |-> SubSeq(s, 1, h - 1), height |-> h]]
  BY <1>1, <1>3, Zenon DEF ChainOf
<1> HIDE DEF n, c, b
<1>5. c \in [1 .. n -> B] /\ b \in [1 .. (n - 1) -> B]
  <2>1. \A h \in 1 .. n : [hash |-> SubSeq(s, 1, h), previous_hash |-> SubSeq(s, 1, h - 1),
                           height |-> h] \in B
    BY <1>1, <1>2
  <2>2. \A h \in 1 .. (n - 1) : h \in 1 .. n
    BY <1>1
  <2> HIDE DEF B
  <2> QED
    BY <2>1, <2>2, <1>4, Zenon
<1> HIDE DEF B
<1>6. c \in Seq(B) /\ Len(c) = n /\ b \in Seq(B) /\ Len(b) = n - 1
  BY <1>1, <1>5
<1>7. n - 1 \in 0 .. Len(c)
  BY <1>1, <1>6
<1>8. /\ SubSeq(c, 1, n - 1) \in Seq(B) /\ Len(SubSeq(c, 1, n - 1)) = n - 1
      /\ \A i \in 1 .. (n - 1) : SubSeq(c, 1, n - 1)[i] = c[i]
  BY <1>6, <1>7, PrefixElements
<1>9. \A i \in 1 .. (n - 1) : c[i] = b[i]
  BY <1>1, <1>4
<1>10. SubSeq(c, 1, n - 1) = b
  <2> DEFINE d == SubSeq(c, 1, n - 1)
  <2>1. d \in Seq(B) /\ Len(d) = Len(b) /\ \A i \in 1 .. Len(d) : d[i] = b[i]
    BY <1>6, <1>8, <1>9
  <2> HIDE DEF d
  <2>2. d = b
    BY <2>1, <1>6, SameElements
  <2> QED
    BY <2>2 DEF d
<1>11. n > 1 => c[n].previous_hash = c[n - 1].hash /\ c[n].height = c[n - 1].height + 1
  <2>1. ASSUME n > 1
        PROVE  n \in 1 .. n /\ n - 1 \in 1 .. n /\ (n - 1) + 1 = n
    BY <1>1, <2>1
  <2> QED
    BY <2>1, <1>4
<1>12. c # <<>>
  BY <1>1, <1>6
<1> QED
  BY <1>6, <1>10, <1>11, <1>12 DEF n, c, b

\* The commits of any number of processes are connects and disconnects of one
\* linked chain.
THEOREM WritersRefineChain == Spec => WritersShareOneChain
<1>1. Init => Chain!Init
  <2> SUFFICES ASSUME Init PROVE StoredChain = <<>>
    BY DEF Chain!Init
  <2>1. 1 .. Len(protocol_state) = {}
    BY DEF Init
  <2> QED
    BY <2>1 DEF StoredChain
<1>2. ASSUME StoreInv, StoreInv', [Next]_vars
      PROVE  Chain!Connect \/ Chain!Disconnect \/ UNCHANGED StoredChain
  <2> DEFINE st == protocol_state
  <2>1. StoredChain = ChainOf(protocol_state) /\ StoredChain' = ChainOf(protocol_state')
    <3>1. StoredChain = ChainOf(protocol_state)
      BY <1>2, RowsAreTheChain DEF StoreInv, TypeOK
    <3>2. (TablesTyped /\ ProjectionsCoherent => StoredChain = ChainOf(protocol_state))'
      BY RowsAreTheChain, PTL
    <3>3. StoredChain' = ChainOf(protocol_state)'
      BY <1>2, <3>2 DEF StoreInv, TypeOK
    <3> QED
      BY <3>1, <3>3, Zenon DEF ChainOf
  <2>2. ASSUME NEW w \in Writer, CommitApply(w)
        PROVE  Chain!Connect
    <3>1. /\ memory[w] \in Seq(Content) /\ memory[w] # <<>> /\ Before(memory[w]) = protocol_state
          /\ protocol_state' = memory[w]
      BY <1>2, <2>2, AppliedBlock, ZenonT(60) DEF CommitApply, State
    <3> QED
      BY <2>1, <3>1, ChainGrowsByTip DEF Chain!Connect, Chain!TipLinked
  <2>3. ASSUME NEW w \in Writer, CommitRollback(w)
        PROVE  Chain!Disconnect
    <3>1. /\ protocol_state \in Seq(Content) /\ protocol_state # <<>>
          /\ protocol_state' = Before(protocol_state)
      BY <1>2, <2>3, RestoredState, Zenon DEF CommitRollback, State
    <3> QED
      BY <2>1, <3>1, ChainGrowsByTip DEF Chain!Disconnect
  <2>4. ASSUME protocol_state' = protocol_state
        PROVE  UNCHANGED StoredChain
    BY <2>1, <2>4
  <2> QED
    BY <1>2, <2>2, <2>3, <2>4, TablesWritten DEF Next, canonicalVars, Bind, vars
<1>3. ASSUME StoreInv, StoreInv', [Next]_vars
      PROVE  [Chain!Connect \/ Chain!Disconnect]_StoredChain
  BY <1>2, <1>3
<1> QED
  BY <1>1, <1>3, StoreInvariant, PTL DEF Spec, WritersShareOneChain, Chain!Spec

-----------------------------------------------------------------------------
(* The overlay, which no lock protects: one replacement at a time. *)

OverlayRow == [txid : MempoolTx, pass : Nat]
Replacement ==
    [seen : SUBSET OverlayRow, gone : SUBSET OverlayRow, todo : SUBSET OverlayRow,
     added : SUBSET OverlayRow]
View == [txs : SUBSET MempoolTx, alone : BOOLEAN]

OverlayTyped ==
    /\ views \in Seq(View)
    /\ mempool_overlay \in SUBSET OverlayRow
    /\ overlay \in [Writer -> Replacement]

\* OverlayOf for the views vs.
RowsOf(vs, n) == {[txid |-> t, pass |-> n] : t \in (IF n = 0 THEN {} ELSE vs[n].txs)}

\* The replacement of w is the latest one: it visits every committed row, and
\* what it has inserted and has still to insert is the mempool it was given.
Replacing(w) ==
    /\ overlay[w].todo \cup overlay[w].added = RowsOf(views, Len(views))
    /\ step[w] = "delete" => overlay[w].seen = mempool_overlay
    /\ step[w] = "insert" => overlay[w].gone = mempool_overlay

OverlayInv ==
    /\ OverlayTyped
    /\ \A w \in Writer : op[w] = "mempool" => step[w] \in {"snapshot", "delete", "insert"}
    /\ (\A n \in DOMAIN views : views[n].alone) =>
        /\ \E n \in 0 .. Len(views) : mempool_overlay = RowsOf(views, n)
        /\ \A v, w \in Writer : op[v] = "mempool" /\ op[w] = "mempool" => v = w
        /\ \A w \in Writer : op[w] = "mempool" => Replacing(w)

\* A further mempool does not change the rows of those before.
LEMMA RowsStay ==
    ASSUME NEW vs \in Seq(View), NEW v \in View
    PROVE  /\ Append(vs, v) \in Seq(View)
           /\ Len(Append(vs, v)) = Len(vs) + 1
           /\ \A n \in 0 .. Len(vs) : RowsOf(Append(vs, v), n) = RowsOf(vs, n)
           /\ RowsOf(Append(vs, v), Len(vs) + 1)
                = {[txid |-> t, pass |-> Len(vs) + 1] : t \in v.txs}
           /\ (\A n \in DOMAIN Append(vs, v) : Append(vs, v)[n].alone) =>
                (\A n \in DOMAIN vs : vs[n].alone) /\ v.alone
<1> DEFINE a == Append(vs, v)
<1>1. /\ a \in Seq(View) /\ Len(a) = Len(vs) + 1 /\ Len(vs) \in Nat
      /\ DOMAIN vs = 1 .. Len(vs) /\ DOMAIN a = 1 .. (Len(vs) + 1)
      /\ \A n \in 1 .. Len(vs) : a[n] = vs[n]
      /\ a[Len(vs) + 1] = v
  OBVIOUS
<1> HIDE DEF a
<1>2. ASSUME NEW n \in 0 .. Len(vs) PROVE RowsOf(a, n) = RowsOf(vs, n)
  <2>1. n # 0 => a[n] = vs[n]
    BY <1>1
  <2> QED
    BY <2>1 DEF RowsOf
<1>3. RowsOf(a, Len(vs) + 1) = {[txid |-> t, pass |-> Len(vs) + 1] : t \in v.txs}
  <2>1. Len(vs) + 1 # 0 /\ a[Len(vs) + 1] = v
    BY <1>1
  <2> QED
    BY <2>1 DEF RowsOf
<1>4. (\A n \in DOMAIN a : a[n].alone) => (\A n \in DOMAIN vs : vs[n].alone) /\ v.alone
  <2> SUFFICES ASSUME \A n \in DOMAIN a : a[n].alone
               PROVE  (\A n \in DOMAIN vs : vs[n].alone) /\ v.alone
    OBVIOUS
  <2>1. Len(vs) + 1 \in DOMAIN a /\ \A n \in 1 .. Len(vs) : n \in DOMAIN a
    BY <1>1
  <2> QED
    BY <1>1, <2>1
<1> QED
  BY <1>1, <1>2, <1>3, <1>4 DEF a

\* A step that replaces nothing: w is in no replacement afterwards, and what it
\* had prepared is forgotten.
Uninvolved(w) ==
    /\ op'[w] # "mempool"
    /\ mempool_overlay' = mempool_overlay /\ views' = views
    /\ overlay' = overlay \/ overlay' = [overlay EXCEPT ![w] = Untouched]

\* Five actions are part of replace_mempool; every other one replaces nothing.
LEMMA ReplacingSteps ==
    ASSUME StoreInv, OverlayInv, NEW w \in Writer,
           \/ Start(w) \/ BeginApply(w) \/ BeginRollback(w) \/ BeginMempool(w)
           \/ Acquire(w) \/ Progress(w) \/ StatementFails(w) \/ Crash(w)
    PROVE  \/ BeginMempool(w) \/ DeleteSnapshot(w) \/ DeleteRows(w) \/ InsertRow(w)
           \/ CommitMempool(w)
           \/ Uninvolved(w)
<1> USE DEF Goto, Begin, EndTransaction, Return, At, transactionVars, mempoolVars
<1>a. op \in [Writer -> Running \cup {"down", "none"}]
  BY DEF StoreInv, TypeOK, WritersTyped
<1> USE <1>a DEF Uninvolved
<1>1. CASE Start(w) \/ BeginApply(w) \/ BeginRollback(w)
  BY <1>1, ZenonT(30) DEF Start, BeginApply, BeginRollback
<1>2. CASE Acquire(w)
  BY <1>2 DEF Acquire, OverlayInv
<1>3. CASE StatementFails(w)
  BY <1>3 DEF StatementFails
<1>4. CASE Crash(w) \/ BindRefused(w)
  BY <1>4 DEF Crash, BindRefused
<1>5. CASE Bind(w)
  BY <1>5 DEF Bind
<1>6. CASE LoadForApply(w) \/ LoadForRollback(w)
  BY <1>6 DEF LoadForApply, LoadForRollback
<1>7. CASE ApplyRefused(w) \/ RollbackRefused(w)
  BY <1>7 DEF ApplyRefused, RollbackRefused
<1>8. CASE Reload(w)
  BY <1>8 DEF Reload
<1>9. CASE CommitApply(w)
  BY <1>9 DEF CommitApply
<1>10. CASE CommitRollback(w)
  BY <1>10, Zenon DEF CommitRollback
<1>11. CASE InsertDuplicate(w) \/ DeadlockDetected(w)
  <2>1. AbortMempool(w)
    BY <1>11, ZenonT(30) DEF InsertDuplicate, DeadlockDetected
  <2> QED
    BY <2>1 DEF AbortMempool
<1> HIDE <1>a DEF Goto, Begin, EndTransaction, Return, At, transactionVars, mempoolVars, Uninvolved
<1> QED
  BY <1>1, <1>2, <1>3, <1>4, <1>5, <1>6, <1>7, <1>8, <1>9, <1>10, <1>11 DEF Progress

\* A step that replaces nothing leaves the replacement of the others alone.
LEMMA UninvolvedKeepsOverlay ==
    ASSUME OverlayInv, NEW w \in Writer, Uninvolved(w),
           \A v \in Writer : v # w => op'[v] = op[v] /\ step'[v] = step[v]
    PROVE  OverlayInv'
<1> USE DEF Uninvolved
<1>1. Untouched \in Replacement
  BY Zenon DEF Untouched, Replacement
<1>2. OverlayTyped'
  BY <1>1, Zenon DEF OverlayInv, OverlayTyped
<1>3. \A v \in Writer : op'[v] = "mempool" =>
        /\ v # w /\ op[v] = "mempool" /\ step'[v] = step[v] /\ overlay'[v] = overlay[v]
  BY DEF OverlayInv, OverlayTyped
<1> HIDE DEF Uninvolved
<1>4. mempool_overlay' = mempool_overlay /\ views' = views
  BY DEF Uninvolved
<1> QED
  BY <1>2, <1>3, <1>4, ZenonT(30) DEF OverlayInv, Replacing

\* A new replacement: with no other one under way it is the only one.
LEMMA BeginKeepsOverlay ==
    ASSUME StoreInv, OverlayInv, NEW w \in Writer, BeginMempool(w)
    PROVE  OverlayInv'
<1>1. PICK txs \in SUBSET MempoolTx :
        /\ views' = Append(views,
            [txs |-> txs, alone |-> \A x \in Writer : op[x] # "mempool"])
        /\ overlay' = [overlay EXCEPT ![w] =
            [Untouched EXCEPT !.todo = {[txid |-> t, pass |-> Len(views) + 1] : t \in txs}]]
  BY Zenon DEF BeginMempool
<1> DEFINE new == [txs |-> txs, alone |-> \A x \in Writer : op[x] # "mempool"]
           rows == {[txid |-> t, pass |-> Len(views) + 1] : t \in txs}
<1>2. /\ op' = [op EXCEPT ![w] = "mempool"] /\ step' = [step EXCEPT ![w] = "snapshot"]
      /\ mempool_overlay' = mempool_overlay
  BY DEF BeginMempool, Begin, Goto
<1>3. op \in [Writer -> Running \cup {"down", "none"}] /\ step \in [Writer -> Statement]
  BY DEF StoreInv, TypeOK, WritersTyped
<1>4. views \in Seq(View) /\ Len(views) \in Nat /\ OverlayTyped
  <2>1. OverlayTyped /\ views \in Seq(View)
    BY Zenon DEF OverlayInv, OverlayTyped
  <2> QED
    BY <2>1, LenProperties, Zenon
<1>5. new \in View /\ new.txs = txs /\ (new.alone <=> \A x \in Writer : op[x] # "mempool")
  BY DEF View
<1>6. rows \in SUBSET OverlayRow
  BY <1>4 DEF OverlayRow
<1> HIDE DEF rows
<1>7. /\ [Untouched EXCEPT !.todo = rows] \in Replacement
      /\ [Untouched EXCEPT !.todo = rows].todo = rows
      /\ [Untouched EXCEPT !.todo = rows].added = {}
  BY <1>6 DEF Untouched, Replacement
<1>8. overlay' = [overlay EXCEPT ![w] = [Untouched EXCEPT !.todo = rows]]
  BY <1>1 DEF rows
<1> HIDE DEF new
<1>9. /\ views' \in Seq(View)
      /\ Len(views') = Len(views) + 1
      /\ \A n \in 0 .. Len(views) : RowsOf(views', n) = RowsOf(views, n)
      /\ RowsOf(views', Len(views) + 1) = {[txid |-> t, pass |-> Len(views) + 1] : t \in new.txs}
      /\ (\A n \in DOMAIN views' : views'[n].alone) =>
            (\A n \in DOMAIN views : views[n].alone) /\ new.alone
  <2>1. views' = Append(views, new)
    BY <1>1 DEF new
  <2> QED
    BY <1>4, <1>5, <2>1, RowsStay
<1>10. RowsOf(views', Len(views')) = rows
  BY <1>5, <1>9 DEF rows
<1>11. OverlayTyped'
  BY <1>2, <1>4, <1>7, <1>8, <1>9 DEF OverlayTyped
<1>12. \A v \in Writer : op'[v] = "mempool" => step'[v] \in {"snapshot", "delete", "insert"}
  BY <1>2, <1>3 DEF OverlayInv
<1>13. ASSUME \A n \in DOMAIN views' : views'[n].alone
       PROVE  /\ \E n \in 0 .. Len(views') : mempool_overlay' = RowsOf(views', n)
              /\ \A v \in Writer : op'[v] = "mempool" => v = w
              /\ Replacing(w)'
  <2>1. (\A n \in DOMAIN views : views[n].alone) /\ \A x \in Writer : op[x] # "mempool"
    BY <1>5, <1>9, <1>13
  <2>2. PICK n \in 0 .. Len(views) : mempool_overlay = RowsOf(views, n)
    BY <2>1 DEF OverlayInv
  <2>3. n \in 0 .. Len(views') /\ mempool_overlay' = RowsOf(views', n)
    BY <1>2, <1>4, <1>9, <2>2
  <2>4. \A v \in Writer : op'[v] = "mempool" => v = w
    BY <1>2, <1>3, <2>1
  <2>5. overlay'[w] = [Untouched EXCEPT !.todo = rows] /\ step'[w] = "snapshot"
    BY <1>2, <1>3, <1>4, <1>8 DEF OverlayTyped
  <2>6. Replacing(w)'
    BY <1>7, <1>10, <2>5 DEF Replacing
  <2> QED
    BY <2>3, <2>4, <2>6
<1> QED
  BY <1>11, <1>12, <1>13 DEF OverlayInv

\* Its statements visit every row, remove them all and insert the new ones.
LEMMA StatementKeepsOverlay ==
    ASSUME StoreInv, OverlayInv, NEW w \in Writer,
           DeleteSnapshot(w) \/ DeleteRows(w) \/ InsertRow(w)
    PROVE  OverlayInv'
<1>1. /\ op[w] = "mempool" /\ op' = op /\ mempool_overlay' = mempool_overlay /\ views' = views
  BY DEF DeleteSnapshot, DeleteRows, InsertRow, At, mempoolVars
<1>2. step \in [Writer -> Statement] /\ overlay \in [Writer -> Replacement] /\ OverlayTyped
  BY DEF StoreInv, TypeOK, WritersTyped, OverlayInv, OverlayTyped
<1>3. overlay[w] \in Replacement /\ mempool_overlay \in SUBSET OverlayRow
  BY <1>2 DEF OverlayTyped
<1>4. \E new \in Replacement, s \in {"delete", "insert"} :
        /\ overlay' = [overlay EXCEPT ![w] = new]
        /\ step' = [step EXCEPT ![w] = s]
        /\ new.todo \cup new.added = overlay[w].todo \cup overlay[w].added
        /\ s = "delete" => new.seen = mempool_overlay
        /\ s = "insert" => \/ step[w] = "insert" /\ new.gone = overlay[w].gone
                           \/ step[w] = "delete" /\ new.gone = overlay[w].seen \cap mempool_overlay
  <2>1. CASE DeleteSnapshot(w)
    <3> DEFINE new == [overlay[w] EXCEPT !.seen = mempool_overlay]
    <3>1. overlay' = [overlay EXCEPT ![w] = new] /\ step' = [step EXCEPT ![w] = "delete"]
      BY <2>1, <1>2 DEF DeleteSnapshot, Goto
    <3>2. /\ new \in Replacement /\ new.seen = mempool_overlay
          /\ new.todo = overlay[w].todo /\ new.added = overlay[w].added
      BY <1>3 DEF Replacement
    <3> QED
      BY <3>1, <3>2, Zenon
  <2>2. CASE DeleteRows(w)
    <3> DEFINE gone == overlay[w].seen \cap mempool_overlay
               new == [overlay[w] EXCEPT !.gone = gone]
    <3>1. /\ overlay' = [overlay EXCEPT ![w] = new] /\ step' = [step EXCEPT ![w] = "insert"]
          /\ step[w] = "delete"
      BY <2>2, <1>2 DEF DeleteRows, Goto, At
    <3>2. /\ new \in Replacement /\ new.gone = gone
          /\ new.todo = overlay[w].todo /\ new.added = overlay[w].added
      BY <1>3 DEF Replacement
    <3> QED
      BY <3>1, <3>2, Zenon
  <2>3. CASE InsertRow(w)
    <3>1. PICK row \in overlay[w].todo :
            overlay' = [overlay EXCEPT ![w].todo = @ \ {row}, ![w].added = @ \cup {row}]
      BY <2>3, Zenon DEF InsertRow
    <3> DEFINE new == [overlay[w] EXCEPT !.todo = @ \ {row}, !.added = @ \cup {row}]
    <3>2. overlay' = [overlay EXCEPT ![w] = new]
      BY <3>1, <1>2, Zenon
    <3>3. step' = step /\ step[w] = "insert" /\ step' = [step EXCEPT ![w] = "insert"]
      BY <2>3, <1>2, Zenon DEF InsertRow, At
    <3>4. /\ new \in Replacement /\ new.gone = overlay[w].gone
          /\ new.todo = overlay[w].todo \ {row} /\ new.added = overlay[w].added \cup {row}
      BY <1>3, ZenonT(30) DEF Replacement
    <3> HIDE DEF new
    <3>5. new.todo \cup new.added = overlay[w].todo \cup overlay[w].added
      BY <3>4
    <3> QED
      BY <3>2, <3>3, <3>4, <3>5, Zenon
  <2> QED
    BY <2>1, <2>2, <2>3, Zenon
<1>5. PICK new \in Replacement, s \in {"delete", "insert"} :
        /\ overlay' = [overlay EXCEPT ![w] = new]
        /\ step' = [step EXCEPT ![w] = s]
        /\ new.todo \cup new.added = overlay[w].todo \cup overlay[w].added
        /\ s = "delete" => new.seen = mempool_overlay
        /\ s = "insert" => \/ step[w] = "insert" /\ new.gone = overlay[w].gone
                           \/ step[w] = "delete" /\ new.gone = overlay[w].seen \cap mempool_overlay
  BY <1>4, ZenonT(30)
<1>6. /\ overlay'[w] = new /\ step'[w] = s
      /\ \A v \in Writer : v # w => overlay'[v] = overlay[v] /\ step'[v] = step[v]
  BY <1>2, <1>5
<1>7. OverlayTyped'
  BY <1>1, <1>2, <1>5, Zenon DEF OverlayTyped
<1>8. \A v \in Writer : op'[v] = "mempool" => step'[v] \in {"snapshot", "delete", "insert"}
  BY <1>1, <1>6, ZenonT(30) DEF OverlayInv
<1>9. Replacing(w) => Replacing(w)'
  BY <1>1, <1>5, <1>6, ZenonT(30) DEF Replacing
<1>10. \A v \in Writer : v # w => (Replacing(v) <=> Replacing(v)')
  BY <1>1, <1>6, Zenon DEF Replacing
<1> QED
  BY <1>1, <1>7, <1>8, <1>9, <1>10, Zenon DEF OverlayInv

\* The commit replaces all rows by the whole new mempool.
LEMMA CommitKeepsOverlay ==
    ASSUME StoreInv, OverlayInv, NEW w \in Writer, CommitMempool(w)
    PROVE  OverlayInv'
<1>1. /\ op[w] = "mempool" /\ step[w] = "insert" /\ overlay[w].todo = {}
      /\ mempool_overlay' = (mempool_overlay \ overlay[w].gone) \cup overlay[w].added
      /\ views' = views
      /\ op' = [op EXCEPT ![w] = "none"] /\ step' = [step EXCEPT ![w] = "none"]
      /\ overlay' = [overlay EXCEPT ![w] = Untouched]
  BY Zenon DEF CommitMempool, At, Return, Begin, Goto, EndTransaction
<1>2. /\ op \in [Writer -> Running \cup {"down", "none"}] /\ step \in [Writer -> Statement]
      /\ overlay \in [Writer -> Replacement] /\ OverlayTyped /\ Len(views) \in Nat
  BY DEF StoreInv, TypeOK, WritersTyped, OverlayInv, OverlayTyped
<1>3. Untouched \in Replacement /\ overlay[w] \in Replacement
  BY <1>2 DEF Untouched, Replacement
<1>4. overlay[w].added \in SUBSET OverlayRow
  BY <1>3 DEF Replacement
<1>5. OverlayTyped'
  BY <1>1, <1>2, <1>3, <1>4 DEF OverlayTyped
<1>6. \A v \in Writer : op'[v] = "mempool" => v # w /\ op[v] = "mempool" /\ step'[v] = step[v]
  BY <1>1, <1>2
<1>7. ASSUME \A n \in DOMAIN views : views[n].alone
      PROVE  /\ \E n \in 0 .. Len(views) : mempool_overlay' = RowsOf(views, n)
             /\ \A v \in Writer : op'[v] # "mempool"
  <2>1. Replacing(w) /\ \A v \in Writer : op[v] = "mempool" => v = w
    BY <1>1, <1>7 DEF OverlayInv
  <2>2. mempool_overlay' = RowsOf(views, Len(views))
    BY <1>1, <2>1, Zenon DEF Replacing
  <2>3. Len(views) \in 0 .. Len(views)
    BY <1>2
  <2> QED
    BY <1>6, <2>1, <2>2, <2>3
<1> QED
  <2>1. \A v \in Writer : op'[v] = "mempool" => step'[v] \in {"snapshot", "delete", "insert"}
    BY <1>6, ZenonT(30) DEF OverlayInv
  <2> QED
    BY <1>1, <1>5, <1>7, <2>1, ZenonT(30) DEF OverlayInv

\* Every step of every process keeps the overlay invariant.
LEMMA StepKeepsOverlay == StoreInv /\ OverlayInv /\ [Next]_vars => OverlayInv'
<1> SUFFICES ASSUME StoreInv, OverlayInv, [Next]_vars PROVE OverlayInv'
  OBVIOUS
<1>1. ASSUME NEW w \in Writer,
             \/ Start(w) \/ BeginApply(w) \/ BeginRollback(w) \/ BeginMempool(w)
             \/ Acquire(w) \/ Progress(w) \/ StatementFails(w) \/ Crash(w)
      PROVE  OverlayInv'
  <2>1. \A v \in Writer : v # w => op'[v] = op[v] /\ step'[v] = step[v]
    BY <1>1, OthersKeep, Zenon
  <2>2. \/ BeginMempool(w) \/ DeleteSnapshot(w) \/ DeleteRows(w) \/ InsertRow(w)
        \/ CommitMempool(w) \/ Uninvolved(w)
    BY <1>1, ReplacingSteps
  <2> QED
    BY <2>1, <2>2, BeginKeepsOverlay, StatementKeepsOverlay, CommitKeepsOverlay,
       UninvolvedKeepsOverlay, ZenonT(30)
<1>2. CASE UNCHANGED vars
  BY <1>2, Zenon DEF vars, mempoolVars, transactionVars, OverlayInv, OverlayTyped, Replacing
<1> QED
  BY <1>1, <1>2 DEF Next

\* While no two processes replace the overlay at once, every reader sees the
\* whole of one mempool, for any number of processes, failures and crashes.
THEOREM OverlayOfOneMempool == Spec => []OverlayWhole
<1>1. Init => OverlayInv
  <2> SUFFICES ASSUME Init PROVE OverlayInv
    OBVIOUS
  <2>1. /\ views = <<>> /\ mempool_overlay = {} /\ overlay = [w \in Writer |-> Untouched]
        /\ op = [w \in Writer |-> "down"]
    BY DEF Init
  <2>2. OverlayTyped
    <3>1. Untouched \in Replacement
      BY DEF Untouched, Replacement
    <3>2. views \in Seq(View)
      BY <2>1
    <3> QED
      BY <2>1, <3>1, <3>2, Zenon DEF OverlayTyped
  <2>3. mempool_overlay = RowsOf(views, 0) /\ 0 \in 0 .. Len(views)
    BY <2>1 DEF RowsOf
  <2> QED
    BY <2>1, <2>2, <2>3 DEF OverlayInv
<1>2. StoreInv /\ OverlayInv /\ [Next]_vars => OverlayInv'
  BY StepKeepsOverlay
<1>3. OverlayInv => OverlayWhole
  BY DEF OverlayInv, OverlayWhole, OverlayWholeAlways, OverlayOf, RowsOf
<1> QED
  BY <1>1, <1>2, <1>3, StoreInvariant, PTL DEF Spec
===============================================================================
