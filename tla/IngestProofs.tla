----------------------------- MODULE IngestProofs ------------------------------
(***************************************************************************)
(* Proofs about Ingest for every chain length, every set of block contents *)
(* and any number of reorganizations, invalidations and failures.          *)
(*                                                                         *)
(* Chains are sequences, and what is known of them is stated element by    *)
(* element or in closed form: Grown says what a ChainState is made of, and *)
(* appending an accepted block or dropping the tip keeps it.               *)
(***************************************************************************)
EXTENDS Ingest, SequenceTheorems, TLAPS

\* The provers of a leaf that names none, in this order.
USE SMT, Zenon, SMTT(30)

Block == Content \cup {"INIT"}

\* A chain with at most one INIT.
Branch == {c \in Seq(Block) : \A i, j \in DOMAIN c : c[i] = "INIT" /\ c[j] = "INIT" => i = j}

View == [hash : Branch \ {<<>>}, exact : BOOLEAN]

\* The blocks of st are the prefixes, from INIT on, of one chain.
Grown(st) ==
    /\ st \in Seq(View)
    /\ st # <<>> => Last(st[1].hash) = "INIT"
    /\ \A i \in 1..Len(st) : Len(st[i].hash) = Len(st[1].hash) + i - 1
    /\ \A j \in 1..Len(st) : \A i \in 1..j : st[i].hash = BlockHash(st[j].hash, Len(st[i].hash))

Comparable(s, t) == IsPrefix(s, t) \/ IsPrefix(t, s)

Health == [last_successful_height : Nat, last_error : BOOLEAN, catching_up : BOOLEAN]

\* What every step keeps, whatever fails.  While a commit is under way the
\* worker's state is one block ahead of what it knows of the store.
StoreInv ==
    /\ core \in Branch
    /\ view \in Branch
    /\ height \in Nat
    /\ best_height \in Nat
    /\ health \in Health
    /\ pc \in {"block", "resolve", "commit"} => height > 0
    /\ pc = "resolve" => view # <<>>
    /\ Grown(state)
    /\ Grown(protocol_state)
    /\ StoreCoherent
    /\ pc \in {"commit", "reload"} => state # <<>> /\ Comparable(Front(state), protocol_state)
    /\ pc \notin {"commit", "reload"} => Comparable(state, protocol_state)

\* The worker's memory follows Core's chain from height - 1 on.
Following ==
    IF state = <<>> THEN HasInit(core) /\ height = InitHeight(core)
    ELSE IsPrefix(Last(state).hash, core) /\ height = TipHeight(state) + 1

\* After a rollback whose answer is lost, or a reload that fails, the worker's
\* memory can differ from the stored state.
MemoryIsStored == "rollback_ack" \notin Faults /\ "reload" \notin Faults

\* What a pass keeps when no answer to a rollback and no reload is lost: the
\* worker's memory is the stored state, and while Core does not move the pass
\* follows its chain.
PassInv ==
    /\ pc \notin {"commit", "reload"} => state = protocol_state
    /\ pc = "commit" => Front(state) = protocol_state
    /\ pc = "find_init" => state = <<>>
    /\ calm =>
        /\ pc \notin {"wait", "run", "status", "best_height"} => best_height = Len(core)
        /\ pc = "rollback" => state # <<>> /\ ~IsPrefix(Last(state).hash, core)
        /\ pc \in {"block", "resolve"} => Following
        /\ pc = "resolve" => height <= Len(core) /\ view = BlockHash(core, height)
        /\ pc = "commit" => IsPrefix(Last(state).hash, core) /\ height = TipHeight(state)
        /\ pc \in {"mempool", "overlay"} => Hashes(state) = CanonicalHashes(core)
        /\ pc = "wait" /\ ~health.last_error => Synced

-----------------------------------------------------------------------------
(* Sequences, chains and ChainStates. *)

\* SubSeq(s, 1, n) is the sequence of the first n elements of s.
LEMMA FirstElements ==
    ASSUME NEW S, NEW s \in Seq(S), NEW n \in 0..Len(s)
    PROVE  /\ SubSeq(s, 1, n) \in Seq(S)
           /\ Len(SubSeq(s, 1, n)) = n
           /\ \A i \in 1..n : SubSeq(s, 1, n)[i] = s[i]
  <1>1. Len(s) \in Nat /\ \A i \in 1..n : s[i] \in S
    BY ElementOfSeq, LenProperties
  <1> QED BY <1>1, SubSeqProperties, 1 \in Int, n \in Int

\* A prefix of a prefix is a prefix of the whole.
LEMMA FirstOfFirst ==
    ASSUME NEW S, NEW s \in Seq(S), NEW n \in 0..Len(s), NEW m \in 0..n
    PROVE  SubSeq(SubSeq(s, 1, n), 1, m) = SubSeq(s, 1, m)
  <1> DEFINE t == SubSeq(s, 1, n)
  <1>1. t \in Seq(S) /\ Len(t) = n /\ \A i \in 1..n : t[i] = s[i]
    BY FirstElements
  <1>2. Len(s) \in Nat BY LenProperties
  <1>3. m \in 0..Len(s) /\ m \in 0..Len(t) BY <1>1, <1>2
  <1>4. /\ SubSeq(s, 1, m) \in Seq(S) /\ Len(SubSeq(s, 1, m)) = m
        /\ \A i \in 1..m : SubSeq(s, 1, m)[i] = s[i]
    BY <1>3, FirstElements
  <1> HIDE DEF t
  <1>5. /\ SubSeq(t, 1, m) \in Seq(S) /\ Len(SubSeq(t, 1, m)) = m
        /\ \A i \in 1..m : SubSeq(t, 1, m)[i] = t[i]
    BY <1>1, <1>3, FirstElements
  <1>6. \A i \in 1..m : SubSeq(t, 1, m)[i] = SubSeq(s, 1, m)[i]
    BY <1>1, <1>2, <1>4, <1>5
  <1>7. SubSeq(t, 1, m) = SubSeq(s, 1, m)
    BY <1>4, <1>5, <1>6, SeqEqual
  <1> QED BY <1>7 DEF t

\* IsPrefix says that the shorter sequence is the beginning of the longer one.
LEMMA PrefixIsBeginning ==
    ASSUME NEW S, NEW s \in Seq(S), NEW t \in Seq(S)
    PROVE  IsPrefix(s, t) <=> Len(s) <= Len(t) /\ s = SubSeq(t, 1, Len(s))
  BY SubSeqFull DEF IsPrefix

\* A nonempty sequence is its front followed by its last element.
LEMMA FrontAndLast ==
    ASSUME NEW S, NEW s \in Seq(S), s # <<>>
    PROVE  /\ Len(s) \in Nat \ {0}
           /\ Last(s) \in S
           /\ Front(s) \in Seq(S)
           /\ Len(Front(s)) = Len(s) - 1
           /\ \A i \in 1..(Len(s) - 1) : Front(s)[i] = s[i]
           /\ s = Append(Front(s), Last(s))
  <1>1. Len(s) \in Nat \ {0} BY EmptySeq
  <1>2. Len(s) - 1 \in 0..Len(s) BY <1>1
  <1>3. /\ Front(s) \in Seq(S) /\ Len(Front(s)) = Len(s) - 1
        /\ \A i \in 1..(Len(s) - 1) : Front(s)[i] = s[i]
    BY <1>2, FirstElements, ZenonT(30) DEF Front
  <1>4. Last(s) \in S BY <1>1, ElementOfSeq DEF Last
  <1>5. /\ Append(Front(s), Last(s)) \in Seq(S)
        /\ Len(Append(Front(s), Last(s))) = Len(s)
        /\ \A i \in 1..(Len(s) - 1) : Append(Front(s), Last(s))[i] = s[i]
        /\ Append(Front(s), Last(s))[Len(s)] = s[Len(s)]
    BY <1>1, <1>3, <1>4, AppendProperties DEF Last
  <1>6. \A i \in 1..Len(s) : Append(Front(s), Last(s))[i] = s[i]
    BY <1>1, <1>5
  <1>7. s = Append(Front(s), Last(s))
    BY <1>5, <1>6, SeqEqual
  <1> QED BY <1>1, <1>3, <1>4, <1>7

\* The front of an extended sequence is the sequence.
LEMMA FrontOfAppend ==
    ASSUME NEW S, NEW s \in Seq(S), NEW e \in S
    PROVE  /\ Front(Append(s, e)) = s
           /\ Last(Append(s, e)) = e
  <1> DEFINE t == Append(s, e)
  <1>1. /\ t \in Seq(S) /\ t # <<>>
        /\ Len(t) = Len(s) + 1
        /\ \A i \in 1..Len(s) : t[i] = s[i]
        /\ t[Len(s) + 1] = e
    BY AppendProperties
  <1> HIDE DEF t
  <1>2. Len(s) \in Nat BY LenProperties
  <1>3. /\ Front(t) \in Seq(S)
        /\ Len(Front(t)) = Len(t) - 1
        /\ \A i \in 1..(Len(t) - 1) : Front(t)[i] = t[i]
    BY <1>1, FrontAndLast
  <1>4. Len(Front(t)) = Len(s) /\ \A i \in 1..Len(s) : Front(t)[i] = s[i]
    BY <1>1, <1>2, <1>3
  <1>5. Front(t) = s
    BY <1>3, <1>4, SeqEqual
  <1> QED BY <1>1, <1>5 DEF Last, t

\* Two sequences of which one is a prefix of the other stay so when the last
\* element of one of them is dropped.
LEMMA ComparableFront ==
    ASSUME NEW S, NEW s \in Seq(S), NEW t \in Seq(S), t # <<>>, Comparable(s, t)
    PROVE  Comparable(s, Front(t)) /\ Comparable(Front(t), s)
  <1>1. /\ Front(t) \in Seq(S) /\ Len(Front(t)) = Len(t) - 1
        /\ Len(t) \in Nat /\ Len(t) > 0 /\ Len(s) \in Nat
    BY FrontAndLast, LenProperties
  <1>2. Front(t) = SubSeq(t, 1, Len(t) - 1) BY DEF Front
  <1>3. CASE Len(s) < Len(t)
    <2>1. s = SubSeq(t, 1, Len(s))
      BY <1>1, <1>3, PrefixIsBeginning DEF Comparable
    <2>2. SubSeq(Front(t), 1, Len(s)) = SubSeq(t, 1, Len(s))
      BY <1>1, <1>2, <1>3, FirstOfFirst
    <2> QED BY <1>1, <1>3, <2>1, <2>2, PrefixIsBeginning DEF Comparable
  <1>4. CASE Len(s) >= Len(t)
    <2>1. t = SubSeq(s, 1, Len(t))
      <3>1. CASE IsPrefix(t, s) BY <3>1, PrefixIsBeginning
      <3>2. CASE IsPrefix(s, t)
        <4>1. Len(s) = Len(t) /\ s = SubSeq(t, 1, Len(t))
          BY <1>1, <1>4, <3>2, PrefixIsBeginning
        <4>2. s = t BY <4>1, SubSeqFull
        <4> QED BY <4>2, SubSeqFull
      <3> QED BY <3>1, <3>2 DEF Comparable
    <2>2. SubSeq(SubSeq(s, 1, Len(t)), 1, Len(t) - 1) = SubSeq(s, 1, Len(t) - 1)
      BY <1>1, <1>4, FirstOfFirst
    <2>3. Front(t) = SubSeq(s, 1, Len(Front(t)))
      BY <1>1, <1>2, <2>1, <2>2
    <2> QED BY <1>1, <1>4, <2>3, PrefixIsBeginning DEF Comparable
  <1> QED BY <1>1, <1>3, <1>4

\* A sequence is comparable with itself.
LEMMA ComparableSelf ==
    ASSUME NEW S, NEW s \in Seq(S)
    PROVE  Comparable(s, s)
  BY SubSeqFull, LenProperties, PrefixIsBeginning DEF Comparable

\* The block hashes of a chain: prefixes of the chain that are chains.
LEMMA BlockHashes ==
    ASSUME NEW c \in Branch, NEW h \in 0..Len(c)
    PROVE  /\ BlockHash(c, h) \in Branch
           /\ Len(BlockHash(c, h)) = h
           /\ \A i \in 1..h : BlockHash(c, h)[i] = c[i]
           /\ \A g \in 0..h : BlockHash(BlockHash(c, h), g) = BlockHash(c, g)
           /\ h > 0 => BlockHash(c, h) # <<>> /\ Front(BlockHash(c, h)) = BlockHash(c, h - 1)
           /\ BlockHash(c, Len(c)) = c
  <1> DEFINE d == SubSeq(c, 1, h)
  <1>1. c \in Seq(Block) BY DEF Branch
  <1>2. Len(c) \in Nat /\ DOMAIN c = 1..Len(c) BY <1>1, LenProperties
  <1>3. d \in Seq(Block) /\ Len(d) = h /\ \A i \in 1..h : d[i] = c[i]
    BY <1>1, FirstElements
  <1>4. \A g \in 0..h : SubSeq(d, 1, g) = SubSeq(c, 1, g)
    BY <1>1, FirstOfFirst
  <1>5. SubSeq(c, 1, Len(c)) = c BY <1>1, SubSeqFull
  <1> HIDE DEF d
  <1>6. DOMAIN d = 1..h BY <1>3, LenProperties
  <1>7. d \in Branch
    BY <1>1, <1>2, <1>3, <1>6 DEF Branch
  <1>8. h > 0 => d # <<>>
    BY <1>3, EmptySeq
  <1>9. h > 0 => Front(d) = SubSeq(c, 1, h - 1)
    BY <1>2, <1>3, <1>4 DEF Front
  <1> QED BY <1>3, <1>4, <1>5, <1>7, <1>8, <1>9 DEF BlockHash, d

\* A chain is a prefix of another when it is the hash of one of its blocks.
LEMMA PrefixIsBlockHash ==
    ASSUME NEW c \in Branch, NEW d \in Branch
    PROVE  /\ Len(c) \in Nat
           /\ IsPrefix(d, c) <=> Len(d) <= Len(c) /\ BlockHash(c, Len(d)) = d
  <1>1. c \in Seq(Block) /\ d \in Seq(Block) BY DEF Branch
  <1> QED BY <1>1, PrefixIsBeginning, LenProperties DEF BlockHash

\* The configured INIT of a chain has one height.
LEMMA InitHeightIs ==
    ASSUME NEW c \in Branch, NEW h \in 1..Len(c), c[h] = "INIT"
    PROVE  HasInit(c) /\ InitHeight(c) = h
  <1>1. c \in Seq(Block) BY DEF Branch
  <1>2. DOMAIN c = 1..Len(c) BY <1>1, LenProperties
  <1>3. HasInit(c) BY <1>2 DEF HasInit
  <1>4. InitHeight(c) \in DOMAIN c /\ c[InitHeight(c)] = "INIT"
    BY <1>3 DEF HasInit, InitHeight
  <1>5. InitHeight(c) = h BY <1>2, <1>4 DEF Branch
  <1> QED BY <1>3, <1>5

\* The height of INIT is a height of the chain.
LEMMA InitHeightInRange ==
    ASSUME NEW c \in Branch, HasInit(c)
    PROVE  InitHeight(c) \in 1..Len(c) /\ c[InitHeight(c)] = "INIT"
  <1>1. c \in Seq(Block) BY DEF Branch
  <1>2. DOMAIN c = 1..Len(c) BY <1>1, LenProperties
  <1> QED BY <1>2 DEF HasInit, InitHeight

\* The types of the blocks of a ChainState.
LEMMA GrownTypes ==
    ASSUME NEW st, Grown(st)
    PROVE  /\ st \in Seq(View)
           /\ Len(st) \in Nat
           /\ DOMAIN st = 1..Len(st)
           /\ st # <<>> <=> Len(st) > 0
           /\ \A i \in 1..Len(st) :
                /\ st[i] \in View
                /\ st[i].hash \in Branch /\ st[i].hash # <<>>
                /\ Len(st[i].hash) \in Nat /\ Len(st[i].hash) > 0
           /\ st # <<>> => /\ Last(st) = st[Len(st)] /\ Last(st) \in View
                           /\ Last(st).hash \in Branch /\ TipHeight(st) \in Nat /\ TipHeight(st) > 0
  <1>1. st \in Seq(View) BY DEF Grown
  <1>2. Len(st) \in Nat /\ DOMAIN st = 1..Len(st) BY <1>1, LenProperties
  <1>3. st # <<>> <=> Len(st) > 0 BY <1>1, <1>2, EmptySeq
  <1>4. \A i \in 1..Len(st) : st[i] \in View BY <1>1, ElementOfSeq
  <1>5. \A v \in View : /\ v.hash \in Branch /\ v.hash # <<>>
                        /\ Len(v.hash) \in Nat /\ Len(v.hash) > 0
    <2> SUFFICES ASSUME NEW v \in View
                 PROVE  /\ v.hash \in Branch /\ v.hash # <<>>
                        /\ Len(v.hash) \in Nat /\ Len(v.hash) > 0
      OBVIOUS
    <2>1. v.hash \in Branch /\ v.hash # <<>> BY DEF View
    <2>2. v.hash \in Seq(Block) BY <2>1 DEF Branch
    <2> QED BY <2>1, <2>2, EmptySeq
  <1>6. st # <<>> => Last(st) = st[Len(st)] /\ Last(st) \in View
    BY <1>2, <1>3, <1>4 DEF Last
  <1> QED BY <1>1, <1>2, <1>3, <1>4, <1>5, <1>6 DEF TipHeight

\* A ChainState without its last blocks is a ChainState.
LEMMA GrownPrefix ==
    ASSUME NEW st, Grown(st), NEW n \in 0..Len(st)
    PROVE  Grown(SubSeq(st, 1, n))
  <1> DEFINE p == SubSeq(st, 1, n)
  <1>1. st \in Seq(View) /\ Len(st) \in Nat BY GrownTypes
  <1>2. p \in Seq(View) /\ Len(p) = n /\ \A i \in 1..n : p[i] = st[i]
    BY <1>1, FirstElements
  <1> HIDE DEF p
  <1>3. p # <<>> => n > 0 BY <1>2, EmptySeq
  <1>4. \A i \in 1..n : i \in 1..Len(st) BY <1>1
  <1>5. p # <<>> => Last(p[1].hash) = "INIT" /\ st # <<>> /\ p[1] = st[1]
    BY <1>1, <1>2, <1>3, GrownTypes DEF Grown
  <1>6. \A i \in 1..n : Len(p[i].hash) = Len(p[1].hash) + i - 1
    <2> SUFFICES ASSUME NEW i \in 1..n
                 PROVE  Len(p[i].hash) = Len(p[1].hash) + i - 1
      OBVIOUS
    <2>1. p[i] = st[i] /\ p[1] = st[1] /\ i \in 1..Len(st) BY <1>1, <1>2
    <2> QED BY <2>1 DEF Grown
  <1>7. \A j \in 1..n : \A i \in 1..j : p[i].hash = BlockHash(p[j].hash, Len(p[i].hash))
    <2> SUFFICES ASSUME NEW j \in 1..n, NEW i \in 1..j
                 PROVE  p[i].hash = BlockHash(p[j].hash, Len(p[i].hash))
      OBVIOUS
    <2>1. p[i] = st[i] /\ p[j] = st[j] /\ j \in 1..Len(st) BY <1>1, <1>2
    <2> QED BY <2>1 DEF Grown
  <1>8. Grown(p) BY <1>2, <1>5, <1>6, <1>7 DEF Grown
  <1> QED BY <1>8 DEF p

\* apply_block's linkage checks keep a ChainState one: INIT comes first, and
\* each block's parent is the block before it.
LEMMA GrownAppend ==
    ASSUME NEW st, Grown(st), NEW v \in View, Accepts(st, v)
    PROVE  Grown(Append(st, v))
  <1> DEFINE a == Append(st, v)
             n == Len(st)
  <1>1. st \in Seq(View) /\ n \in Nat BY GrownTypes
  <1>2. /\ a \in Seq(View) /\ Len(a) = n + 1
        /\ \A i \in 1..n : a[i] = st[i]
        /\ a[n + 1] = v
    BY <1>1, AppendProperties
  <1>3. v.hash \in Branch /\ v.hash # <<>> BY DEF View
  <1>4. Len(v.hash) \in Nat /\ Len(v.hash) > 0
    BY <1>3, EmptySeq DEF Branch
  <1> HIDE DEF a
  <1>5. BlockHash(v.hash, Len(v.hash)) = v.hash BY <1>3, <1>4, BlockHashes
  <1>6. CASE st = <<>>
    <2>1. n = 0 BY <1>6, EmptySeq
    <2>2. Len(a) = 1 /\ a[1] = v BY <1>2, <2>1
    <2>3. Last(v.hash) = "INIT" BY <1>6 DEF Accepts
    <2> QED BY <1>2, <1>4, <1>5, <2>2, <2>3 DEF Grown, a
  <1>7. CASE st # <<>>
    <2>1. n > 0 /\ Last(st) = st[n] /\ st[n].hash \in Branch /\ Len(st[n].hash) \in Nat
      BY <1>7, GrownTypes
    <2>2. BlockHash(v.hash, Len(v.hash) - 1) = st[n].hash
      BY <1>7, <2>1 DEF Accepts, BlockHash, Front
    <2>3. Len(st[n].hash) = Len(v.hash) - 1
      <3>1. Len(v.hash) - 1 \in 0..Len(v.hash) BY <1>4
      <3>2. Len(BlockHash(v.hash, Len(v.hash) - 1)) = Len(v.hash) - 1
        BY <1>3, <3>1, BlockHashes
      <3> QED BY <2>2, <3>2
    <2>4. a[1] = st[1] /\ a # <<>> BY <1>1, <1>2, <2>1, EmptySeq
    <2>5. \A i \in 1..Len(a) : Len(a[i].hash) = Len(a[1].hash) + i - 1
      <3>1. Len(st[n].hash) = Len(st[1].hash) + n - 1 BY <1>1, <2>1 DEF Grown
      <3>2. Len(v.hash) = Len(st[1].hash) + n
        BY <1>1, <1>4, <2>1, <2>3, <3>1, GrownTypes
      <3>3. \A i \in 1..n : Len(st[i].hash) = Len(st[1].hash) + i - 1 BY DEF Grown
      <3>4. \A i \in 1..n : Len(a[i].hash) = Len(a[1].hash) + i - 1 BY <1>2, <2>4, <3>3
      <3>5. Len(a[n + 1].hash) = Len(a[1].hash) + (n + 1) - 1
        BY <1>1, <1>2, <1>4, <2>4, <3>2, GrownTypes
      <3>6. \A i \in 1..Len(a) : i \in 1..n \/ i = n + 1 BY <1>1, <1>2
      <3> QED BY <3>4, <3>5, <3>6
    <2>6. \A i \in 1..n : st[i].hash = BlockHash(v.hash, Len(st[i].hash))
      <3> SUFFICES ASSUME NEW i \in 1..n
                   PROVE  st[i].hash = BlockHash(v.hash, Len(st[i].hash))
        OBVIOUS
      <3>1. st[i].hash = BlockHash(st[n].hash, Len(st[i].hash)) BY <1>1, <2>1 DEF Grown
      <3>2. Len(st[i].hash) \in 0..Len(st[n].hash)
        <4>1. Len(st[i].hash) = Len(st[1].hash) + i - 1 /\ Len(st[n].hash) = Len(st[1].hash) + n - 1
          BY <1>1, <2>1 DEF Grown
        <4> QED BY <1>1, <2>1, <4>1, GrownTypes
      <3>3. \A g \in 0..(Len(v.hash) - 1) :
                BlockHash(BlockHash(v.hash, Len(v.hash) - 1), g) = BlockHash(v.hash, g)
        BY <1>3, <1>4, BlockHashes
      <3> QED BY <2>2, <2>3, <3>1, <3>2, <3>3
    <2>7. \A j \in 1..Len(a) : \A i \in 1..j : a[i].hash = BlockHash(a[j].hash, Len(a[i].hash))
      <3> SUFFICES ASSUME NEW j \in 1..Len(a), NEW i \in 1..j
                   PROVE  a[i].hash = BlockHash(a[j].hash, Len(a[i].hash))
        OBVIOUS
      <3>1. CASE j <= n
        <4>1. j \in 1..n /\ a[i] = st[i] /\ a[j] = st[j] BY <1>1, <1>2, <3>1
        <4> QED BY <4>1 DEF Grown
      <3>2. CASE j = n + 1 /\ i <= n BY <1>1, <1>2, <2>6, <3>2
      <3>3. CASE j = n + 1 /\ i = n + 1 BY <1>2, <1>5, <3>3
      <3> QED BY <1>1, <1>2, <3>1, <3>2, <3>3
    <2>8. Last(a[1].hash) = "INIT" BY <1>7, <2>4 DEF Grown
    <2>9. Grown(a) BY <1>2, <2>5, <2>7, <2>8 DEF Grown
    <2> QED BY <2>9 DEF a
  <1> QED BY <1>6, <1>7

\* A ChainState holds exactly the blocks of its tip's chain from INIT on.
LEMMA GrownIsWhole ==
    ASSUME NEW st, Grown(st), st # <<>>
    PROVE  Hashes(st) = CanonicalHashes(Last(st).hash)
  <1> DEFINE c == Last(st).hash
             first == Len(st[1].hash)
             n == Len(st)
  <1>1. /\ n \in Nat /\ n > 0 /\ DOMAIN st = 1..n /\ Last(st) = st[n]
        /\ c \in Branch /\ Len(c) \in Nat
        /\ st[1].hash \in Branch /\ first \in Nat /\ first > 0
    BY GrownTypes
  <1>2. \A i \in 1..n : Len(st[i].hash) = first + i - 1 BY DEF Grown
  <1>3. Len(c) = first + n - 1 BY <1>1, <1>2
  <1>4. \A i \in 1..n : st[i].hash = BlockHash(c, first + i - 1)
    <2> SUFFICES ASSUME NEW i \in 1..n
                 PROVE  st[i].hash = BlockHash(c, first + i - 1)
      OBVIOUS
    <2>1. n \in 1..n BY <1>1
    <2>2. st[i].hash = BlockHash(st[n].hash, Len(st[i].hash)) BY <2>1 DEF Grown
    <2> QED BY <1>1, <1>2, <2>2, Zenon
  <1>5. c[first] = "INIT"
    <2>1. st[1].hash = BlockHash(c, first) BY <1>1, <1>4
    <2>2. BlockHash(c, first)[first] = c[first] BY <1>1, <1>3, BlockHashes
    <2>3. st[1].hash[first] = "INIT" BY DEF Grown, Last
    <2> QED BY <2>1, <2>2, <2>3
  <1>6. HasInit(c) /\ InitHeight(c) = first BY <1>1, <1>3, <1>5, InitHeightIs
  <1>7. Len(c) - InitHeight(c) + 1 = n BY <1>1, <1>3, <1>6
  <1> HIDE DEF c, first, n
  <1>8. CanonicalHashes(c) = [i \in 1..n |-> BlockHash(c, first + i - 1)]
    BY <1>6, <1>7 DEF CanonicalHashes
  <1>9. Hashes(st) = [i \in 1..n |-> st[i].hash] BY <1>1 DEF Hashes
  <1> QED BY <1>4, <1>8, <1>9 DEF c

-----------------------------------------------------------------------------
(* The store's transactions. *)

\* Committing the block the worker reduced stores the worker's state, with one
\* more journal row.
LEMMA StoreBlockKeeps ==
    ASSUME Grown(state), state # <<>>, StoreCoherent,
           Committable(Front(state), Last(state)), StoreBlock(Front(state), Last(state))
    PROVE  protocol_state' = state /\ StoreCoherent'
  <1> DEFINE v == Last(state)
             n == Len(state)
  <1>1. /\ state \in Seq(View) /\ n \in Nat /\ n > 0 /\ DOMAIN state = 1..n
        /\ v = state[n] /\ Len(v.hash) \in Nat
    BY GrownTypes
  <1>2. /\ Front(state) \in Seq(View) /\ Len(Front(state)) = n - 1
        /\ \A i \in 1..(n - 1) : Front(state)[i] = state[i]
        /\ Append(Front(state), v) = state
    BY <1>1, FrontAndLast, ZenonT(30)
  <1>3. protocol_state = Front(state) BY DEF Committable
  <1>4. protocol_state' = state BY <1>2 DEF StoreBlock
  <1>5. DOMAIN protocol_state = 1..(n - 1) BY <1>2, <1>3, LenProperties
  <1>6. \A i \in 1..(n - 1) :
            /\ Len(state[i].hash) # Len(v.hash)
            /\ i \in 1..n
            /\ protocol_state[i] = state[i]
            /\ SubSeq(protocol_state, 1, i - 1) = SubSeq(state, 1, i - 1)
    <2> SUFFICES ASSUME NEW i \in 1..(n - 1)
                 PROVE  /\ Len(state[i].hash) # Len(v.hash)
                        /\ i \in 1..n
                        /\ protocol_state[i] = state[i]
                        /\ SubSeq(protocol_state, 1, i - 1) = SubSeq(state, 1, i - 1)
      OBVIOUS
    <2>1. i \in 1..n /\ n \in 1..n BY <1>1
    <2>2. Len(state[i].hash) = Len(state[1].hash) + i - 1 /\ Len(v.hash) = Len(state[1].hash) + n - 1
      BY <1>1, <2>1 DEF Grown
    <2>3. Len(state[1].hash) \in Nat BY <1>1, GrownTypes
    <2>4. Len(state[i].hash) # Len(v.hash) BY <1>1, <2>2, <2>3
    <2>5. n - 1 \in 0..Len(state) /\ i - 1 \in 0..(n - 1) BY <1>1
    <2>6. SubSeq(SubSeq(state, 1, n - 1), 1, i - 1) = SubSeq(state, 1, i - 1)
      BY <1>1, <2>5, FirstOfFirst
    <2> QED BY <1>2, <1>3, <2>1, <2>4, <2>6 DEF Front
  <1> HIDE DEF v, n
  <1>7. /\ DOMAIN canonical_blocks' = DOMAIN canonical_blocks \cup {Len(v.hash)}
        /\ canonical_blocks'[Len(v.hash)] = [block |-> v, before |-> Front(state)]
        /\ \A h \in DOMAIN canonical_blocks :
                h # Len(v.hash) => canonical_blocks'[h] = canonical_blocks[h]
    BY DEF StoreBlock, v
  <1>8. DOMAIN canonical_blocks = {Len(protocol_state[i].hash) : i \in 1..(n - 1)}
    BY <1>5 DEF StoreCoherent
  <1>9. DOMAIN canonical_blocks' = {Len(state[i].hash) : i \in 1..n}
    <2>1. DOMAIN canonical_blocks = {Len(state[i].hash) : i \in 1..(n - 1)}
      BY <1>6, <1>8
    <2>2. \A i \in 1..n : i \in 1..(n - 1) \/ i = n BY <1>1
    <2> QED BY <1>1, <1>7, <2>1, <2>2
  <1>10. ASSUME NEW i \in 1..n
         PROVE  canonical_blocks'[Len(state[i].hash)] =
                    [block |-> state[i], before |-> SubSeq(state, 1, i - 1)]
    <2>1. CASE i = n BY <1>1, <1>7, <2>1 DEF Front, n
    <2>2. CASE i \in 1..(n - 1)
      <3>1. Len(state[i].hash) \in DOMAIN canonical_blocks BY <1>6, <1>8, <2>2
      <3>2. canonical_blocks'[Len(state[i].hash)] = canonical_blocks[Len(state[i].hash)]
        BY <1>6, <1>7, <2>2, <3>1
      <3>3. canonical_blocks[Len(protocol_state[i].hash)] =
                [block |-> protocol_state[i], before |-> SubSeq(protocol_state, 1, i - 1)]
        BY <1>5, <2>2 DEF StoreCoherent
      <3> QED BY <1>6, <2>2, <3>2, <3>3
    <2> QED BY <1>1, <2>1, <2>2
  <1>11. StoreCoherent' BY <1>1, <1>4, <1>9, <1>10, ZenonT(30) DEF StoreCoherent
  <1> QED BY <1>4, <1>11

\* Rolling back restores the state below the stored tip, and takes its row away.
LEMMA StoreRollbackKeeps ==
    ASSUME Grown(protocol_state), StoreCoherent, StoreRollback
    PROVE  /\ protocol_state # <<>>
           /\ protocol_state' = Front(protocol_state)
           /\ Grown(protocol_state')
           /\ StoreCoherent'
  <1> DEFINE st == protocol_state
             n == Len(protocol_state)
             tip == TipHeight(protocol_state)
  <1>1. st # <<>> BY DEF StoreRollback, Rollbackable
  <1>2. /\ st \in Seq(View) /\ n \in Nat /\ n > 0 /\ DOMAIN st = 1..n
        /\ Last(st) = st[n] /\ tip \in Nat /\ tip = Len(st[n].hash)
    BY <1>1, GrownTypes DEF TipHeight
  <1>3. \A i \in 1..n : canonical_blocks[Len(st[i].hash)] =
                            [block |-> st[i], before |-> SubSeq(st, 1, i - 1)]
    BY <1>2, Zenon DEF StoreCoherent
  <1>4. canonical_blocks[tip].before = SubSeq(st, 1, n - 1)
    <2>1. n \in 1..n BY <1>2
    <2>2. canonical_blocks[Len(st[n].hash)] = [block |-> st[n], before |-> SubSeq(st, 1, n - 1)]
      BY <1>3, <2>1
    <2> QED BY <1>2, <2>2
  <1>5. st' = SubSeq(st, 1, n - 1) BY <1>4 DEF StoreRollback
  <1>6. n - 1 \in 0..Len(st) BY <1>2
  <1>7. Grown(st') BY <1>5, <1>6, GrownPrefix
  <1>8. st' \in Seq(View) /\ Len(st') = n - 1 /\ \A i \in 1..(n - 1) : st'[i] = st[i]
    BY <1>2, <1>5, <1>6, FirstElements
  <1>9. DOMAIN st' = 1..(n - 1) BY <1>8, LenProperties
  <1>10. /\ DOMAIN canonical_blocks' = DOMAIN canonical_blocks \ {tip}
         /\ \A h \in DOMAIN canonical_blocks \ {tip} : canonical_blocks'[h] = canonical_blocks[h]
    BY DEF StoreRollback
  <1>11. DOMAIN canonical_blocks = {Len(st[i].hash) : i \in 1..n} BY <1>2 DEF StoreCoherent
  <1>12. \A i \in 1..(n - 1) : Len(st[i].hash) # tip /\ i \in 1..n
    <2>1. \A i \in 1..n : Len(st[i].hash) = Len(st[1].hash) + i - 1 BY DEF Grown
    <2>2. Len(st[1].hash) \in Nat BY <1>2, GrownTypes
    <2>3. Len(st[n].hash) = Len(st[1].hash) + n - 1 BY <1>2, <2>1
    <2> SUFFICES ASSUME NEW i \in 1..(n - 1)
                 PROVE  Len(st[i].hash) # tip /\ i \in 1..n
      OBVIOUS
    <2>4. i \in 1..n BY <1>2
    <2>5. Len(st[i].hash) = Len(st[1].hash) + i - 1 BY <2>1, <2>4
    <2> HIDE DEF n, tip
    <2> QED BY <1>2, <2>2, <2>3, <2>4, <2>5
  <1> HIDE DEF st, n, tip
  <1>13. DOMAIN canonical_blocks' = {Len(st'[i].hash) : i \in 1..(n - 1)}
    <2>1. \A i \in 1..n : i \in 1..(n - 1) \/ i = n BY <1>2
    <2> QED BY <1>2, <1>8, <1>10, <1>11, <1>12, <2>1
  <1>14. ASSUME NEW i \in 1..(n - 1)
         PROVE  canonical_blocks'[Len(st'[i].hash)] =
                    [block |-> st'[i], before |-> SubSeq(st', 1, i - 1)]
    <2>1. i \in 1..n /\ Len(st[i].hash) \in DOMAIN canonical_blocks \ {tip}
      BY <1>11, <1>12
    <2>2. canonical_blocks'[Len(st[i].hash)] = [block |-> st[i], before |-> SubSeq(st, 1, i - 1)]
      BY <1>3, <1>10, <2>1
    <2>3. i - 1 \in 0..(n - 1) BY <1>2
    <2>4. SubSeq(SubSeq(st, 1, n - 1), 1, i - 1) = SubSeq(st, 1, i - 1)
      BY <1>2, <1>6, <2>3, FirstOfFirst
    <2> QED BY <1>5, <1>8, <2>2, <2>4
  <1>15. StoreCoherent' BY <1>9, <1>13, <1>14 DEF StoreCoherent, st
  <1> QED BY <1>1, <1>5, <1>7, <1>15 DEF st, n, Front

-----------------------------------------------------------------------------
(* Every step keeps StoreInv. *)

\* The chains Core may have are chains.
LEMMA ChainsAreBranches ==
    /\ Chains \subseteq Branch
    /\ <<>> \in Branch
  <1>1. SeqOf(Content \cup {"INIT"}, MaxHeight) \subseteq Seq(Block)
    <2>1. \A m \in 0..MaxHeight : m \in Nat BY IngestAssumption
    <2> QED BY <2>1, SeqDef DEF SeqOf, Block
  <1>2. <<>> \in Seq(Block) /\ DOMAIN <<>> = 1..0
    BY EmptySeq, LenProperties
  <1>3. <<>> \in Branch BY <1>2 DEF Branch
  <1> QED BY <1>1, <1>3, Zenon DEF Chains, Branch

\* The end of a pass resets its locals.
LEMMA FailTypes ==
    ASSUME StoreInv, Fail
    PROVE  /\ pc' = "wait" /\ view' = <<>> /\ view' \in Branch /\ height' = 0 /\ best_height' = 0
           /\ health' \in Health /\ health'.last_error
  BY ChainsAreBranches, Zenon DEF StoreInv, Fail, EndPass, Goto, Health

\* A step that changes neither the worker's state nor the store keeps StoreInv
\* if its other assignments are well typed.
LEMMA FrameKeepsStoreInv ==
    ASSUME StoreInv, UNCHANGED <<state, protocol_state, canonical_blocks>>,
           core' \in Branch, view' \in Branch, height' \in Nat, best_height' \in Nat,
           health' \in Health,
           pc' \in {"block", "resolve", "commit"} => height' > 0,
           pc' = "resolve" => view' # <<>>,
           pc' \in {"commit", "reload"} <=> pc \in {"commit", "reload"}
    PROVE  StoreInv'
  <1>1. Grown(state)' /\ Grown(protocol_state)' BY DEF StoreInv
  <1>2. StoreCoherent' BY DEF StoreInv, StoreCoherent
  <1>3. pc' \in {"commit", "reload"} =>
            state' # <<>> /\ Comparable(Front(state), protocol_state)'
    BY DEF StoreInv
  <1>4. pc' \notin {"commit", "reload"} => Comparable(state, protocol_state)'
    BY DEF StoreInv
  <1> QED BY <1>1, <1>2, <1>3, <1>4 DEF StoreInv

\* A step after which the worker's state is the stored one keeps StoreInv if it
\* leaves the store coherent.
LEMMA EqualKeepsStoreInv ==
    ASSUME StoreInv, Grown(protocol_state'), StoreCoherent', state' = protocol_state',
           core' = core, view' \in Branch, height' \in Nat, best_height' \in Nat,
           health' \in Health, pc' \notin {"resolve", "commit", "reload"},
           pc' = "block" => height' > 0
    PROVE  StoreInv'
  <1>1. Grown(state)' /\ Grown(protocol_state)' OBVIOUS
  <1>2. protocol_state' \in Seq(View) BY GrownTypes
  <1>3. Comparable(state, protocol_state)' BY <1>2, ComparableSelf
  <1> QED BY <1>1, <1>3 DEF StoreInv

\* Core's steps change only Core.
LEMMA CoreKeepsStoreInv ==
    ASSUME StoreInv, CoreNext
    PROVE  StoreInv'
  <1>1. core' \in Branch
    <2>1. CASE MineBlock BY <2>1, ChainsAreBranches DEF MineBlock, CoreMoves
    <2>2. CASE Reorganize BY <2>2, ChainsAreBranches DEF Reorganize, CoreMoves
    <2>3. CASE Invalidate
      <3>1. core \in Branch /\ core # <<>> /\ core' = Front(core)
        BY <2>3 DEF Invalidate, CoreMoves, StoreInv
      <3>2. core \in Seq(Block) BY <3>1 DEF Branch
      <3>3. Len(core) - 1 \in 0..Len(core) BY <3>1, <3>2, EmptySeq
      <3> QED BY <3>1, <3>3, BlockHashes DEF BlockHash, Front
    <2> QED BY <2>1, <2>2, <2>3 DEF CoreNext
  <1>2. UNCHANGED <<pc, state, passVars, health, storeVars>>
    BY DEF CoreNext, MineBlock, Reorganize, Invalidate, CoreMoves
  <1>3. /\ pc' = pc /\ view' = view /\ height' = height /\ best_height' = best_height
        /\ health' = health /\ UNCHANGED <<state, protocol_state, canonical_blocks>>
    BY <1>2 DEF passVars, storeVars
  <1> QED BY <1>1, <1>3, FrameKeepsStoreInv DEF StoreInv

\* Committing a block, whether or not the answer arrives.
LEMMA CommitKeepsStoreInv ==
    ASSUME StoreInv, pc = "commit", Committable(Front(state), Last(state)),
           StoreBlock(Front(state), Last(state)), UNCHANGED <<core, state, best_height, view, health>>,
           \/ pc' = "block" /\ height' = height + 1
           \/ pc' = "reload" /\ height' = height
    PROVE  StoreInv'
  <1>1. Grown(state) /\ state # <<>> /\ StoreCoherent /\ state \in Seq(View)
    BY GrownTypes DEF StoreInv
  <1>2. protocol_state' = state /\ StoreCoherent' BY <1>1, StoreBlockKeeps
  <1>3. Grown(protocol_state') /\ state' = protocol_state' BY <1>1, <1>2
  <1>4. CASE pc' = "block" /\ height' = height + 1
    BY <1>2, <1>3, <1>4, EqualKeepsStoreInv DEF StoreInv
  <1>5. CASE pc' = "reload" /\ height' = height
    <2>1. Comparable(Front(state), state)
      BY <1>1, ComparableSelf, ComparableFront
    <2>2. Grown(state)' /\ Grown(protocol_state)' BY <1>1, <1>3
    <2>3. Comparable(Front(state), protocol_state)' BY <1>2, <1>3, <2>1
    <2>4. state' # <<>> BY <1>1
    <2> QED BY <1>2, <1>5, <2>2, <2>3, <2>4 DEF StoreInv
  <1> QED BY <1>4, <1>5

\* The steps the worker takes when nothing fails.
LEMMA WorkerKeepsStoreInv ==
    ASSUME StoreInv, WorkerNext
    PROVE  StoreInv'
  <1> USE DEF passVars, storeVars, coreVars, Goto
  <1>1. CASE WakeUp BY <1>1, FrameKeepsStoreInv DEF WakeUp, StoreInv
  <1>2. CASE StartPass
    <2>1. health' \in Health BY <1>2, ZenonT(30) DEF StartPass, StoreInv, Health
    <2> QED BY <1>2, <2>1, FrameKeepsStoreInv DEF StartPass, StoreInv
  <1>3. CASE CheckReady BY <1>3, FrameKeepsStoreInv DEF CheckReady, StoreInv
  <1>4. CASE ReadBestHeight
    <2>1. Len(core) \in Nat BY PrefixIsBlockHash DEF StoreInv
    <2> QED BY <1>4, <2>1, FrameKeepsStoreInv DEF ReadBestHeight, StoreInv
  <1>5. CASE ReconcileNothing BY <1>5, FrameKeepsStoreInv DEF ReconcileNothing, StoreInv
  <1>6. CASE ReconcileMatch
    <2>1. TipHeight(state) \in Nat BY <1>6, GrownTypes DEF ReconcileMatch, StoreInv
    <2> QED BY <1>6, <2>1, FrameKeepsStoreInv DEF ReconcileMatch, StoreInv
  <1>7. CASE ReconcileMismatch BY <1>7, FrameKeepsStoreInv DEF ReconcileMismatch, StoreInv
  <1>8. CASE ReconcileOutOfRange
    BY <1>8, FailTypes, FrameKeepsStoreInv DEF ReconcileOutOfRange, StoreInv
  <1>9. CASE RollbackTip
    <2>1. Grown(protocol_state') /\ StoreCoherent'
      BY <1>9, StoreRollbackKeeps DEF RollbackTip, StoreInv
    <2> QED BY <1>9, <2>1, EqualKeepsStoreInv DEF RollbackTip, StoreInv
  <1>10. CASE RollbackRefused
    BY <1>10, FailTypes, FrameKeepsStoreInv DEF RollbackRefused, StoreInv
  <1>11. CASE FindInit
    <2>1. HasInit(core) => InitHeight(core) \in Nat /\ InitHeight(core) > 0
      BY InitHeightInRange, PrefixIsBlockHash DEF StoreInv
    <2> QED BY <1>11, <2>1, FrameKeepsStoreInv DEF FindInit, StoreInv
  <1>12. CASE CatchUpDone BY <1>12, FrameKeepsStoreInv DEF CatchUpDone, StoreInv
  <1>13. CASE FetchBlock
    <2>1. CASE height <= Len(core)
      <3>1. core \in Branch /\ height \in 0..Len(core) /\ height > 0 /\ Len(core) \in Nat
        BY <1>13, <2>1, PrefixIsBlockHash DEF FetchBlock, StoreInv
      <3>2. BlockHash(core, height) \in Branch /\ BlockHash(core, height) # <<>>
        BY <3>1, BlockHashes
      <3> QED BY <1>13, <2>1, <3>2, FrameKeepsStoreInv DEF FetchBlock, StoreInv
    <2>2. CASE ~(height <= Len(core))
      BY <1>13, <2>2, FailTypes, FrameKeepsStoreInv DEF FetchBlock, StoreInv
    <2> QED BY <2>1, <2>2
  <1>14. CASE ResolveAndReduce
    <2> DEFINE v == [hash |-> view, exact |-> IsPrefix(Front(view), core)]
    <2>1. v \in View BY <1>14 DEF ResolveAndReduce, StoreInv, View, IsPrefix
    <2>2. CASE Accepts(state, v)
      <3>1. state' = Append(state, v) /\ pc' = "commit"
        BY <1>14, <2>2 DEF ResolveAndReduce
      <3>2. Grown(state') BY <2>1, <2>2, <3>1, GrownAppend DEF StoreInv
      <3>3. Front(state') = state /\ state' # <<>>
        BY <2>1, <3>1, FrontOfAppend, AppendProperties, GrownTypes DEF StoreInv
      <3>4. Comparable(state, protocol_state) BY <1>14 DEF ResolveAndReduce, StoreInv
      <3>5. Grown(state)' /\ Grown(protocol_state)' /\ StoreCoherent'
        BY <1>14, <3>2 DEF ResolveAndReduce, StoreInv, StoreCoherent
      <3>6. Comparable(Front(state), protocol_state)'
        BY <1>14, <3>3, <3>4 DEF ResolveAndReduce
      <3> QED BY <1>14, <2>2, <3>1, <3>3, <3>5, <3>6 DEF ResolveAndReduce, StoreInv
    <2>3. CASE ~Accepts(state, v)
      BY <1>14, <2>3, FailTypes, FrameKeepsStoreInv DEF ResolveAndReduce, StoreInv
    <2> QED BY <2>2, <2>3
  <1>15. CASE CommitBlock BY <1>15, CommitKeepsStoreInv DEF CommitBlock
  <1>16. CASE CommitRefused BY <1>16, FrameKeepsStoreInv DEF CommitRefused, StoreInv
  <1>17. CASE ReloadState
    <2>1. Grown(protocol_state') /\ StoreCoherent' /\ state' = protocol_state'
      BY <1>17, ZenonT(30) DEF ReloadState, StoreInv, StoreCoherent
    <2> QED BY <1>17, <2>1, FailTypes, EqualKeepsStoreInv DEF ReloadState, StoreInv
  <1>18. CASE ReadMempool BY <1>18, FrameKeepsStoreInv DEF ReadMempool, StoreInv
  <1>19. CASE ReplaceMempool
    <2>1. state # <<>> => TipHeight(state) \in Nat BY GrownTypes DEF StoreInv
    <2>2. health' \in Health BY <1>19, <2>1 DEF ReplaceMempool, Health
    <2> QED BY <1>19, <2>2, ChainsAreBranches, FrameKeepsStoreInv
        DEF ReplaceMempool, EndPass, StoreInv
  <1> QED BY <1>1, <1>2, <1>3, <1>4, <1>5, <1>6, <1>7, <1>8, <1>9, <1>10, <1>11, <1>12,
             <1>13, <1>14, <1>15, <1>16, <1>17, <1>18, <1>19 DEF WorkerNext

\* The steps in which a call or an answer is lost, and a restart.
LEMMA FaultKeepsStoreInv ==
    ASSUME StoreInv, FaultNext \/ Restart
    PROVE  StoreInv'
  <1> USE DEF passVars, storeVars, Goto
  <1>1. CASE RollbackUnacknowledged
    <2>1. /\ Grown(protocol_state') /\ StoreCoherent' /\ protocol_state # <<>>
          /\ protocol_state' = Front(protocol_state) /\ state' = state
      BY <1>1, StoreRollbackKeeps DEF RollbackUnacknowledged, StoreInv
    <2>2. Comparable(state, protocol_state) /\ state \in Seq(View) /\ protocol_state \in Seq(View)
      BY <1>1, GrownTypes DEF RollbackUnacknowledged, StoreInv
    <2>3. Comparable(state, protocol_state)' BY <2>1, <2>2, ComparableFront
    <2>4. Grown(state)' /\ Grown(protocol_state)' BY <2>1 DEF StoreInv
    <2> QED BY <1>1, <2>1, <2>3, <2>4, FailTypes DEF RollbackUnacknowledged, StoreInv
  <1>2. CASE CommitFails BY <1>2, FrameKeepsStoreInv DEF CommitFails, StoreInv
  <1>3. CASE CommitUnacknowledged BY <1>3, CommitKeepsStoreInv DEF CommitUnacknowledged
  <1>4. CASE ReloadFails
    <2>1. /\ Grown(state) /\ state # <<>> /\ state' = Front(state)
          /\ Comparable(Front(state), protocol_state)
      BY <1>4 DEF ReloadFails, StoreInv
    <2>2. Len(state) - 1 \in 0..Len(state) BY <2>1, GrownTypes
    <2>3. Grown(state') BY <2>1, <2>2, GrownPrefix DEF Front
    <2>4. Grown(state)' /\ Grown(protocol_state)' /\ StoreCoherent' /\ Comparable(state, protocol_state)'
      BY <1>4, <2>1, <2>3 DEF ReloadFails, StoreInv, StoreCoherent
    <2> QED BY <1>4, <2>4, FailTypes DEF ReloadFails, StoreInv
  <1>5. CASE ReplaceUnacknowledged
    BY <1>5, FailTypes, FrameKeepsStoreInv DEF ReplaceUnacknowledged, StoreInv
  <1>6. CASE CallFails
    <2>1. pc \notin {"commit", "reload"} BY <1>6 DEF CallFails
    <2> QED BY <1>6, <2>1, FailTypes, FrameKeepsStoreInv DEF CallFails, StoreInv
  <1>7. CASE Restart
    <2>1. Grown(protocol_state') /\ StoreCoherent' /\ state' = protocol_state'
      BY <1>7 DEF Restart, StoreInv, StoreCoherent
    <2>2. health' \in Health BY <1>7 DEF Restart, NoHealth, Health
    <2> QED BY <1>7, <2>1, <2>2, ChainsAreBranches, EqualKeepsStoreInv DEF Restart, StoreInv
  <1> QED BY <1>1, <1>2, <1>3, <1>4, <1>5, <1>6, <1>7 DEF FaultNext

\* The initial state: nothing mined, nothing stored.
LEMMA StoreInvInit ==
    ASSUME Init
    PROVE  StoreInv
  <1>1. Grown(<<>>)
    <2>1. <<>> \in Seq(View) /\ Len(<<>>) = 0 BY EmptySeq
    <2> QED BY <2>1 DEF Grown
  <1>2. Comparable(<<>>, <<>>) BY <1>1, GrownTypes, ComparableSelf
  <1>3. DOMAIN <<>> = {} BY <1>1, GrownTypes, EmptySeq
  <1>4. StoreCoherent BY <1>3 DEF Init, StoreCoherent
  <1>5. health \in Health BY DEF Init, NoHealth, Health
  <1> QED BY <1>1, <1>2, <1>4, <1>5, ChainsAreBranches DEF Init, StoreInv

\* Every behaviour keeps StoreInv.
LEMMA StoreInvariant == Spec => []StoreInv
  <1>1. Init => StoreInv BY StoreInvInit
  <1>2. StoreInv /\ [Next]_vars => StoreInv'
    <2> SUFFICES ASSUME StoreInv, [Next]_vars PROVE StoreInv'
      OBVIOUS
    <2>1. CASE UNCHANGED vars
      BY <2>1, FrameKeepsStoreInv DEF vars, coreVars, passVars, storeVars, StoreInv
    <2>2. CASE Next
      BY <2>2, CoreKeepsStoreInv, WorkerKeepsStoreInv, FaultKeepsStoreInv DEF Next
    <2> QED BY <2>1, <2>2
  <1> QED BY <1>1, <1>2, PTL DEF Spec

-----------------------------------------------------------------------------
(* What the store holds. *)

\* The two tables written in one transaction agree after any sequence of
\* commits, rollbacks, lost answers, failed reloads and restarts.
THEOREM StoreStaysCoherent == Spec => []StoreCoherent
  <1>1. StoreInv => StoreCoherent BY DEF StoreInv
  <1> QED BY <1>1, StoreInvariant, PTL

\* The error path of a commit never leaves the worker on a branch the database
\* does not have.
THEOREM MemoryOnOneBranch == Spec => []OneBranch
  <1>1. StoreInv => OneBranch BY DEF StoreInv, OneBranch, Comparable
  <1> QED BY <1>1, StoreInvariant, PTL

\* A step appends one block to the stored state, drops its tip or leaves it.
LEMMA StoredSteps ==
    ASSUME StoreInv, [Next]_vars
    PROVE  \/ protocol_state' = protocol_state
           \/ pc = "commit" /\ protocol_state' # <<>> /\ protocol_state = Front(protocol_state')
           \/ pc = "rollback" /\ protocol_state # <<>> /\ protocol_state' = Front(protocol_state)
  <1> USE DEF storeVars
  <1>1. CASE CommitBlock \/ CommitUnacknowledged
    <2>1. /\ pc = "commit" /\ Committable(Front(state), Last(state))
          /\ StoreBlock(Front(state), Last(state))
      BY <1>1 DEF CommitBlock, CommitUnacknowledged
    <2>2. Grown(state) /\ state # <<>> /\ StoreCoherent BY <2>1 DEF StoreInv
    <2> QED BY <2>1, <2>2, StoreBlockKeeps DEF Committable
  <1>2. CASE RollbackTip \/ RollbackUnacknowledged
    BY <1>2, StoreRollbackKeeps DEF RollbackTip, RollbackUnacknowledged, StoreInv
  <1>3. CASE CoreNext
    BY <1>3 DEF CoreNext, MineBlock, Reorganize, Invalidate, CoreMoves
  <1>4. CASE \/ WakeUp \/ StartPass \/ CheckReady \/ ReadBestHeight
             \/ ReconcileNothing \/ ReconcileMatch \/ ReconcileMismatch \/ ReconcileOutOfRange
             \/ RollbackRefused \/ FindInit \/ CatchUpDone \/ FetchBlock \/ ResolveAndReduce
             \/ CommitRefused \/ ReloadState \/ ReadMempool \/ ReplaceMempool
    BY <1>4 DEF WakeUp, StartPass, CheckReady, ReadBestHeight, ReconcileNothing, ReconcileMatch,
                ReconcileMismatch, ReconcileOutOfRange, RollbackRefused, FindInit, CatchUpDone,
                FetchBlock, ResolveAndReduce, CommitRefused, ReloadState, ReadMempool,
                ReplaceMempool
  <1>5. CASE CommitFails \/ ReloadFails \/ ReplaceUnacknowledged \/ CallFails \/ Restart
    BY <1>5 DEF CommitFails, ReloadFails, ReplaceUnacknowledged, CallFails, Restart
  <1>6. CASE UNCHANGED vars BY <1>6 DEF vars
  <1> QED BY <1>1, <1>2, <1>3, <1>4, <1>5, <1>6 DEF Next, WorkerNext, FaultNext

\* The chain that CanonicalChain sees of a stored state.
ChainOf(st) ==
    [i \in DOMAIN st |->
        [hash |-> st[i].hash, previous_hash |-> Front(st[i].hash), height |-> Len(st[i].hash)]]

\* The chain of a ChainState without its tip is the chain without its tip, and
\* the tip is linked to the block below it.
LEMMA ChainOfFront ==
    ASSUME NEW st, Grown(st), st # <<>>
    PROVE  /\ Len(ChainOf(st)) = Len(ChainOf(Front(st))) + 1
           /\ SubSeq(ChainOf(st), 1, Len(ChainOf(Front(st)))) = ChainOf(Front(st))
           /\ Len(ChainOf(st)) > 1 =>
                /\ ChainOf(st)[Len(ChainOf(st))].previous_hash = ChainOf(st)[Len(ChainOf(st)) - 1].hash
                /\ ChainOf(st)[Len(ChainOf(st))].height = ChainOf(st)[Len(ChainOf(st)) - 1].height + 1
  <1> DEFINE n == Len(st)
             f == Front(st)
             row(i) == [hash |-> st[i].hash, previous_hash |-> Front(st[i].hash),
                        height |-> Len(st[i].hash)]
             R == {row(i) : i \in 1..n}
             c == ChainOf(st)
             d == ChainOf(f)
  <1>1. st \in Seq(View) /\ n \in Nat /\ n > 0 /\ DOMAIN st = 1..n BY GrownTypes
  <1>2. f \in Seq(View) /\ Len(f) = n - 1 /\ \A i \in 1..(n - 1) : f[i] = st[i]
    BY <1>1, FrontAndLast, ZenonT(30)
  <1>3. DOMAIN f = 1..(n - 1) BY <1>2, LenProperties
  <1> HIDE DEF n, f
  <1>4. c = [i \in 1..n |-> row(i)] BY <1>1 DEF ChainOf
  <1>5. d = [i \in 1..(n - 1) |-> row(i)]
    <2>1. d = [i \in 1..(n - 1) |-> [hash |-> f[i].hash, previous_hash |-> Front(f[i].hash),
                                     height |-> Len(f[i].hash)]]
      BY <1>3 DEF ChainOf
    <2> QED BY <1>2, <2>1
  <1>6. c \in Seq(R) /\ Len(c) = n
    <2>1. c \in [1..n -> R] BY <1>4
    <2>2. DOMAIN c = 1..n BY <1>4
    <2> HIDE DEF c, R
    <2>3. c \in Seq(R) BY <1>1, <2>1, SeqDef
    <2> QED BY <1>1, <2>2, <2>3, LenProperties
  <1>7. d \in Seq(R) /\ Len(d) = n - 1
    <2>1. \A i \in 1..(n - 1) : i \in 1..n BY <1>1
    <2>2. d \in [1..(n - 1) -> R] BY <1>5, <2>1
    <2>3. n - 1 \in Nat BY <1>1
    <2>4. d \in Seq(R) BY <2>2, <2>3, SeqDef
    <2>5. DOMAIN d = 1..(n - 1) BY <1>5
    <2> QED BY <2>3, <2>4, <2>5, LenProperties
  <1>8. \A i \in 1..(n - 1) : c[i] = d[i]
    <2>1. \A i \in 1..(n - 1) : i \in 1..n BY <1>1
    <2> QED BY <1>4, <1>5, <2>1
  <1> HIDE DEF c, d, R
  <1>9. SubSeq(c, 1, n - 1) = d
    <2>1. n - 1 \in 0..Len(c) BY <1>1, <1>6
    <2>2. /\ SubSeq(c, 1, n - 1) \in Seq(R) /\ Len(SubSeq(c, 1, n - 1)) = n - 1
          /\ \A i \in 1..(n - 1) : SubSeq(c, 1, n - 1)[i] = c[i]
      BY <1>6, <2>1, FirstElements
    <2> QED BY <1>7, <1>8, <2>2, SeqEqual
  <1>10. n > 1 => /\ c[n].previous_hash = c[n - 1].hash
                  /\ c[n].height = c[n - 1].height + 1
    <2> SUFFICES ASSUME n > 1
                 PROVE  c[n].previous_hash = c[n - 1].hash /\ c[n].height = c[n - 1].height + 1
      OBVIOUS
    <2>1. n \in 1..n /\ n - 1 \in 1..n /\ n - 1 \in 1..Len(st) /\ n \in 1..Len(st)
      BY <1>1 DEF n
    <2>2. c[n] = row(n) /\ c[n - 1] = row(n - 1) BY <1>4, <2>1
    <2>3. /\ Len(st[n].hash) = Len(st[1].hash) + n - 1
          /\ Len(st[n - 1].hash) = Len(st[1].hash) + (n - 1) - 1
      BY <2>1, Zenon DEF Grown
    <2>4. Len(st[1].hash) \in Nat BY <1>1, GrownTypes DEF n
    <2>5. Len(st[n].hash) = Len(st[n - 1].hash) + 1 BY <1>1, <2>3, <2>4
    <2>6. Len(st[n - 1].hash) = Len(st[n].hash) - 1 BY <1>1, <2>3, <2>4
    <2>7. st[n - 1].hash = BlockHash(st[n].hash, Len(st[n - 1].hash))
      <3>1. n - 1 \in 1..n BY <2>1
      <3> QED BY <2>1, <3>1 DEF Grown
    <2>8. Front(st[n].hash) = st[n - 1].hash BY <2>6, <2>7 DEF Front, BlockHash
    <2> QED BY <2>2, <2>5, <2>8
  <1> QED BY <1>1, <1>6, <1>7, <1>9, <1>10 DEF c, d, f

\* The store implements CanonicalChain: whatever the worker believes and
\* whatever fails, a transaction connects one linked block or disconnects the
\* tip.
THEOREM StoreRefinement == Spec => StoredIsCanonical
  <1>1. Init => Stored!Init
    <2> SUFFICES ASSUME Init PROVE Stored!Init
      OBVIOUS
    <2>1. protocol_state = <<>> BY DEF Init
    <2>2. DOMAIN protocol_state = {} BY <2>1
    <2> QED BY <2>2 DEF Stored!Init
  <1>2. StoreInv /\ StoreInv' /\ [Next]_vars =>
            \/ Stored!Connect \/ Stored!Disconnect
            \/ protocol_state' = protocol_state
    <2> SUFFICES ASSUME StoreInv, StoreInv', [Next]_vars,
                        protocol_state' # protocol_state
                 PROVE  Stored!Connect \/ Stored!Disconnect
      OBVIOUS
    <2>1. Grown(protocol_state) /\ Grown(protocol_state') BY DEF StoreInv
    <2>2. CASE protocol_state' # <<>> /\ protocol_state = Front(protocol_state')
      <3> DEFINE c == ChainOf(protocol_state')
      <3>1. /\ Len(c) = Len(ChainOf(protocol_state)) + 1
            /\ SubSeq(c, 1, Len(ChainOf(protocol_state))) = ChainOf(protocol_state)
            /\ Len(c) > 1 => /\ c[Len(c)].previous_hash = c[Len(c) - 1].hash
                             /\ c[Len(c)].height = c[Len(c) - 1].height + 1
        BY <2>1, <2>2, ChainOfFront
      <3> QED BY <3>1, ZenonT(30) DEF Stored!Connect, Stored!TipLinked, ChainOf
    <2>3. CASE protocol_state # <<>> /\ protocol_state' = Front(protocol_state)
      <3> DEFINE c == ChainOf(protocol_state)
      <3>1. /\ Len(c) = Len(ChainOf(protocol_state')) + 1
            /\ SubSeq(c, 1, Len(ChainOf(protocol_state'))) = ChainOf(protocol_state')
        BY <2>1, <2>3, ChainOfFront
      <3>2. Len(protocol_state') \in Nat /\ DOMAIN protocol_state' = 1..Len(protocol_state')
        BY <2>1, GrownTypes
      <3>3. Len(ChainOf(protocol_state')) \in Nat
        BY <3>2 DEF ChainOf
      <3>4. SubSeq(c, 1, Len(c) - 1) = ChainOf(protocol_state') BY <3>1, <3>3
      <3>5. c # <<>> BY <3>1, <3>3, EmptySeq
      <3> QED BY <3>4, <3>5, ZenonT(30) DEF Stored!Disconnect, ChainOf
    <2> QED BY <2>2, <2>3, StoredSteps
  <1>3. StoreInv /\ StoreInv' /\ [Next]_vars =>
            [Stored!Connect \/ Stored!Disconnect]_(
                [i \in DOMAIN protocol_state |->
                    [hash |-> protocol_state[i].hash,
                     previous_hash |-> Front(protocol_state[i].hash),
                     height |-> Len(protocol_state[i].hash)]])
    BY <1>2
  <1> QED BY <1>1, <1>3, StoreInvariant, PTL DEF Spec, StoredIsCanonical, Stored!Spec

-----------------------------------------------------------------------------
(* A pass while Core does not move. *)

\* The tip's hash at its own height is what reconciliation compares.
LEMMA TipOnCoreIsPrefix ==
    ASSUME StoreInv, state # <<>>
    PROVE  TipOnCore <=> IsPrefix(Last(state).hash, core)
  BY GrownTypes, PrefixIsBlockHash DEF StoreInv, TipOnCore, TipHeight

\* A ChainState on Core's chain that reaches Core's height holds Core's chain.
LEMMA CaughtUp ==
    ASSUME NEW st, Grown(st), st # <<>>, NEW c \in Branch,
           IsPrefix(Last(st).hash, c), TipHeight(st) >= Len(c)
    PROVE  Hashes(st) = CanonicalHashes(c)
  <1>1. Last(st).hash \in Branch /\ Len(Last(st).hash) \in Nat BY GrownTypes DEF TipHeight
  <1>2. Len(Last(st).hash) <= Len(c) /\ BlockHash(c, Len(Last(st).hash)) = Last(st).hash /\ Len(c) \in Nat
    BY <1>1, PrefixIsBlockHash
  <1>3. Len(Last(st).hash) = Len(c) BY <1>1, <1>2 DEF TipHeight
  <1>4. Len(c) \in 0..Len(c) BY <1>2
  <1>5. BlockHash(c, Len(c)) = c BY <1>4, BlockHashes
  <1>6. Last(st).hash = c BY <1>2, <1>3, <1>5
  <1> QED BY <1>6, GrownIsWhole

\* A step that ends the pass with an error, with the worker's state the stored
\* one, keeps PassInv.
LEMMA FailKeepsPassInv ==
    ASSUME StoreInv, Fail, state' = protocol_state'
    PROVE  PassInv'
  BY FailTypes DEF PassInv

\* The steps the worker takes when nothing fails.
LEMMA WorkerKeepsPassInv ==
    ASSUME StoreInv, PassInv, WorkerNext
    PROVE  PassInv'
  <1> USE DEF passVars, storeVars, coreVars, Goto
  <1>1. CASE WakeUp BY <1>1 DEF WakeUp, PassInv
  <1>2. CASE StartPass BY <1>2 DEF StartPass, PassInv
  <1>3. CASE CheckReady BY <1>3 DEF CheckReady, PassInv
  <1>4. CASE ReadBestHeight BY <1>4 DEF ReadBestHeight, PassInv
  <1>5. CASE ReconcileNothing BY <1>5 DEF ReconcileNothing, PassInv
  <1>6. CASE ReconcileMatch
    <2>1. IsPrefix(Last(state).hash, core) BY <1>6, TipOnCoreIsPrefix DEF ReconcileMatch
    <2>2. Following' BY <1>6, <2>1 DEF ReconcileMatch, Following, TipHeight
    <2> QED BY <1>6, <2>2 DEF ReconcileMatch, PassInv
  <1>7. CASE ReconcileMismatch
    <2>1. calm => ~IsPrefix(Last(state).hash, core)
      <3> SUFFICES ASSUME calm PROVE ~IsPrefix(Last(state).hash, core)
        OBVIOUS
      <3>1. best_height = Len(core) BY <1>7 DEF ReconcileMismatch, PassInv
      <3>2. ~TipOnCore BY <1>7, <3>1 DEF ReconcileMismatch, TipOnCore
      <3> QED BY <1>7, <3>2, TipOnCoreIsPrefix DEF ReconcileMismatch
    <2> QED BY <1>7, <2>1 DEF ReconcileMismatch, PassInv
  <1>8. CASE ReconcileOutOfRange
    BY <1>8, FailKeepsPassInv DEF ReconcileOutOfRange, PassInv
  <1>9. CASE RollbackTip BY <1>9 DEF RollbackTip, PassInv
  <1>10. CASE RollbackRefused BY <1>10, FailKeepsPassInv DEF RollbackRefused, PassInv
  <1>11. CASE FindInit
    <2>1. state = <<>> BY <1>11 DEF FindInit, PassInv
    <2>2. HasInit(core) => Following' BY <1>11, <2>1 DEF FindInit, Following
    <2>3. ~HasInit(core) => Hashes(state) = CanonicalHashes(core)
      <3>1. Hashes(<<>>) = <<>> BY DEF Hashes
      <3> QED BY <2>1, <3>1 DEF CanonicalHashes
    <2> QED BY <1>11, <2>1, <2>2, <2>3 DEF FindInit, PassInv
  <1>12. CASE CatchUpDone
    <2>1. calm => Hashes(state) = CanonicalHashes(core)
      <3> SUFFICES ASSUME calm PROVE Hashes(state) = CanonicalHashes(core)
        OBVIOUS
      <3>1. best_height = Len(core) /\ Following /\ height > Len(core)
        BY <1>12 DEF CatchUpDone, PassInv
      <3>2. state # <<>>
        BY <3>1, InitHeightInRange, PrefixIsBlockHash DEF Following, StoreInv
      <3>3. TipHeight(state) \in Nat /\ Len(core) \in Nat
        BY <3>2, GrownTypes, PrefixIsBlockHash DEF StoreInv
      <3>4. IsPrefix(Last(state).hash, core) /\ TipHeight(state) >= Len(core)
        BY <3>1, <3>2, <3>3 DEF Following
      <3> QED BY <3>2, <3>4, CaughtUp DEF StoreInv
    <2> QED BY <1>12, <2>1 DEF CatchUpDone, PassInv
  <1>13. CASE FetchBlock
    <2>1. CASE height <= Len(core)
      <3>1. Following => Following' BY <1>13, <2>1 DEF FetchBlock, Following
      <3> QED BY <1>13, <2>1, <3>1 DEF FetchBlock, PassInv
    <2>2. CASE ~(height <= Len(core))
      BY <1>13, <2>2, FailKeepsPassInv DEF FetchBlock, PassInv
    <2> QED BY <2>1, <2>2
  <1>14. CASE ResolveAndReduce
    <2> DEFINE v == [hash |-> view, exact |-> IsPrefix(Front(view), core)]
    <2>1. CASE Accepts(state, v)
      <3>1. state' = Append(state, v) /\ pc' = "commit" /\ UNCHANGED <<passVars, health>>
        BY <1>14, <2>1 DEF ResolveAndReduce
      <3>2. v \in View /\ state \in Seq(View)
        BY <1>14, GrownTypes, ZenonT(30) DEF ResolveAndReduce, StoreInv, View, IsPrefix
      <3>3. Front(state') = state /\ Last(state') = v BY <3>1, <3>2, FrontOfAppend
      <3>4. calm => IsPrefix(view, core) /\ height = Len(view)
        <4> SUFFICES ASSUME calm PROVE IsPrefix(view, core) /\ height = Len(view)
          OBVIOUS
        <4>1. height \in 0..Len(core) /\ view = BlockHash(core, height) /\ core \in Branch
          <5>1. core \in Branch /\ height \in Nat BY Zenon DEF StoreInv
          <5>2. height <= Len(core) /\ view = BlockHash(core, height)
            BY <1>14, ZenonT(30) DEF ResolveAndReduce, PassInv
          <5>3. Len(core) \in Nat BY <5>1, PrefixIsBlockHash, Zenon
          <5> QED BY ONLY <5>1, <5>2, <5>3
        <4>2. view \in Branch /\ Len(view) = height BY <4>1, BlockHashes
        <4> QED BY <4>1, <4>2, PrefixIsBlockHash
      <3>5. Last(state').hash = view BY <3>3
      <3> QED BY <1>14, <3>1, <3>3, <3>4, <3>5 DEF ResolveAndReduce, PassInv, TipHeight
    <2>2. CASE ~Accepts(state, v)
      BY <1>14, <2>2, FailKeepsPassInv, ZenonT(30) DEF ResolveAndReduce, PassInv
    <2> QED BY <2>1, <2>2
  <1>15. CASE CommitBlock
    <2>1. Grown(state) /\ state # <<>> /\ StoreCoherent BY <1>15 DEF CommitBlock, StoreInv
    <2>2. protocol_state' = state BY <1>15, <2>1, StoreBlockKeeps DEF CommitBlock
    <2>3. calm => Following'
      BY <1>15, <2>1 DEF CommitBlock, PassInv, Following, TipHeight
    <2> QED BY <1>15, <2>2, <2>3 DEF CommitBlock, PassInv
  <1>16. CASE CommitRefused BY <1>16 DEF CommitRefused, PassInv
  <1>17. CASE ReloadState BY <1>17, FailKeepsPassInv DEF ReloadState
  <1>18. CASE ReadMempool BY <1>18 DEF ReadMempool, PassInv
  <1>19. CASE ReplaceMempool
    BY <1>19 DEF ReplaceMempool, EndPass, PassInv, Synced
  <1> QED BY <1>1, <1>2, <1>3, <1>4, <1>5, <1>6, <1>7, <1>8, <1>9, <1>10, <1>11, <1>12,
             <1>13, <1>14, <1>15, <1>16, <1>17, <1>18, <1>19 DEF WorkerNext

\* Core's steps end the calm, and change nothing of the worker or the store.
LEMMA CoreKeepsPassInv ==
    ASSUME PassInv, CoreNext
    PROVE  PassInv'
  BY Zenon DEF CoreNext, MineBlock, Reorganize, Invalidate, CoreMoves, passVars, storeVars, PassInv

\* The failures that leave the worker's memory and the store equal.
LEMMA FaultKeepsPassInv ==
    ASSUME MemoryIsStored, StoreInv, PassInv, FaultNext \/ Restart
    PROVE  PassInv'
  <1> USE DEF passVars, storeVars, Goto
  <1>1. CASE RollbackUnacknowledged \/ ReloadFails
    BY <1>1 DEF RollbackUnacknowledged, ReloadFails, Fault, MemoryIsStored
  <1>2. CASE CommitFails BY <1>2 DEF CommitFails, PassInv
  <1>3. CASE CommitUnacknowledged BY <1>3 DEF CommitUnacknowledged, PassInv
  <1>4. CASE ReplaceUnacknowledged
    BY <1>4, FailKeepsPassInv DEF ReplaceUnacknowledged, PassInv
  <1>5. CASE CallFails
    <2>1. pc \notin {"commit", "reload"} BY <1>5 DEF CallFails
    <2> QED BY <1>5, <2>1, FailKeepsPassInv DEF CallFails, PassInv
  <1>6. CASE Restart BY <1>6 DEF Restart, PassInv
  <1> QED BY <1>1, <1>2, <1>3, <1>4, <1>5, <1>6 DEF FaultNext

\* Every behaviour in which the memory stays the stored state keeps PassInv.
LEMMA PassInvariant ==
    ASSUME MemoryIsStored
    PROVE  Spec => []PassInv
  <1>1. Init => PassInv BY DEF Init, PassInv
  <1>2. StoreInv /\ PassInv /\ [Next]_vars => PassInv'
    <2> SUFFICES ASSUME StoreInv, PassInv, [Next]_vars PROVE PassInv'
      OBVIOUS
    <2>1. CASE UNCHANGED vars
      BY <2>1 DEF vars, coreVars, passVars, storeVars, PassInv, Following, Synced
    <2>2. CASE Next
      BY <2>2, CoreKeepsPassInv, WorkerKeepsPassInv, FaultKeepsPassInv DEF Next
    <2> QED BY <2>1, <2>2
  <1> QED BY <1>1, <1>2, StoreInvariant, PTL DEF Spec

\* A pass that reports success while Core stands still has stored exactly Core's
\* chain from INIT on.
THEOREM SuccessMeansSynced ==
    ASSUME MemoryIsStored
    PROVE  Spec => []HealthyMeansSynced
  <1>1. PassInv => HealthyMeansSynced BY DEF PassInv, HealthyMeansSynced
  <1> QED BY <1>1, PassInvariant, PTL

\* Reconciliation disconnects no block that is on Core's chain for the whole
\* pass.
THEOREM RollbackStopsAtAncestor ==
    ASSUME MemoryIsStored
    PROVE  Spec => DisconnectsOnlyStale
  <1>1. StoreInv /\ StoreInv' /\ PassInv /\ [Next]_vars =>
            [calm /\ Len(protocol_state') < Len(protocol_state) =>
                ~IsPrefix(Last(protocol_state).hash, core)]_vars
    <2> SUFFICES ASSUME StoreInv, StoreInv', PassInv, [Next]_vars, calm,
                        Len(protocol_state') < Len(protocol_state)
                 PROVE  ~IsPrefix(Last(protocol_state).hash, core)
      OBVIOUS
    <2>1. Len(protocol_state) \in Nat /\ Len(protocol_state') \in Nat /\ protocol_state' \in Seq(View)
      BY GrownTypes DEF StoreInv
    <2>2. protocol_state' # protocol_state BY <2>1
    <2>3. ~(protocol_state' # <<>> /\ protocol_state = Front(protocol_state'))
      BY <2>1, FrontAndLast
    <2>4. pc = "rollback" BY <2>2, <2>3, StoredSteps
    <2> QED BY <2>4 DEF PassInv
  <1> QED BY <1>1, StoreInvariant, PassInvariant, PTL DEF Spec, DisconnectsOnlyStale
===============================================================================
