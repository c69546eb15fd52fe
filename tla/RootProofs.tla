------------------------------ MODULE RootProofs -------------------------------
(***************************************************************************)
(* What the roots of roots.rs say, for trees of any width and replays of   *)
(* any length: a Merkle root commits to its leaves, an event root to its   *)
(* events, an object-state root to its snapshot, and a chained root to     *)
(* everything up to its height.  verify-vectors accepts only levels that   *)
(* end in that Merkle root, and replay reports only those chained roots.   *)
(* Induction is over sets of numbers.                                      *)
(***************************************************************************)
EXTENDS Programs, FiniteSetTheorems, SequenceTheorems, WellFoundedInduction, TLAPS

\* The provers of a leaf that names none, in this order.
USE SMT, Zenon, SMTT(30)

-----------------------------------------------------------------------------
\* Lists, and the levels that merkle goes through.

\* Induction, for a set of numbers.
LEMMA SetInduction ==
    ASSUME NEW S, 0 \in S, \A n \in Nat : n \in S => n + 1 \in S
    PROVE  \A n \in Nat : n \in S
<1> SUFFICES ASSUME NEW m \in Nat, m \notin S
             PROVE  FALSE
    OBVIOUS
<1> DEFINE T == Nat \ S
<1>1. T \subseteq Nat /\ T # {}
    OBVIOUS
<1>2. PICK x \in T : \A y \in T : ~(<<y, x>> \in OpToRel(<, Nat))
    BY <1>1, NatLessThanWellFounded, WFMin, Zenon
<1>3. x \in Nat /\ x \notin S /\ x # 0
    OBVIOUS
<1>4. x - 1 \in Nat /\ (x - 1) + 1 = x
    BY <1>3
<1>5. x - 1 \notin S
    BY <1>3, <1>4, Zenon
<1>6. <<x - 1, x>> \in OpToRel(<, Nat)
    BY <1>3, <1>4 DEF OpToRel
<1> QED
    BY <1>2, <1>4, <1>5, <1>6, Zenon

\* The last hash of an odd level once more.
LEMMA PaddedMeans ==
    ASSUME NEW S, NEW l \in Seq(S)
    PROVE  /\ Padded(l) \in Seq(S)
           /\ Len(Padded(l)) = Len(l) + (Len(l) % 2)
           /\ \A i \in 1..Len(l) : Padded(l)[i] = l[i]
           /\ Len(l) % 2 = 1 => Padded(l)[Len(l) + 1] = l[Len(l)]
<1>1. CASE Len(l) % 2 = 1
    <2>1. Len(l) \in 1..Len(l)
        BY <1>1
    <2>2. Last(l) = l[Len(l)] /\ l[Len(l)] \in S
        BY <2>1 DEF Last
    <2>3. Padded(l) = Append(l, l[Len(l)])
        BY <1>1, <2>2 DEF Padded
    <2> QED
        BY <1>1, <2>2, <2>3, AppendProperties
<1>2. CASE Len(l) % 2 # 1
    <2>1. Padded(l) = l
        BY <1>2 DEF Padded
    <2>2. Len(l) % 2 = 0
        BY <1>2
    <2> QED
        BY <1>2, <2>1, <2>2
<1> QED
    BY <1>1, <1>2

\* The level above, half as long.
LEMMA ParentsMeans ==
    ASSUME NEW S, NEW l \in Seq(S), NEW d
    PROVE  /\ Parents(l, d) \in Seq(Range(Parents(l, d)))
           /\ Len(Parents(l, d)) = (Len(l) + (Len(l) % 2)) \div 2
           /\ \A i \in 1..Len(Parents(l, d)) :
                 /\ Parents(l, d)[i] = <<d, Padded(l)[2 * i - 1], Padded(l)[2 * i]>>
                 /\ 2 * i - 1 \in 1..Len(l)
                 /\ 2 * i \in 1..Len(Padded(l))
<1> DEFINE n == Len(Padded(l)) \div 2
<1>1. Len(l) \in Nat /\ Len(Padded(l)) = Len(l) + (Len(l) % 2)
    BY PaddedMeans
<1>2. n \in Nat /\ n = (Len(l) + (Len(l) % 2)) \div 2
    BY <1>1
<1>3. \A i \in 1..n : 2 * i - 1 \in 1..Len(l) /\ 2 * i \in 1..Len(Padded(l))
    BY <1>1, <1>2
<1> HIDE DEF n
<1>4. Parents(l, d) = [i \in 1..n |-> <<d, Padded(l)[2 * i - 1], Padded(l)[2 * i]>>]
    BY DEF Parents, n
<1>5. DOMAIN Parents(l, d) = 1..n
    BY <1>4
<1>6. Parents(l, d) \in [1..n -> Range(Parents(l, d))]
    BY <1>4, <1>5 DEF Range
<1>7. Parents(l, d) \in Seq(Range(Parents(l, d))) /\ Len(Parents(l, d)) = n
    BY <1>2, <1>6
<1> QED
    BY <1>2, <1>3, <1>4, <1>7

\* verify_merkle_levels accepts exactly the level that merkle would compute.
LEMMA FollowedIsParents ==
    ASSUME NEW S, NEW T, NEW c \in Seq(S), NEW p \in Seq(T), LevelFollows(c, p)
    PROVE  p = Parents(c, DOMAIN_NODE)
<1>1. /\ Len(p) = Len(Padded(c)) \div 2
      /\ \A i \in DOMAIN p : p[i] = <<DOMAIN_NODE, Padded(c)[2 * i - 1], Padded(c)[2 * i]>>
    BY Zenon DEF LevelFollows, Padded
<1>2. p = [i \in 1..Len(p) |-> p[i]] /\ DOMAIN p = 1..Len(p)
    OBVIOUS
<1>3. p = [i \in 1..(Len(Padded(c)) \div 2) |->
             <<DOMAIN_NODE, Padded(c)[2 * i - 1], Padded(c)[2 * i]>>]
    BY <1>1, <1>2, Zenon
<1> QED
    BY <1>3 DEF Parents

\* f lists the levels that merkle goes through, the leaves as level 0.
Turns(f, leaves, domain, n) ==
    f = [k \in 0..n |-> IF k = 0 THEN leaves ELSE NextLevel(f[k - 1], domain)]

\* Its first level, and each next one.
LEMMA TurnsMeans ==
    ASSUME NEW n \in Nat, NEW leaves, NEW domain, NEW f, Turns(f, leaves, domain, n)
    PROVE  /\ DOMAIN f = 0..n
           /\ f[0] = leaves
           /\ \A k \in 0..n : k + 1 \in 0..n => f[k + 1] = NextLevel(f[k], domain)
<1>1. DOMAIN f = 0..n
    BY DEF Turns
<1>2. \A k \in 0..n : f[k] = IF k = 0 THEN leaves ELSE NextLevel(f[k - 1], domain)
    BY DEF Turns
<1>3. f[0] = leaves
    BY <1>2
<1>4. ASSUME NEW k \in 0..n, k + 1 \in 0..n
      PROVE  f[k + 1] = NextLevel(f[k], domain)
    <2>1. k + 1 # 0 /\ (k + 1) - 1 = k
        OBVIOUS
    <2>2. f[k + 1] = NextLevel(f[(k + 1) - 1], domain)
        BY <1>2, <1>4, <2>1, Zenon
    <2> QED
        BY <2>1, <2>2
<1> QED
    BY <1>1, <1>3, <1>4, Zenon

\* The loop goes through one list of levels.
LEMMA TurnsUnique ==
    ASSUME NEW n \in Nat, NEW leaves, NEW domain, NEW f, NEW g,
           Turns(f, leaves, domain, n), Turns(g, leaves, domain, n)
    PROVE  f = g
<1>1. /\ DOMAIN f = 0..n /\ f[0] = leaves
      /\ \A k \in 0..n : k + 1 \in 0..n => f[k + 1] = NextLevel(f[k], domain)
    BY TurnsMeans
<1>2. /\ DOMAIN g = 0..n /\ g[0] = leaves
      /\ \A k \in 0..n : k + 1 \in 0..n => g[k + 1] = NextLevel(g[k], domain)
    BY TurnsMeans
<1> DEFINE S == {k \in Nat : k \in 0..n => f[k] = g[k]}
<1>3. 0 \in S
    BY <1>1, <1>2
<1>4. ASSUME NEW k \in Nat, k \in S
      PROVE  k + 1 \in S
    <2>1. k + 1 \in Nat /\ (k + 1 \in 0..n => k \in 0..n)
        OBVIOUS
    <2>2. k + 1 \in 0..n => f[k + 1] = g[k + 1]
        BY <1>1, <1>2, <1>4, <2>1, Zenon
    <2> QED
        BY <2>1, <2>2
<1> HIDE DEF S
<1>5. \A k \in Nat : k \in S
    BY <1>3, <1>4, SetInduction, Zenon
<1>6. \A k \in 0..n : f[k] = g[k]
    BY <1>5 DEF S
<1>7. f = [k \in 0..n |-> f[k]] /\ g = [k \in 0..n |-> g[k]]
    BY <1>1, <1>2 DEF Turns
<1> QED
    BY <1>6, <1>7

\* merkle is the first hash of the last of the levels.
LEMMA MerkleIs ==
    ASSUME NEW leaves, Len(leaves) \in Nat, NEW domain, NEW g,
           Turns(g, leaves, domain, Len(leaves))
    PROVE  merkle(leaves, domain) = g[Len(leaves)][1]
<1> DEFINE f == CHOOSE f : f = [n \in 0..Len(leaves) |->
                                 IF n = 0 THEN leaves ELSE NextLevel(f[n - 1], domain)]
<1>1. merkle(leaves, domain) = f[Len(leaves)][1]
    BY DEF merkle
<1>2. Turns(f, leaves, domain, Len(leaves))
    BY DEF Turns
<1> HIDE DEF f
<1>3. f = g
    BY <1>2, TurnsUnique, Zenon
<1> QED
    BY <1>1, <1>3

\* A sequence, of whatever.
IsList(s) == \E S : s \in Seq(S)

\* A list that is not empty has one hash or several.
LEMMA SeveralOrOne == \A n \in Nat : n >= 1 /\ n # 1 <=> n > 1
<1> QED
    OBVIOUS

\* Levels that follow each other from the leaves get narrower all the time.
LEMMA LevelsNarrow ==
    ASSUME NEW d, NEW n \in Nat, NEW L, \A k \in 1..n : IsList(L[k]), Len(L[1]) >= 1,
           \A k \in 1..n : k + 1 \in 1..n => L[k + 1] = Parents(L[k], d),
           \A k \in 1..n : Len(L[k]) = 1 <=> k = n
    PROVE  \A k \in 1..n : Len(L[k]) \in Nat /\ Len(L[k]) >= 1 /\ Len(L[k]) + k <= Len(L[1]) + 1
<1> DEFINE Narrow(k) == Len(L[k]) >= 1 /\ Len(L[k]) + k <= Len(L[1]) + 1
           S == {j \in Nat : j + 1 \in 1..n => Narrow(j + 1)}
<1>1. \A k \in 1..n : Len(L[k]) \in Nat
    BY DEF IsList
<1>2. 0 \in S
    BY <1>1
<1>3. ASSUME NEW j \in Nat, j \in S
      PROVE  j + 1 \in S
    <2>1. ASSUME (j + 1) + 1 \in 1..n
          PROVE  Narrow((j + 1) + 1)
        <3> DEFINE c == Len(L[j + 1])
                   p == Len(L[(j + 1) + 1])
        <3>1. j + 1 \in 1..n /\ 1 \in 1..n /\ j + 1 # n
            BY <2>1
        <3>2. c \in Nat /\ p \in Nat /\ Len(L[1]) \in Nat
            BY <1>1, <2>1, <3>1, Zenon
        <3>3. c >= 1 /\ c + (j + 1) <= Len(L[1]) + 1 /\ c # 1
            BY <1>3, <3>1, Zenon
        <3>4. p = (c + (c % 2)) \div 2
            <4>1. PICK T : L[j + 1] \in Seq(T)
                BY <3>1 DEF IsList
            <4>2. L[(j + 1) + 1] = Parents(L[j + 1], d)
                BY <2>1, <3>1, Zenon
            <4> QED
                BY <4>1, <4>2, ParentsMeans, Zenon
        <3> HIDE DEF c, p
        <3>5. p >= 1 /\ p + ((j + 1) + 1) <= Len(L[1]) + 1
            BY <3>2, <3>3, <3>4
        <3> QED
            BY <3>5, Zenon DEF p
    <2> HIDE DEF Narrow
    <2> QED
        BY <2>1
<1> HIDE DEF S
<1>4. \A j \in Nat : j \in S
    BY <1>2, <1>3, SetInduction, Zenon
<1>5. ASSUME NEW k \in 1..n
      PROVE  Narrow(k)
    <2>1. k - 1 \in Nat /\ (k - 1) + 1 = k
        OBVIOUS
    <2> HIDE DEF Narrow
    <2>2. k - 1 \in S
        BY <1>4, <2>1
    <2> QED
        BY <2>1, <2>2 DEF S
<1> QED
    BY <1>1, <1>5, Zenon

\* Levels that follow each other from the leaves to a single hash end with the
\* hash that merkle computes.
LEMMA LevelsEndInMerkle ==
    ASSUME NEW d, NEW n \in Nat, n >= 1, NEW L, \A k \in 1..n : IsList(L[k]), Len(L[1]) >= 1,
           \A k \in 1..n : k + 1 \in 1..n => L[k + 1] = Parents(L[k], d),
           \A k \in 1..n : Len(L[k]) = 1 <=> k = n
    PROVE  merkle(L[1], d) = L[n][1]
<1> DEFINE N == Len(L[1])
           g == [j \in 0..N |-> L[IF j < n THEN j + 1 ELSE n]]
<1>1. \A k \in 1..n : Len(L[k]) \in Nat /\ Len(L[k]) >= 1 /\ Len(L[k]) + k <= N + 1
    BY LevelsNarrow, Zenon
<1>2. N \in Nat /\ n <= N
    BY <1>1
<1>3. \A j \in 0..N : g[j] = L[IF j < n THEN j + 1 ELSE n]
    OBVIOUS
<1>4. g = [j \in 0..N |-> g[j]]
    OBVIOUS
<1> HIDE DEF g
<1>5. ASSUME NEW j \in 0..N
      PROVE  g[j] = IF j = 0 THEN L[1] ELSE NextLevel(g[j - 1], d)
    <2>1. CASE j = 0
        <3>1. 0 < n /\ 0 + 1 = 1
            OBVIOUS
        <3> QED
            BY <1>3, <2>1, <3>1, Zenon
    <2>2. CASE j # 0 /\ j < n
        <3>1. j \in 1..n /\ j + 1 \in 1..n /\ j # n /\ j - 1 \in 0..N /\ j - 1 < n /\ (j - 1) + 1 = j
            BY <2>2
        <3>2. g[j] = L[j + 1] /\ g[j - 1] = L[j]
            BY <1>3, <2>2, <3>1, Zenon
        <3>3. Len(L[j]) > 1
            BY <1>1, <3>1, SeveralOrOne, Zenon
        <3>4. NextLevel(L[j], d) = Parents(L[j], d)
            BY <3>3 DEF NextLevel
        <3> QED
            BY <2>2, <3>1, <3>2, <3>4
    <2>3. CASE j # 0 /\ ~(j < n)
        <3>1. j - 1 \in 0..N /\ n \in 1..n /\ (j - 1 < n => (j - 1) + 1 = n)
            BY <1>2, <2>3
        <3>2. g[j] = L[n] /\ g[j - 1] = L[n]
            BY <1>3, <2>3, <3>1, Zenon
        <3>3. Len(L[n]) = 1
            BY <3>1
        <3>4. NextLevel(L[n], d) = L[n]
            BY <3>3 DEF NextLevel
        <3> QED
            BY <2>3, <3>2, <3>4
    <2> QED
        BY <2>1, <2>2, <2>3
<1>6. g[N] = L[n]
    BY <1>2, <1>3
<1>7. g = [j \in 0..N |-> IF j = 0 THEN L[1] ELSE NextLevel(g[j - 1], d)]
    BY <1>4, <1>5
<1>8. Turns(g, L[1], d, N)
    BY <1>7 DEF Turns
<1>9. merkle(L[1], d) = g[N][1]
    BY <1>2, <1>8, MerkleIs, Zenon
<1> QED
    BY <1>6, <1>9

-----------------------------------------------------------------------------
\* verify-vectors: the declared levels.

\* Which inputs belong to which command.
LEMMA InputOfCommand ==
    ASSUME CliInput
    PROVE  /\ input.command = "verify-vectors" => input \in LevelFixtures \cup ScriptFixtures
           /\ input.command = "replay" =>
                \/ input \in BlockReplays
                \/ \E places, contents : input = EventReplay(places, contents)
                \/ \E places, states : input = ObjectReplay(places, states)
<1>1. input \in Locks => input.command = "verify-inputs"
    BY DEF Locks
<1>2. input \in LevelFixtures => input.command = "verify-vectors"
    BY DEF LevelFixtures
<1>3. input \in ScriptFixtures => input.command = "verify-vectors"
    BY DEF ScriptFixtures
<1>4. input \in BlockReplays => input.command = "replay"
    BY DEF BlockReplays
<1>5. \A places, contents : EventReplay(places, contents).command = "replay"
    BY DEF EventReplay
<1>6. \A places, states : ObjectReplay(places, states).command = "replay"
    BY DEF ObjectReplay
<1>7. NoCommand.command = "none"
    BY DEF NoCommand
<1>8. /\ "verify-inputs" # "verify-vectors" /\ "verify-inputs" # "replay" /\ "replay" # "verify-vectors"
      /\ "none" # "replay" /\ "none" # "verify-vectors"
    OBVIOUS
<1>9. \/ input \in Locks \/ input \in LevelFixtures \/ input \in ScriptFixtures
      \/ input \in BlockReplays
      \/ \E places, contents : input = EventReplay(places, contents)
      \/ \E places, states : input = ObjectReplay(places, states)
      \/ input = NoCommand
    BY Zenon DEF CliInput
<1> QED
    BY <1>1, <1>2, <1>3, <1>4, <1>5, <1>6, <1>7, <1>8, <1>9, Zenon

\* Steps of a command change the command's state, steps of the verifier not.
LEMMA ProgramsStep ==
    ASSUME [Command \/ Verifier]_<<cliVars, startupVars>>
    PROVE  CliNext \/ UNCHANGED cliVars
<1> QED
    BY DEF Command, Verifier

\* A reversed sequence.
LEMMA ReverseMeans ==
    ASSUME NEW S, NEW s \in Seq(S)
    PROVE  /\ Reverse(s) \in Seq(S) /\ Len(Reverse(s)) = Len(s)
           /\ \A i \in 1 .. Len(s) : Reverse(s)[i] = s[(Len(s) - i) + 1]
<1>1. Len(s) \in Nat /\ \A i \in 1 .. Len(s) : (Len(s) - i) + 1 \in 1 .. Len(s)
    OBVIOUS
<1>2. \A i \in 1 .. Len(s) : s[(Len(s) - i) + 1] \in S
    BY <1>1
<1> QED
    BY <1>1, <1>2 DEF Reverse

\* The declared levels of a fixture exist and are nonempty lists.
LEMMA LevelsFromMeans ==
    ASSUME NEW first, IsList(first), Len(first) >= 1, NEW n \in Nat
    PROVE  /\ LevelsFrom(first, n) \in Seq(Range(LevelsFrom(first, n)))
           /\ Len(LevelsFrom(first, n)) = n
           /\ \A k \in 1..n : IsList(LevelsFrom(first, n)[k]) /\ Len(LevelsFrom(first, n)[k]) >= 1
<1> DEFINE Step(f, k) == IF k = 1 THEN first ELSE Parents(f[k - 1], DOMAIN_NODE)
           Rec(f, m) == f = [k \in 1..m |-> Step(f, k)]
           S == {m \in Nat : \E f : Rec(f, m)}
<1>1. 0 \in S
    <2> DEFINE f == [k \in 1..0 |-> first]
    <2>1. f = [k \in 1..0 |-> Step(f, k)]
        OBVIOUS
    <2> QED
        BY <2>1, Zenon
<1>2. ASSUME NEW m \in Nat, m \in S
      PROVE  m + 1 \in S
    <2>1. PICK f : Rec(f, m)
        BY <1>2
    <2> DEFINE g == [k \in 1..(m + 1) |-> Step(f, k)]
    <2>2. \A k \in 1..m : f[k] = Step(f, k)
        BY <2>1
    <2>3. \A k \in 1..(m + 1) : g[k] = Step(f, k)
        OBVIOUS
    <2>4. ASSUME NEW k \in 1..(m + 1)
          PROVE  Step(f, k) = Step(g, k)
        <3>1. CASE k = 1
            BY <3>1
        <3>2. CASE k # 1
            <4>1. k - 1 \in 1..m /\ k - 1 \in 1..(m + 1)
                BY <3>2
            <4>2. f[k - 1] = g[k - 1]
                BY <2>2, <2>3, <4>1, Zenon
            <4> HIDE DEF g
            <4> QED
                BY <3>2, <4>2
        <3> QED
            BY <3>1, <3>2
    <2>5. g = [k \in 1..(m + 1) |-> Step(g, k)]
        BY <2>4, Zenon
    <2>6. m + 1 \in Nat
        OBVIOUS
    <2> HIDE DEF g
    <2> QED
        BY <2>5, <2>6
<1> HIDE DEF S
<1>3. \A m \in Nat : m \in S
    BY <1>1, <1>2, SetInduction, Zenon
<1> DEFINE L == LevelsFrom(first, n)
<1>4. Rec(L, n)
    <2>1. \E f : Rec(f, n)
        BY <1>3, Zenon DEF S
    <2>2. Rec(CHOOSE f : Rec(f, n), n)
        BY <2>1, Zenon
    <2> QED
        BY <2>2, Zenon DEF LevelsFrom
<1> HIDE DEF L
<1>5. DOMAIN L = 1..n /\ L \in [1..n -> Range(L)]
    BY <1>4 DEF Range
<1>6. L \in Seq(Range(L)) /\ Len(L) = n
    BY <1>5
<1>7. \A k \in 1..n : L[k] = Step(L, k)
    BY <1>4
<1> DEFINE Good(k) == IsList(L[k]) /\ Len(L[k]) >= 1
           G == {j \in Nat : j + 1 \in 1..n => Good(j + 1)}
<1>8. 0 \in G
    <2>1. 0 + 1 = 1 /\ 0 \in Nat
        OBVIOUS
    <2>2. 1 \in 1..n => L[1] = first
        BY <1>7, Zenon
    <2> QED
        BY <2>1, <2>2, Zenon
<1>9. ASSUME NEW j \in Nat, j \in G
      PROVE  j + 1 \in G
    <2>1. ASSUME (j + 1) + 1 \in 1..n
          PROVE  Good((j + 1) + 1)
        <3>1. j + 1 \in 1..n /\ (j + 1) + 1 # 1 /\ ((j + 1) + 1) - 1 = j + 1
            BY <2>1
        <3>2. L[(j + 1) + 1] = Parents(L[j + 1], DOMAIN_NODE)
            BY <1>7, <2>1, <3>1, Zenon
        <3>3. IsList(L[j + 1]) /\ Len(L[j + 1]) >= 1
            BY <1>9, <3>1, Zenon
        <3>4. PICK T : L[j + 1] \in Seq(T)
            BY <3>3 DEF IsList
        <3>5. /\ L[(j + 1) + 1] \in Seq(Range(L[(j + 1) + 1]))
              /\ Len(L[(j + 1) + 1]) = (Len(L[j + 1]) + (Len(L[j + 1]) % 2)) \div 2
            <4> DEFINE P == Parents(L[j + 1], DOMAIN_NODE)
            <4>1. P \in Seq(Range(P)) /\ Len(P) = (Len(L[j + 1]) + (Len(L[j + 1]) % 2)) \div 2
                BY <3>4, ParentsMeans, Zenon
            <4> QED
                BY <3>2, <4>1, Zenon
        <3>6. \A c \in Nat : c >= 1 => (c + (c % 2)) \div 2 >= 1
            OBVIOUS
        <3>7. Len(L[j + 1]) \in Nat
            BY <3>4
        <3> QED
            BY <3>3, <3>5, <3>6, <3>7, Zenon DEF IsList
    <2>2. j + 1 \in Nat
        OBVIOUS
    <2> HIDE DEF Good
    <2> QED
        BY <2>1, <2>2, Zenon
<1> HIDE DEF G
<1>10. \A j \in Nat : j \in G
    BY <1>8, <1>9, SetInduction, Zenon
<1>11. ASSUME NEW k \in 1..n
       PROVE  Good(k)
    <2>1. k - 1 \in Nat /\ (k - 1) + 1 = k
        OBVIOUS
    <2> HIDE DEF Good
    <2> QED
        BY <1>10, <2>1 DEF G
<1> QED
    BY <1>6, <1>11, Zenon DEF L

\* Replacing the first hash, or dropping it, leaves a list.
LEMMA ChangedLevels ==
    ASSUME NEW l, IsList(l), Len(l) >= 1, NEW w
    PROVE  IsList([l EXCEPT ![1] = w]) /\ IsList(Tail(l))
<1>1. PICK S : l \in Seq(S)
    BY DEF IsList
<1>2. l \in Seq(S \cup {w}) /\ 1 \in 1..Len(l) /\ l # <<>>
    BY <1>1
<1>3. [l EXCEPT ![1] = w] \in Seq(S \cup {w})
    BY <1>2, ExceptSeq
<1>4. Tail(l) \in Seq(S)
    BY <1>1, <1>2, HeadTailProperties
<1> QED
    BY <1>3, <1>4, Zenon DEF IsList

\* Replacing one level by a list leaves a list of lists.
LEMMA ChangedList ==
    ASSUME NEW l, IsList(l), \A k \in 1..Len(l) : IsList(l[k]), NEW k \in 1..Len(l), NEW x, IsList(x)
    PROVE  /\ IsList([l EXCEPT ![k] = x])
           /\ \A j \in 1..Len([l EXCEPT ![k] = x]) : IsList([l EXCEPT ![k] = x][j])
<1>1. PICK S : l \in Seq(S)
    BY DEF IsList
<1>2. l \in Seq(S \cup {x})
    BY <1>1
<1>3. /\ [l EXCEPT ![k] = x] \in Seq(S \cup {x})
      /\ Len([l EXCEPT ![k] = x]) = Len(l)
      /\ \A j \in 1..Len(l) : [l EXCEPT ![k] = x][j] = IF j = k THEN x ELSE l[j]
    BY <1>2, ExceptSeq
<1>4. IsList([l EXCEPT ![k] = x])
    BY <1>3, Zenon DEF IsList
<1>5. \A j \in 1..Len(l) : IsList(IF j = k THEN x ELSE l[j])
    OBVIOUS
<1> QED
    BY <1>3, <1>4, <1>5, Zenon

\* Whatever levels a fixture declares are lists of hashes.
LEMMA DeclaredTyped ==
    ASSUME NEW first, IsList(first), Len(first) >= 1, NEW l \in DeclaredLevels(first)
    PROVE  IsList(l) /\ \A k \in 1..Len(l) : IsList(l[k])
<1> DEFINE right == {LevelsFrom(first, n) : n \in 1..MaxLevels}
           Good(x) == IsList(x) /\ \A k \in 1..Len(x) : IsList(x[k])
<1>1. ASSUME NEW x \in right
      PROVE  Good(x) /\ DOMAIN x = 1..Len(x) /\ \A k \in 1..Len(x) : Len(x[k]) >= 1
    <2>1. PICK n \in 1..MaxLevels : x = LevelsFrom(first, n)
        OBVIOUS
    <2>2. n \in Nat
        BY CommandLineAssumption
    <2>3. x \in Seq(Range(x)) /\ Len(x) = n /\ \A k \in 1..n : IsList(x[k]) /\ Len(x[k]) >= 1
        BY <2>1, <2>2, LevelsFromMeans, Zenon
    <2>4. DOMAIN x = 1..Len(x)
        BY <2>3
    <2> QED
        BY <2>3, <2>4, Zenon DEF IsList
<1> HIDE DEF right
<1>2. Good(<<>>)
    <2>1. <<>> \in Seq({}) /\ 1..Len(<<>>) = {}
        OBVIOUS
    <2> QED
        BY <2>1 DEF IsList
<1>3. ASSUME NEW x \in right, NEW k \in DOMAIN x
      PROVE  Good([x EXCEPT ![k] = [@ EXCEPT ![1] = WrongHash]]) /\ Good([x EXCEPT ![k] = Tail(@)])
    <2> DEFINE a == [x[k] EXCEPT ![1] = WrongHash]
               b == Tail(x[k])
    <2>1. IsList(a) /\ IsList(b) /\ k \in 1..Len(x) /\ Good(x)
        <3>1. k \in 1..Len(x) /\ Good(x) /\ Len(x[k]) >= 1
            BY <1>1, <1>3, Zenon
        <3> QED
            BY <3>1, ChangedLevels, Zenon
    <2> HIDE DEF a, b
    <2>2. Good([x EXCEPT ![k] = a]) /\ Good([x EXCEPT ![k] = b])
        BY <2>1, ChangedList, Zenon
    <2>3. /\ [x EXCEPT ![k] = [@ EXCEPT ![1] = WrongHash]] = [x EXCEPT ![k] = a]
          /\ [x EXCEPT ![k] = Tail(@)] = [x EXCEPT ![k] = b]
        BY DEF a, b
    <2> HIDE DEF Good
    <2> QED
        BY <2>2, <2>3
<1>4. \/ l = <<>> \/ l \in right
      \/ \E x \in right : \E k \in DOMAIN x : l = [x EXCEPT ![k] = [@ EXCEPT ![1] = WrongHash]]
      \/ \E x \in right : \E k \in DOMAIN x : l = [x EXCEPT ![k] = Tail(@)]
    <2> DEFINE A(x) == {[x EXCEPT ![k] = [@ EXCEPT ![1] = WrongHash]] : k \in DOMAIN x}
               B(x) == {[x EXCEPT ![k] = Tail(@)] : k \in DOMAIN x}
               wrong == UNION {A(x) : x \in right}
               missing == UNION {B(x) : x \in right}
    <2>1. DeclaredLevels(first) = {<<>>} \cup right \cup wrong \cup missing
        BY DEF DeclaredLevels, right
    <2>2. CASE l \in wrong
        <3>1. PICK x \in right : l \in A(x)
            BY <2>2
        <3> QED
            BY <3>1
    <2>3. CASE l \in missing
        <3>1. PICK x \in right : l \in B(x)
            BY <2>3
        <3> QED
            BY <3>1
    <2> HIDE DEF wrong, missing
    <2> QED
        BY <2>1, <2>2, <2>3, Zenon
<1> HIDE DEF Good
<1>5. Good(l)
    BY <1>1, <1>2, <1>3, <1>4, Zenon
<1> QED
    BY <1>5 DEF Good

\* Leaves and levels of a fixture are lists, and there is a leaf.
LEMMA FixtureLevels ==
    ASSUME NEW i, i \in LevelFixtures \cup ScriptFixtures
    PROVE  /\ IsList(i.levels) /\ \A k \in 1..Len(i.levels) : IsList(i.levels[k])
           /\ IsList(i.leaves) /\ Len(i.leaves) >= 1
<1>1. ASSUME i \in LevelFixtures
      PROVE  \E leaves \in SeqOf(Leaves, MaxLeaves) \ {<<>>} :
               /\ i.leaves = leaves
               /\ i.levels \in DeclaredLevels(leaves) \cup DeclaredLevels(Reverse(leaves))
    BY <1>1 DEF LevelFixtures
<1>2. CASE i \in LevelFixtures
    <2>1. PICK leaves \in SeqOf(Leaves, MaxLeaves) \ {<<>>} :
            /\ i.leaves = leaves
            /\ i.levels \in DeclaredLevels(leaves) \cup DeclaredLevels(Reverse(leaves))
        BY <1>1, <1>2, Zenon
    <2>2. leaves \in Seq(Leaves) /\ leaves # <<>>
        <3>1. PICK k \in 0..MaxLeaves : leaves \in [1..k -> Leaves]
            BY Zenon DEF SeqOf
        <3>2. k \in Nat
            BY CommandLineAssumption
        <3> QED
            BY <3>1, <3>2
    <2>3. Len(leaves) >= 1
        BY <2>2
    <2>4. Reverse(leaves) \in Seq(Leaves) /\ Len(Reverse(leaves)) = Len(leaves)
        BY <2>2, ReverseMeans, Zenon
    <2>5. IsList(leaves) /\ IsList(Reverse(leaves)) /\ Len(Reverse(leaves)) >= 1
        BY <2>2, <2>3, <2>4, Zenon DEF IsList
    <2> QED
        BY <2>1, <2>3, <2>5, DeclaredTyped, Zenon
<1>3. CASE i \in ScriptFixtures
    <2>1. i.leaves = <<WrongHash>> /\ i.levels = <<<<WrongHash>>>>
        BY <1>3 DEF ScriptFixtures
    <2>2. \A w : /\ <<w>> \in Seq({w}) /\ Len(<<w>>) = 1 /\ <<w>>[1] = w
        OBVIOUS
    <2>3. IsList(<<WrongHash>>) /\ IsList(<<<<WrongHash>>>>)
        BY <2>2, Zenon DEF IsList
    <2>4. \A k \in 1..1 : k = 1
        OBVIOUS
    <2>5. Len(<<WrongHash>>) >= 1
        OBVIOUS
    <2> QED
        BY <2>1, <2>2, <2>3, <2>4, <2>5, Zenon
<1> QED
    BY <1>2, <1>3

\* The windows passed so far are levels that follow each other.
LevelInv ==
    input.command = "verify-vectors" =>
        /\ IsList(input.levels) /\ \A k \in 1..Len(input.levels) : IsList(input.levels[k])
        /\ Len(input.leaves) >= 1
        /\ at \notin {"windows", "block_root"} => index = 1
        /\ at \in {"windows", "block_root"} =>
             /\ index \in 1..Len(input.levels)
             /\ \A k \in 1..(index - 1) : LevelFollows(input.levels[k], input.levels[k + 1])
        /\ at = "block_root" => /\ index = Len(input.levels)
                                /\ derived = <<Last(input.levels)[1]>>

\* It holds of every fixture.
LEMMA LevelInit == CliInit => LevelInv
<1> SUFFICES ASSUME CliInit
             PROVE  LevelInv
    OBVIOUS
<1>1. at = "start" /\ index = 1 /\ CliInput
    BY DEF CliInit
<1>2. input.command = "verify-vectors" =>
        /\ IsList(input.levels) /\ \A k \in 1..Len(input.levels) : IsList(input.levels[k])
        /\ Len(input.leaves) >= 1
    BY <1>1, InputOfCommand, FixtureLevels, Zenon
<1> QED
    BY <1>1, <1>2 DEF LevelInv

\* The checks before the levels keep it.
LEMMA EarlyKeepsLevels ==
    ASSUME LevelInv, UNCHANGED <<input, index>>, at \notin {"windows", "block_root"},
           at' \notin {"windows", "block_root"}
    PROVE  LevelInv'
<1> QED
    BY DEF LevelInv

\* Every step of a command keeps it.
LEMMA LevelStep == LevelInv /\ CliNext => LevelInv'
<1> SUFFICES ASSUME LevelInv, CliNext
             PROVE  LevelInv'
    OBVIOUS
<1>1. CASE CheckManifest
    BY <1>1, EarlyKeepsLevels DEF CheckManifest, Running, Ensure, Error
<1>2. CASE CheckIdentity
    BY <1>2, EarlyKeepsLevels DEF CheckIdentity, Running, Ensure, Error
<1>3. CASE DetectMarker
    BY <1>3, EarlyKeepsLevels DEF DetectMarker, Running
<1>4. CASE ParseMarker
    BY <1>4, EarlyKeepsLevels DEF ParseMarker, Running
<1>5. CASE CheckMarker
    BY <1>5, EarlyKeepsLevels DEF CheckMarker, Running, Ensure, Error
<1>6. CASE CheckCarrier
    BY <1>6, EarlyKeepsLevels DEF CheckCarrier, Running, Ensure, Error
<1>7. CASE CheckLeaves
    BY <1>7, EarlyKeepsLevels DEF CheckLeaves, Running, Ensure, Error
<1>8. CASE CheckLevelList
    <2>1. /\ at = "levels" /\ UNCHANGED <<input, index>>
          /\ (at' = "windows" /\ input.levels # <<>>) \/ at' = at
        BY <1>8 DEF CheckLevelList, Running, Ensure, Error
    <2>2. CASE at' = at
        BY <2>1, <2>2, EarlyKeepsLevels
    <2>3. CASE at' = "windows" /\ input.levels # <<>> /\ input.command = "verify-vectors"
        <3>1. IsList(input.levels) /\ index = 1
            BY <2>1, <2>3 DEF LevelInv
        <3>2. index \in 1..Len(input.levels) /\ 1..(index - 1) = {}
            BY <2>3, <3>1 DEF IsList
        <3> QED
            BY <2>1, <2>3, <3>2 DEF LevelInv
    <2>4. CASE input.command # "verify-vectors"
        BY <2>1, <2>4 DEF LevelInv
    <2> QED
        BY <2>1, <2>2, <2>3, <2>4
<1>9. CASE CheckLevel
    <2>1. /\ at = "windows" /\ at' = at /\ input' = input /\ input.command = "verify-vectors"
          /\ \/ /\ index < Len(input.levels)
                /\ LevelFollows(input.levels[index], input.levels[index + 1])
                /\ index' = index + 1
             \/ index' = index
        BY <1>9 DEF CheckLevel, Running, Error
    <2>2. CASE index' = index
        BY <2>1, <2>2 DEF LevelInv
    <2>3. CASE /\ index < Len(input.levels)
               /\ LevelFollows(input.levels[index], input.levels[index + 1])
               /\ index' = index + 1
        <3>1. /\ index \in 1..Len(input.levels)
              /\ \A k \in 1..(index - 1) : LevelFollows(input.levels[k], input.levels[k + 1])
            BY <2>1 DEF LevelInv
        <3>2. Len(input.levels) \in Nat
            BY <2>1 DEF LevelInv, IsList
        <3>3. /\ index' \in 1..Len(input.levels)
              /\ \A k \in 1..(index' - 1) : k \in 1..(index - 1) \/ k = index
            BY <2>3, <3>1, <3>2
        <3>4. \A k \in 1..(index' - 1) : LevelFollows(input.levels[k], input.levels[k + 1])
            BY <2>3, <3>1, <3>3, Zenon
        <3> QED
            BY <2>1, <3>3, <3>4, Zenon DEF LevelInv
    <2> QED
        BY <2>1, <2>2, <2>3
<1>10. CASE CheckRoot
    <2>1. /\ at = "windows" /\ UNCHANGED <<input, index>> /\ input.command = "verify-vectors"
          /\ index >= Len(input.levels)
          /\ \/ at' = "block_root" /\ derived' = <<Last(input.levels)[1]>>
             \/ at' = at /\ derived' = derived
        BY <1>10 DEF CheckRoot, Running, Error
    <2>2. index \in 1..Len(input.levels) /\ Len(input.levels) \in Nat
        BY <2>1 DEF LevelInv, IsList
    <2>3. index = Len(input.levels)
        BY <2>1, <2>2
    <2> QED
        BY <2>1, <2>3 DEF LevelInv
<1>11. CASE CheckBlockRoot
    <2>1. UNCHANGED <<input, at, index, derived>>
        BY <1>11 DEF CheckBlockRoot, Report, Error
    <2> QED
        BY <2>1 DEF LevelInv
<1>12. CASE input.command # "verify-vectors" /\ input' = input
    BY <1>12 DEF LevelInv
<1>13. CheckLock \/ CheckFile \/ ReportInputs \/ ReplayBlock \/ ReportReplay =>
        input.command # "verify-vectors" /\ input' = input
    BY DEF CheckLock, CheckFile, ReportInputs, ReplayBlock, ReportReplay, Running, Ensure, Error,
           Report
<1> QED
    BY <1>1, <1>2, <1>3, <1>4, <1>5, <1>6, <1>7, <1>8, <1>9, <1>10, <1>11, <1>12, <1>13
       DEF CliNext

\* It implies that the two Merkle programs agree.
LEMMA LevelInvImplies == LevelInv => AcceptedRootIsMerkle
<1> SUFFICES ASSUME LevelInv, input.command = "verify-vectors", at = "block_root",
                    input.levels[1] = input.leaves,
                    \A k \in DOMAIN input.levels :
                        Len(input.levels[k]) = 1 <=> k = Len(input.levels)
             PROVE  derived = <<merkle(input.leaves, DOMAIN_NODE)>>
    BY DEF AcceptedRootIsMerkle
<1> DEFINE L == input.levels
           n == Len(L)
<1>1. /\ IsList(L) /\ \A k \in 1..n : IsList(L[k])
      /\ Len(L[1]) >= 1
      /\ n \in 1..n
      /\ \A k \in 1..(n - 1) : LevelFollows(L[k], L[k + 1])
      /\ derived = <<Last(L)[1]>>
    BY DEF LevelInv
<1>2. n \in Nat /\ n >= 1 /\ DOMAIN L = 1..n /\ Last(L) = L[n]
    BY <1>1 DEF IsList, Last
<1> HIDE DEF n
<1>3. ASSUME NEW k \in 1..n, k + 1 \in 1..n
      PROVE  L[k + 1] = Parents(L[k], DOMAIN_NODE)
    <2>1. k \in 1..(n - 1)
        BY <1>2, <1>3
    <2>2. LevelFollows(L[k], L[k + 1]) /\ IsList(L[k]) /\ IsList(L[k + 1])
        BY <1>1, <1>3, <2>1, Zenon
    <2> QED
        BY <2>2, FollowedIsParents, Zenon DEF IsList
<1>4. \A k \in 1..n : Len(L[k]) = 1 <=> k = n
    BY <1>2, Zenon DEF n
<1>5. merkle(L[1], DOMAIN_NODE) = L[n][1]
    BY <1>1, <1>2, <1>3, <1>4, LevelsEndInMerkle, Zenon
<1> QED
    BY <1>1, <1>2, <1>5, Zenon

\* A fixture's levels are accepted up to a single hash only if that hash is
\* the root that roots.rs computes from the leaves, for trees of any width.
THEOREM MerkleProgramsAgree == ProgramsSpec => []AcceptedRootIsMerkle
<1>1. ProgramsInit => LevelInv
    BY LevelInit DEF ProgramsInit
<1>2. LevelInv /\ [Command \/ Verifier]_<<cliVars, startupVars>> => LevelInv'
    <2> SUFFICES ASSUME LevelInv, [Command \/ Verifier]_<<cliVars, startupVars>>
                 PROVE  LevelInv'
        OBVIOUS
    <2>1. CASE CliNext
        BY <2>1, LevelStep
    <2>2. CASE UNCHANGED cliVars
        BY <2>2 DEF cliVars, LevelInv
    <2> QED
        BY <2>1, <2>2, ProgramsStep
<1> QED
    BY <1>1, <1>2, LevelInvImplies, PTL DEF ProgramsSpec

-----------------------------------------------------------------------------
\* replay: the chained roots.

\* The roots of height i, by those of the height before.
RootsAt(roots, blocks, i) ==
    HeightRoots(IF i = 1 THEN STATE_EMPTY ELSE roots[i - 1].chained_root, i, blocks[i])

\* roots are the roots of the blocks.
RootsOf(roots, blocks) == roots = [i \in DOMAIN blocks |-> RootsAt(roots, blocks, i)]

\* The roots of height i are determined by those below.
LEMMA SameRootsAt ==
    ASSUME NEW f, NEW g, NEW blocks, NEW i, i = 1 \/ f[i - 1] = g[i - 1]
    PROVE  RootsAt(f, blocks, i) = RootsAt(g, blocks, i)
<1>1. CASE i = 1
    BY <1>1 DEF RootsAt
<1>2. CASE i # 1
    BY <1>2, Zenon DEF RootsAt
<1> QED
    BY <1>1, <1>2

\* Any number of blocks has roots.
LEMMA RootsExist ==
    ASSUME NEW blocks, NEW n \in Nat
    PROVE  \E f : f = [i \in 1..n |-> RootsAt(f, blocks, i)]
<1> DEFINE Rec(f, m) == f = [i \in 1..m |-> RootsAt(f, blocks, i)]
           S == {m \in Nat : \E f : Rec(f, m)}
<1>1. 0 \in S
    <2> DEFINE f == [i \in 1..0 |-> STATE_EMPTY]
    <2>1. f = [i \in 1..0 |-> RootsAt(f, blocks, i)]
        OBVIOUS
    <2> QED
        BY <2>1, Zenon
<1>2. ASSUME NEW m \in Nat, m \in S
      PROVE  m + 1 \in S
    <2>1. PICK f : Rec(f, m)
        BY <1>2
    <2> DEFINE g == [i \in 1..(m + 1) |-> RootsAt(f, blocks, i)]
    <2>2. \A i \in 1..m : f[i] = RootsAt(f, blocks, i)
        BY <2>1
    <2>3. \A i \in 1..(m + 1) : g[i] = RootsAt(f, blocks, i)
        OBVIOUS
    <2>4. ASSUME NEW i \in 1..(m + 1)
          PROVE  RootsAt(f, blocks, i) = RootsAt(g, blocks, i)
        <3>1. i # 1 => i - 1 \in 1..m /\ i - 1 \in 1..(m + 1)
            OBVIOUS
        <3>2. i = 1 \/ f[i - 1] = g[i - 1]
            BY <2>2, <2>3, <3>1, Zenon
        <3> HIDE DEF g
        <3> QED
            BY <3>2, SameRootsAt, SMT
    <2>5. g = [i \in 1..(m + 1) |-> RootsAt(g, blocks, i)]
        BY <2>4, Zenon
    <2>6. m + 1 \in Nat
        OBVIOUS
    <2> HIDE DEF g
    <2> QED
        BY <2>5, <2>6
<1> HIDE DEF S
<1>3. \A m \in Nat : m \in S
    BY <1>1, <1>2, SetInduction, Zenon
<1> QED
    BY <1>3, Zenon DEF S

\* ReplayRoots is the list of those roots.
LEMMA ReplayRootsMeans ==
    ASSUME NEW blocks, IsList(blocks)
    PROVE  /\ RootsOf(ReplayRoots(blocks), blocks)
           /\ IsList(ReplayRoots(blocks)) /\ Len(ReplayRoots(blocks)) = Len(blocks)
<1>1. DOMAIN blocks = 1..Len(blocks) /\ Len(blocks) \in Nat
    BY DEF IsList
<1>2. \E f : RootsOf(f, blocks)
    <2>1. PICK f : f = [i \in 1..Len(blocks) |-> RootsAt(f, blocks, i)]
        BY <1>1, RootsExist, Zenon
    <2>2. RootsOf(f, blocks)
        BY <1>1, <2>1 DEF RootsOf
    <2> QED
        BY <2>2
<1> DEFINE Rec(f) == f = [i \in DOMAIN blocks |->
                            HeightRoots(IF i = 1 THEN STATE_EMPTY ELSE f[i - 1].chained_root,
                                        i, blocks[i])]
<1>3. Rec(CHOOSE f : Rec(f))
    <2>1. PICK f : RootsOf(f, blocks)
        BY <1>2
    <2>2. Rec(f)
        BY <2>1, Zenon DEF RootsOf, RootsAt
    <2> QED
        BY <2>2, Zenon
<1> DEFINE R == ReplayRoots(blocks)
<1>4. RootsOf(R, blocks)
    <2>1. Rec(R)
        BY <1>3, Zenon DEF ReplayRoots
    <2> QED
        BY <2>1, Zenon DEF RootsOf, RootsAt
<1> HIDE DEF R
<1>5. R \in [1..Len(blocks) -> Range(R)]
    <2>1. DOMAIN R = 1..Len(blocks) /\ R = [i \in DOMAIN R |-> R[i]]
        BY <1>1, <1>4, Zenon DEF RootsOf
    <2> QED
        BY <2>1 DEF Range
<1>6. R \in Seq(Range(R)) /\ Len(R) = Len(blocks)
    BY <1>1, <1>5
<1> QED
    BY <1>4, <1>6, Zenon DEF IsList, R

\* A list that computes every height from the one below is that list.
LEMMA RootsUnique ==
    ASSUME NEW blocks, IsList(blocks), NEW roots, IsList(roots), Len(roots) = Len(blocks),
           \A i \in 1..Len(roots) : roots[i] = RootsAt(roots, blocks, i)
    PROVE  roots = ReplayRoots(blocks)
<1> DEFINE R == ReplayRoots(blocks)
           n == Len(blocks)
           S == {m \in Nat : m + 1 \in 1..n => roots[m + 1] = R[m + 1]}
<1>1. RootsOf(R, blocks) /\ IsList(R) /\ Len(R) = n
    BY ReplayRootsMeans, Zenon
<1>2. n \in Nat /\ DOMAIN blocks = 1..n /\ DOMAIN roots = 1..n
    BY DEF IsList
<1> HIDE DEF R, n
<1>3. \A i \in 1..n : R[i] = RootsAt(R, blocks, i)
    BY <1>1, <1>2, Zenon DEF RootsOf
<1>4. \A i \in 1..n : roots[i] = RootsAt(roots, blocks, i)
    BY Zenon DEF n
<1>5. 0 \in S
    <2>1. 0 \in Nat /\ 0 + 1 = 1
        OBVIOUS
    <2>2. RootsAt(R, blocks, 1) = RootsAt(roots, blocks, 1)
        BY SameRootsAt, SMT
    <2> QED
        BY <1>3, <1>4, <2>1, <2>2, Zenon
<1>6. ASSUME NEW m \in Nat, m \in S
      PROVE  m + 1 \in S
    <2>1. ASSUME (m + 1) + 1 \in 1..n
          PROVE  roots[(m + 1) + 1] = R[(m + 1) + 1]
        <3>1. m + 1 \in 1..n /\ ((m + 1) + 1) - 1 = m + 1
            BY <1>2, <2>1
        <3>2. roots[((m + 1) + 1) - 1] = R[((m + 1) + 1) - 1]
            BY <1>6, <3>1, Zenon
        <3>3. RootsAt(roots, blocks, (m + 1) + 1) = RootsAt(R, blocks, (m + 1) + 1)
            BY <3>2, SameRootsAt, SMT
        <3> QED
            BY <1>3, <1>4, <2>1, <3>3, Zenon
    <2>2. m + 1 \in Nat
        OBVIOUS
    <2> QED
        BY <2>1, <2>2, Zenon
<1> HIDE DEF S
<1>7. \A m \in Nat : m \in S
    BY <1>5, <1>6, SetInduction, Zenon
<1>8. ASSUME NEW i \in 1..n
      PROVE  roots[i] = R[i]
    <2>1. i - 1 \in Nat /\ (i - 1) + 1 = i
        BY <1>2
    <2> QED
        BY <1>7, <2>1, Zenon DEF S
<1>9. roots = [i \in 1..n |-> roots[i]] /\ R = [i \in 1..n |-> R[i]]
    <2>1. \A s : IsList(s) => s = [i \in 1..Len(s) |-> s[i]]
        BY DEF IsList
    <2> QED
        BY <1>1, <2>1, Zenon DEF n
<1>10. [i \in 1..n |-> roots[i]] = [i \in 1..n |-> R[i]]
    BY <1>8, Zenon
<1> QED
    BY <1>9, <1>10, Zenon DEF R

\* The files of a replay.
LEMMA ReplayTyped ==
    ASSUME CliInput, input.command = "replay"
    PROVE  IsList(input.blocks) /\ IsList(input.expected_roots)
<1>1. ASSUME NEW S, NEW m, NEW s \in SeqOf(S, m), m \in Nat
      PROVE  s \in Seq(S)
    <2>1. PICK k \in 0..m : s \in [1..k -> S]
        BY Zenon DEF SeqOf
    <2>2. k \in Nat
        BY <1>1
    <2> QED
        BY <2>1, <2>2
<1>2. CASE input \in BlockReplays
    <2>1. /\ input.blocks \in SeqOf({Block1, Block2, Refused}, MaxFiles)
          /\ input.expected_roots
               \in {ReplayRoots(blocks) : blocks \in SeqOf({Block1, Block2}, MaxFiles)}
        BY <1>2 DEF BlockReplays
    <2>2. PICK blocks \in SeqOf({Block1, Block2}, MaxFiles) :
            input.expected_roots = ReplayRoots(blocks)
        BY <2>1, Zenon
    <2>3. MaxFiles \in Nat
        BY CommandLineAssumption, Zenon
    <2>4. IsList(input.blocks) /\ IsList(blocks)
        BY <1>1, <2>1, <2>3, Zenon DEF IsList
    <2> QED
        BY <2>2, <2>4, ReplayRootsMeans, Zenon
<1>3. \A b : IsList(<<b>>) /\ IsList(<<>>)
    <2>1. \A b : <<b>> \in Seq({b}) /\ <<>> \in Seq({b})
        OBVIOUS
    <2> QED
        BY <2>1, Zenon DEF IsList
<1>4. CASE \E places, contents : input = EventReplay(places, contents)
    <2>1. PICK places, contents : input = EventReplay(places, contents)
        BY <1>4
    <2>2. input.expected_roots = <<>> /\ \E b : input.blocks = <<b>>
        BY <2>1 DEF EventReplay
    <2> QED
        BY <1>3, <2>2, Zenon
<1>5. CASE \E places, states : input = ObjectReplay(places, states)
    <2>1. PICK places, states : input = ObjectReplay(places, states)
        BY <1>5
    <2>2. input.expected_roots = <<>> /\ \E b : input.blocks = <<b>>
        BY <2>1, Zenon DEF ObjectReplay
    <2> QED
        BY <1>3, <2>2, Zenon
<1> QED
    BY <1>2, <1>4, <1>5, InputOfCommand

\* The heights replayed so far have the roots the source derives and the
\* fixture expects.
ReplayInv ==
    input.command = "replay" =>
        /\ IsList(input.blocks) /\ IsList(input.expected_roots) /\ IsList(derived)
        /\ index = Len(derived) + 1 /\ Len(derived) <= Len(input.blocks)
        /\ \A i \in 1..Len(derived) :
             /\ derived[i] = RootsAt(derived, input.blocks, i)
             /\ i <= Len(input.expected_roots) => input.expected_roots[i] = derived[i]
        /\ result = "report" =>
             /\ Len(derived) = Len(input.blocks)
             /\ input.expected_roots = <<>> \/ Len(input.expected_roots) = Len(derived)

\* It holds before the first height.
LEMMA ReplayInit == CliInit => ReplayInv
<1> SUFFICES ASSUME CliInit, input.command = "replay"
             PROVE  ReplayInv
    BY Zenon DEF ReplayInv
<1>1. IsList(input.blocks) /\ IsList(input.expected_roots)
    BY ReplayTyped DEF CliInit
<1>2. index = 1 /\ derived = <<>> /\ result # "report"
    BY DEF CliInit
<1>3. IsList(<<>>) /\ Len(<<>>) = 0 /\ 1..0 = {} /\ 0 + 1 = 1
    <2>1. <<>> \in Seq({})
        OBVIOUS
    <2>2. IsList(<<>>)
        BY <2>1, Zenon DEF IsList
    <2> QED
        BY <2>2
<1>4. 0 <= Len(input.blocks)
    BY <1>1 DEF IsList
<1> QED
    BY <1>1, <1>2, <1>3, <1>4, Zenon DEF ReplayInv

\* A height appended to the list keeps the roots below it.
LEMMA AppendRoots ==
    ASSUME NEW d, IsList(d), NEW x, NEW blocks
    PROVE  /\ IsList(Append(d, x)) /\ Len(Append(d, x)) = Len(d) + 1
           /\ Append(d, x)[Len(d) + 1] = x
           /\ \A i \in 1..Len(d) : /\ Append(d, x)[i] = d[i]
                                   /\ RootsAt(Append(d, x), blocks, i) = RootsAt(d, blocks, i)
           /\ RootsAt(Append(d, x), blocks, Len(d) + 1) = RootsAt(d, blocks, Len(d) + 1)
<1>1. PICK S : d \in Seq(S)
    BY DEF IsList
<1>2. d \in Seq(S \cup {x}) /\ x \in S \cup {x} /\ Len(d) \in Nat
    BY <1>1
<1> DEFINE e == Append(d, x)
<1>3. /\ e \in Seq(S \cup {x}) /\ Len(e) = Len(d) + 1 /\ e[Len(d) + 1] = x
      /\ \A i \in 1..Len(d) : e[i] = d[i]
    BY <1>2, AppendProperties
<1> HIDE DEF e
<1>4. ASSUME NEW i \in 1..(Len(d) + 1)
      PROVE  RootsAt(e, blocks, i) = RootsAt(d, blocks, i)
    <2>1. i # 1 => i - 1 \in 1..Len(d)
        BY <1>2
    <2>2. i = 1 \/ e[i - 1] = d[i - 1]
        BY <1>3, <2>1, Zenon
    <2> QED
        BY <2>2, SameRootsAt
<1>5. \A i \in 1..Len(d) : i \in 1..(Len(d) + 1)
    BY <1>2
<1>6. Len(d) + 1 \in 1..(Len(d) + 1)
    BY <1>2
<1> QED
    BY <1>3, <1>4, <1>5, <1>6, Zenon DEF IsList, e

\* One replayed block.
LEMMA ReplayBlockStep ==
    ASSUME ReplayInv, ReplayBlock
    PROVE  ReplayInv'
<1> DEFINE roots == HeightRoots(IF derived = <<>> THEN STATE_EMPTY
                                ELSE Last(derived).chained_root, index, input.blocks[index])
<1>1. /\ input' = input /\ input.command = "replay" /\ result = "running"
      /\ index <= Len(input.blocks) /\ result' # "report"
      /\ \/ /\ index <= Len(input.expected_roots) => input.expected_roots[index] = roots
            /\ index' = index + 1 /\ derived' = Append(derived, roots)
         \/ UNCHANGED <<index, derived>>
    BY DEF ReplayBlock, Running, Error, ExpectedRootMatches
<1>2. /\ IsList(input.blocks) /\ IsList(input.expected_roots) /\ IsList(derived)
      /\ index = Len(derived) + 1 /\ Len(derived) <= Len(input.blocks)
      /\ \A i \in 1..Len(derived) :
           /\ derived[i] = RootsAt(derived, input.blocks, i)
           /\ i <= Len(input.expected_roots) => input.expected_roots[i] = derived[i]
    BY <1>1, Zenon DEF ReplayInv
<1>3. roots = RootsAt(derived, input.blocks, Len(derived) + 1)
    <2>1. /\ Len(derived) \in Nat /\ (Len(derived) + 1) - 1 = Len(derived)
          /\ Len(derived) = 0 <=> derived = <<>>
          /\ Last(derived) = derived[Len(derived)]
        BY <1>2 DEF IsList, Last
    <2>2. CASE derived = <<>>
        <3>1. Len(derived) + 1 = 1
            BY <2>1, <2>2
        <3> QED
            BY <1>2, <2>2, <3>1, Zenon DEF RootsAt
    <2>3. CASE derived # <<>>
        <3>1. Len(derived) + 1 # 1
            BY <2>1, <2>3
        <3> QED
            BY <1>2, <2>1, <2>3, <3>1, Zenon DEF RootsAt
    <2> QED
        BY <2>2, <2>3
<1>4. CASE UNCHANGED <<index, derived>>
    BY <1>1, <1>2, <1>4, Zenon DEF ReplayInv
<1>5. CASE /\ index <= Len(input.expected_roots) => input.expected_roots[index] = roots
           /\ index' = index + 1 /\ derived' = Append(derived, roots)
    <2> HIDE DEF roots
    <2> DEFINE d == derived'
               n == Len(derived)
    <2>1. /\ IsList(d) /\ Len(d) = n + 1 /\ d[n + 1] = roots
          /\ \A i \in 1..n : /\ d[i] = derived[i]
                             /\ RootsAt(d, input.blocks, i) = RootsAt(derived, input.blocks, i)
          /\ RootsAt(d, input.blocks, n + 1) = RootsAt(derived, input.blocks, n + 1)
        <3> DEFINE e == Append(derived, roots)
        <3>1. /\ IsList(e) /\ Len(e) = n + 1 /\ e[n + 1] = roots
              /\ \A i \in 1..n : /\ e[i] = derived[i]
                                 /\ RootsAt(e, input.blocks, i) = RootsAt(derived, input.blocks, i)
              /\ RootsAt(e, input.blocks, n + 1) = RootsAt(derived, input.blocks, n + 1)
            BY <1>2, AppendRoots
        <3>2. d = e
            BY <1>5
        <3> HIDE DEF d, e
        <3> QED
            BY <3>1, <3>2, Zenon
    <2> HIDE DEF d
    <2>2. n \in Nat
        BY <1>2 DEF IsList
    <2>3. \A i \in 1..(n + 1) : i \in 1..n \/ i = n + 1
        BY <2>2
    <2>4. ASSUME NEW i \in 1..Len(d)
          PROVE  /\ d[i] = RootsAt(d, input.blocks, i)
                 /\ i <= Len(input.expected_roots) => input.expected_roots[i] = d[i]
        <3>1. CASE i \in 1..n
            BY <1>2, <2>1, <3>1, Zenon
        <3>2. CASE i = n + 1
            BY <1>2, <1>3, <1>5, <2>1, <3>2, Zenon
        <3> QED
            BY <2>1, <2>3, <3>1, <3>2, Zenon
    <2>5. index' = Len(d) + 1 /\ Len(d) <= Len(input.blocks)
        BY <1>1, <1>2, <1>5, <2>1, <2>2
    <2> QED
        BY <1>1, <1>2, <2>1, <2>4, <2>5, Zenon DEF ReplayInv, d
<1> QED
    BY <1>1, <1>4, <1>5

\* Every step of a command keeps it.
LEMMA ReplayStep == ReplayInv /\ CliNext => ReplayInv'
<1> SUFFICES ASSUME ReplayInv, CliNext
             PROVE  ReplayInv'
    OBVIOUS
<1>1. CASE ReplayBlock
    BY <1>1, ReplayBlockStep
<1>2. CASE ReportReplay
    <2>1. /\ input.command = "replay" /\ UNCHANGED <<input, index, derived>>
          /\ index > Len(input.blocks)
          /\ \/ input.expected_roots = <<>> \/ Len(input.expected_roots) = Len(derived)
             \/ result' # "report"
        BY <1>2 DEF ReportReplay, Running, Report, Error
    <2>2. Len(derived) = Len(input.blocks)
        <3>1. /\ IsList(input.blocks) /\ IsList(derived)
              /\ index = Len(derived) + 1 /\ Len(derived) <= Len(input.blocks)
            BY <2>1, Zenon DEF ReplayInv
        <3>2. Len(derived) \in Nat /\ Len(input.blocks) \in Nat
            BY <3>1 DEF IsList
        <3> QED
            BY <2>1, <3>1, <3>2
    <2> QED
        BY <2>1, <2>2, Zenon DEF ReplayInv
<1>3. CASE input.command # "replay" /\ input' = input
    BY <1>3, Zenon DEF ReplayInv
<1>4. CheckLock \/ CheckFile \/ ReportInputs =>
        input.command # "replay" /\ input' = input
    BY DEF CheckLock, CheckFile, ReportInputs, Running, Ensure, Error, Report
<1>5. CheckManifest \/ CheckIdentity \/ DetectMarker \/ ParseMarker \/ CheckMarker \/ CheckCarrier
        => input.command # "replay" /\ input' = input
    BY DEF CheckManifest, CheckIdentity, DetectMarker, ParseMarker, CheckMarker, CheckCarrier,
           Running, Ensure, Error
<1>6. CheckLeaves \/ CheckLevelList \/ CheckLevel \/ CheckRoot \/ CheckBlockRoot
        => input.command # "replay" /\ input' = input
    BY DEF CheckLeaves, CheckLevelList, CheckLevel, CheckRoot, CheckBlockRoot, Running, Ensure,
           Error, Report
<1> QED
    BY <1>1, <1>2, <1>3, <1>4, <1>5, <1>6 DEF CliNext

\* It implies that a report is about the roots of these blocks.
LEMMA ReplayInvImplies == ReplayInv => ReplayMatchesExpected
<1> SUFFICES ASSUME ReplayInv, input.command = "replay", result = "report"
             PROVE  derived = ReplayRoots(input.blocks) /\ input.expected_roots \in {<<>>, derived}
    BY Zenon DEF ReplayMatchesExpected
<1> DEFINE x == input.expected_roots
<1>1. /\ IsList(input.blocks) /\ IsList(x) /\ IsList(derived)
      /\ \A i \in 1..Len(derived) :
           /\ derived[i] = RootsAt(derived, input.blocks, i)
           /\ i <= Len(x) => x[i] = derived[i]
      /\ Len(derived) = Len(input.blocks)
      /\ x = <<>> \/ Len(x) = Len(derived)
    BY Zenon DEF ReplayInv
<1>2. derived = ReplayRoots(input.blocks)
    BY <1>1, RootsUnique, Zenon
<1> HIDE DEF x
<1>3. ASSUME Len(x) = Len(derived)
      PROVE  x = derived
    <2>1. \A s : IsList(s) => Len(s) \in Nat /\ s = [i \in 1..Len(s) |-> s[i]]
        BY DEF IsList
    <2>2. \A i \in 1..Len(x) : i <= Len(x)
        BY <1>1, <2>1
    <2>3. [i \in 1..Len(x) |-> x[i]] = [i \in 1..Len(x) |-> derived[i]]
        BY <1>1, <1>3, <2>2, Zenon
    <2>4. x = [i \in 1..Len(x) |-> x[i]] /\ derived = [i \in 1..Len(x) |-> derived[i]]
        BY <1>1, <1>3, <2>1
    <2> QED
        BY <2>3, <2>4, Zenon
<1> QED
    BY <1>1, <1>2, <1>3, Zenon DEF x

\* A replay reports only the roots that roots.rs chains over its blocks, and
\* only if the fixture expects none or exactly these, for any number of blocks.
THEOREM ReplayReportsExpected == ProgramsSpec => []ReplayMatchesExpected
<1>1. ProgramsInit => ReplayInv
    BY ReplayInit DEF ProgramsInit
<1>2. ReplayInv /\ [Command \/ Verifier]_<<cliVars, startupVars>> => ReplayInv'
    <2> SUFFICES ASSUME ReplayInv, [Command \/ Verifier]_<<cliVars, startupVars>>
                 PROVE  ReplayInv'
        OBVIOUS
    <2>1. CASE CliNext
        BY <2>1, ReplayStep
    <2>2. CASE UNCHANGED cliVars
        BY <2>2, Zenon DEF cliVars, ReplayInv
    <2> QED
        BY <2>1, <2>2, ProgramsStep
<1> QED
    BY <1>1, <1>2, ReplayInvImplies, PTL DEF ProgramsSpec

-----------------------------------------------------------------------------
\* Merkle trees: equal roots have equal leaves.

\* L are the levels of a tree over the leaves a, up to its root.
Tree(L, n, a, d) ==
    /\ n \in Nat /\ n >= 1
    /\ L[1] = a
    /\ \A k \in 1..n : IsList(L[k]) /\ Len(L[k]) >= 1
    /\ \A k \in 1..n : k + 1 \in 1..n => L[k + 1] = Parents(L[k], d)
    /\ \A k \in 1..n : Len(L[k]) = 1 <=> k = n

\* The length of a list.
LEMMA ListLength == \A s : IsList(s) => Len(s) \in Nat
<1> QED
    BY DEF IsList

\* The level above is a shorter list.
LEMMA ParentsShorter ==
    ASSUME NEW a, IsList(a), Len(a) > 1, NEW d
    PROVE  /\ IsList(Parents(a, d)) /\ Len(Parents(a, d)) >= 1
           /\ Len(Parents(a, d)) < Len(a)
<1> DEFINE p == Parents(a, d)
<1>1. PICK S : a \in Seq(S)
    BY DEF IsList
<1>2. p \in Seq(Range(p)) /\ Len(p) = (Len(a) + (Len(a) % 2)) \div 2
    BY <1>1, ParentsMeans, Zenon
<1>3. IsList(p)
    BY <1>2, Zenon DEF IsList
<1>4. Len(a) \in Nat
    BY <1>1
<1>5. \A n \in Nat : n > 1 => (n + (n % 2)) \div 2 >= 1 /\ (n + (n % 2)) \div 2 < n
    OBVIOUS
<1> QED
    BY <1>2, <1>3, <1>4, <1>5

\* A single hash is a tree.
LEMMA SingleTree ==
    ASSUME NEW a, IsList(a), Len(a) = 1, NEW d
    PROVE  Tree([k \in 1..1 |-> a], 1, a, d)
<1>1. \A k \in 1..1 : k = 1 /\ k + 1 \notin 1..1
    OBVIOUS
<1>2. 1 \in Nat /\ 1 >= 1 /\ 1 \in 1..1
    OBVIOUS
<1>3. Len(a) >= 1
    OBVIOUS
<1> QED
    BY <1>1, <1>2, <1>3, Zenon DEF Tree

\* A level below a tree makes a higher one.
LEMMA HigherTree ==
    ASSUME NEW a, IsList(a), Len(a) > 1, NEW d, NEW M, NEW m, Tree(M, m, Parents(a, d), d)
    PROVE  Tree([k \in 1..(m + 1) |-> IF k = 1 THEN a ELSE M[k - 1]], m + 1, a, d)
<1> DEFINE L == [k \in 1..(m + 1) |-> IF k = 1 THEN a ELSE M[k - 1]]
<1>1. /\ m \in Nat /\ m >= 1
      /\ M[1] = Parents(a, d)
      /\ \A k \in 1..m : IsList(M[k]) /\ Len(M[k]) >= 1
      /\ \A k \in 1..m : k + 1 \in 1..m => M[k + 1] = Parents(M[k], d)
      /\ \A k \in 1..m : Len(M[k]) = 1 <=> k = m
    BY DEF Tree
<1>2. /\ m + 1 \in Nat /\ m + 1 >= 1 /\ 1 \in 1..(m + 1) /\ m + 1 # 1
      /\ \A k \in 1..(m + 1) : k # 1 => k - 1 \in 1..m /\ (k - 1 = m <=> k = m + 1)
    BY <1>1
<1>3. L[1] = a /\ \A k \in 1..(m + 1) : k # 1 => L[k] = M[k - 1]
    BY <1>2
<1> HIDE DEF L
<1>4. ASSUME NEW k \in 1..(m + 1)
      PROVE  IsList(L[k]) /\ Len(L[k]) >= 1 /\ (Len(L[k]) = 1 <=> k = m + 1)
    <2>1. CASE k = 1
        <3>1. Len(a) >= 1 /\ Len(a) # 1
            BY ListLength, SeveralOrOne, Zenon
        <3> QED
            BY <1>2, <1>3, <2>1, <3>1
    <2>2. CASE k # 1
        BY <1>1, <1>2, <1>3, <2>2, Zenon
    <2> QED
        BY <2>1, <2>2
<1>5. ASSUME NEW k \in 1..(m + 1), k + 1 \in 1..(m + 1)
      PROVE  L[k + 1] = Parents(L[k], d)
    <2>1. k + 1 # 1 /\ (k + 1) - 1 = k
        BY <1>1
    <2>2. L[k + 1] = M[k]
        BY <1>3, <1>5, <2>1
    <2>3. CASE k = 1
        BY <1>1, <1>3, <2>2, <2>3
    <2>4. CASE k # 1
        <3>1. k - 1 \in 1..m /\ (k - 1) + 1 = k /\ k \in 1..m
            BY <1>1, <1>5, <2>4
        <3>2. M[k] = Parents(M[k - 1], d) /\ L[k] = M[k - 1]
            BY <1>1, <1>3, <2>4, <3>1
        <3> QED
            BY <2>2, <3>2
    <2> QED
        BY <2>3, <2>4
<1>6. Tree(L, m + 1, a, d)
    BY <1>2, <1>3, <1>4, <1>5, Zenon DEF Tree
<1> QED
    BY <1>6 DEF L

\* Every list of leaves has a tree.
LEMMA TreeExists ==
    ASSUME NEW a, IsList(a), Len(a) >= 1, NEW d
    PROVE  \E L, n : Tree(L, n, a, d)
<1> DEFINE Has(b) == \E L, n : Tree(L, n, b, d)
           S == {m \in Nat : \A b : IsList(b) /\ Len(b) >= 1 /\ Len(b) <= m => Has(b)}
<1>1. 0 \in S
    <2>1. \A b : IsList(b) => Len(b) \in Nat
        BY DEF IsList
    <2>2. \A b : ~(IsList(b) /\ Len(b) >= 1 /\ Len(b) <= 0)
        BY <2>1
    <2>3. 0 \in Nat
        OBVIOUS
    <2> QED
        BY <2>2, <2>3, Zenon
<1>2. ASSUME NEW m \in Nat, m \in S
      PROVE  m + 1 \in S
    <2>1. ASSUME NEW b, IsList(b), Len(b) >= 1, Len(b) <= m + 1
          PROVE  Has(b)
        <3>1. CASE Len(b) = 1
            BY <2>1, <3>1, SingleTree, Zenon
        <3>2. CASE Len(b) # 1
            <4> DEFINE p == Parents(b, d)
            <4>1. Len(b) \in Nat
                BY <2>1 DEF IsList
            <4>2. Len(b) > 1
                BY <2>1, <3>2, <4>1, SeveralOrOne, Zenon
            <4>3. IsList(p) /\ Len(p) >= 1 /\ Len(p) < Len(b)
                BY <2>1, <4>2, ParentsShorter, Zenon
            <4> HIDE DEF p
            <4>4. Len(p) \in Nat
                BY <4>3 DEF IsList
            <4>5. Len(p) <= m
                BY <2>1, <4>1, <4>3, <4>4
            <4>6. Has(p)
                BY <1>2, <4>3, <4>5, Zenon
            <4>7. PICK M, k : Tree(M, k, p, d)
                BY <4>6, Zenon
            <4>8. Tree([i \in 1..(k + 1) |-> IF i = 1 THEN b ELSE M[i - 1]], k + 1, b, d)
                BY <2>1, <4>2, <4>7, HigherTree, Zenon DEF p
            <4> QED
                BY <4>8, Zenon
        <3> QED
            BY <3>1, <3>2
    <2>2. m + 1 \in Nat
        OBVIOUS
    <2> HIDE DEF Has
    <2> QED
        BY <2>1, <2>2, Zenon
<1> HIDE DEF S
<1>3. \A m \in Nat : m \in S
    BY <1>1, <1>2, SetInduction, Zenon
<1>4. Len(a) \in Nat /\ Len(a) <= Len(a)
    BY DEF IsList
<1> QED
    BY <1>3, <1>4, Zenon DEF S

\* Its root is the Merkle root.
LEMMA TreeRoot ==
    ASSUME NEW a, NEW d, NEW L, NEW n, Tree(L, n, a, d)
    PROVE  merkle(a, d) = L[n][1]
<1>1. /\ n \in Nat /\ n >= 1 /\ L[1] = a
      /\ \A k \in 1..n : IsList(L[k]) /\ Len(L[k]) >= 1
      /\ \A k \in 1..n : k + 1 \in 1..n => L[k + 1] = Parents(L[k], d)
      /\ \A k \in 1..n : Len(L[k]) = 1 <=> k = n
    BY Zenon DEF Tree
<1>2. 1 \in 1..n
    BY <1>1
<1>3. merkle(L[1], d) = L[n][1]
    BY <1>1, <1>2, LevelsEndInMerkle, Zenon
<1> QED
    BY <1>1, <1>3

\* Hash k of a level is the first or the second child of hash (k + 1) / 2.
LEMMA HalfOf ==
    ASSUME NEW n \in Nat, NEW k \in 1..n
    PROVE  /\ (k + 1) \div 2 \in 1..((n + (n % 2)) \div 2)
           /\ k = 2 * ((k + 1) \div 2) - 1 \/ k = 2 * ((k + 1) \div 2)
<1> QED
    OBVIOUS

\* A level is read off the level above it.
LEMMA ChildrenOf ==
    ASSUME NEW c, IsList(c), NEW d
    PROVE  Range(c) = UNION {{p[2], p[3]} : p \in Range(Parents(c, d))}
<1> DEFINE P == Parents(c, d)
           q == Padded(c)
           n == Len(c)
<1>1. PICK S : c \in Seq(S)
    BY DEF IsList
<1>2. /\ q \in Seq(S) /\ Len(q) = n + (n % 2)
      /\ \A i \in 1..n : q[i] = c[i]
      /\ n % 2 = 1 => q[n + 1] = c[n]
    BY <1>1, PaddedMeans, Zenon
<1>3. /\ P \in Seq(Range(P)) /\ Len(P) = (n + (n % 2)) \div 2
      /\ \A i \in 1..Len(P) : P[i] = <<d, q[2 * i - 1], q[2 * i]>>
    BY <1>1, ParentsMeans, Zenon
<1>4. n \in Nat /\ DOMAIN c = 1..n /\ DOMAIN P = 1..Len(P) /\ Len(P) \in Nat
    <2>1. \A T : \A s \in Seq(T) : Len(s) \in Nat /\ DOMAIN s = 1..Len(s)
        OBVIOUS
    <2> QED
        BY <1>1, <1>3, <2>1, Zenon
<1> HIDE DEF P, q, n
<1>5. ASSUME NEW x \in Range(c)
      PROVE  x \in UNION {{p[2], p[3]} : p \in Range(P)}
    <2>1. PICK k \in 1..n : x = c[k]
        BY <1>4 DEF Range
    <2> DEFINE i == (k + 1) \div 2
    <2>2. i \in 1..Len(P) /\ (k = 2 * i - 1 \/ k = 2 * i)
        BY <1>3, <1>4, HalfOf, Zenon
    <2> HIDE DEF i
    <2>3. P[i] = <<d, q[2 * i - 1], q[2 * i]>> /\ P[i] \in Range(P)
        BY <1>3, <1>4, <2>2, Zenon DEF Range
    <2>4. q[k] = x
        BY <1>2, <2>1, Zenon
    <2>5. P[i][2] = q[2 * i - 1] /\ P[i][3] = q[2 * i]
        BY <2>3
    <2>6. x \in {P[i][2], P[i][3]}
        BY <2>2, <2>4, <2>5, Zenon
    <2> QED
        BY <2>3, <2>6, Zenon
<1>6. ASSUME NEW p \in Range(P)
      PROVE  p[2] \in Range(c) /\ p[3] \in Range(c)
    <2>1. PICK i \in 1..Len(P) : p = P[i]
        BY <1>4, Zenon DEF Range
    <2>2. p[2] = q[2 * i - 1] /\ p[3] = q[2 * i]
        <3>1. p = <<d, q[2 * i - 1], q[2 * i]>>
            BY <1>3, <2>1, Zenon
        <3> QED
            BY <3>1
    <2>3. /\ 2 * i - 1 \in 1..n
          /\ 2 * i \in 1..n \/ (n % 2 = 1 /\ 2 * i = n + 1 /\ n \in 1..n)
        BY <1>3, <1>4
    <2>4. q[2 * i - 1] \in Range(c) /\ q[2 * i] \in Range(c)
        BY <1>2, <1>4, <2>3, Zenon DEF Range
    <2> QED
        BY <2>2, <2>4, Zenon
<1> QED
    BY <1>5, <1>6, Zenon DEF P

\* Levels with the same hashes are over levels with the same hashes.
LEMMA RangesDescend ==
    ASSUME NEW c, IsList(c), NEW e, IsList(e), NEW d,
           Range(Parents(c, d)) = Range(Parents(e, d))
    PROVE  Range(c) = Range(e)
<1>1. Range(c) = UNION {{p[2], p[3]} : p \in Range(Parents(c, d))}
    BY ChildrenOf, Zenon
<1>2. Range(e) = UNION {{p[2], p[3]} : p \in Range(Parents(e, d))}
    BY ChildrenOf, Zenon
<1> QED
    BY <1>1, <1>2, Zenon

\* Trees with the same root have the same hashes at the same distance from it.
LEMMA TreesAgree ==
    ASSUME NEW d, NEW a, NEW b, NEW L, NEW n, NEW K, NEW m,
           Tree(L, n, a, d), Tree(K, m, b, d), L[n][1] = K[m][1]
    PROVE  \A i \in Nat : i < n /\ i < m => Range(L[n - i]) = Range(K[m - i])
<1> DEFINE Same(i) == i < n /\ i < m => Range(L[n - i]) = Range(K[m - i])
           S == {i \in Nat : Same(i)}
<1>1. /\ n \in Nat /\ n >= 1
      /\ \A k \in 1..n : IsList(L[k])
      /\ \A k \in 1..n : k + 1 \in 1..n => L[k + 1] = Parents(L[k], d)
      /\ \A k \in 1..n : Len(L[k]) = 1 <=> k = n
    BY Zenon DEF Tree
<1>2. /\ m \in Nat /\ m >= 1
      /\ \A k \in 1..m : IsList(K[k])
      /\ \A k \in 1..m : k + 1 \in 1..m => K[k + 1] = Parents(K[k], d)
      /\ \A k \in 1..m : Len(K[k]) = 1 <=> k = m
    BY Zenon DEF Tree
<1>3. 0 \in S
    <2>1. n - 0 = n /\ m - 0 = m /\ n \in 1..n /\ m \in 1..m /\ 0 \in Nat
        BY <1>1, <1>2
    <2>2. \A s : IsList(s) /\ Len(s) = 1 => Range(s) = {s[1]}
        <3>1. \A s : IsList(s) => DOMAIN s = 1..Len(s)
            BY DEF IsList
        <3>2. \A k \in 1..1 : k = 1
            OBVIOUS
        <3>3. 1 \in 1..1
            OBVIOUS
        <3> QED
            BY <3>1, <3>2, <3>3, Zenon DEF Range
    <2>3. Range(L[n]) = {L[n][1]} /\ Range(K[m]) = {K[m][1]}
        BY <1>1, <1>2, <2>1, <2>2, Zenon
    <2>4. Range(L[n]) = Range(K[m])
        BY <2>3, Zenon
    <2> QED
        BY <2>1, <2>4, Zenon
<1>4. ASSUME NEW i \in Nat, i \in S
      PROVE  i + 1 \in S
    <2>1. ASSUME i + 1 < n, i + 1 < m
          PROVE  Range(L[n - (i + 1)]) = Range(K[m - (i + 1)])
        <3> DEFINE k == n - (i + 1)
                   j == m - (i + 1)
        <3>1. k \in 1..n /\ k + 1 \in 1..n /\ k + 1 = n - i /\ i < n
            BY <1>1, <2>1
        <3>2. j \in 1..m /\ j + 1 \in 1..m /\ j + 1 = m - i /\ i < m
            BY <1>2, <2>1
        <3>3. Range(L[n - i]) = Range(K[m - i])
            BY <1>4, <3>1, <3>2, Zenon
        <3> HIDE DEF k, j
        <3>4. Range(Parents(L[k], d)) = Range(Parents(K[j], d))
            BY <1>1, <1>2, <3>1, <3>2, <3>3, Zenon
        <3>5. Range(L[k]) = Range(K[j])
            <4>1. IsList(L[k]) /\ IsList(K[j])
                BY <1>1, <1>2, <3>1, <3>2, Zenon
            <4> QED
                BY ONLY <3>4, <4>1, RangesDescend
        <3> QED
            BY <3>5, Zenon DEF k, j
    <2>2. i + 1 \in Nat
        OBVIOUS
    <2> QED
        BY <2>1, <2>2, Zenon
<1> HIDE DEF S
<1>5. \A i \in Nat : i \in S
    BY <1>3, <1>4, SetInduction, Zenon
<1> QED
    BY <1>5, Zenon DEF S

\* No leaf is an inner node of the tree.
NoNodes(a, d) == \A x \in Range(a) : \A y, z : x # <<d, y, z>>

\* The lower of two such trees has the same leaves as the other.
LEMMA SameLeaves ==
    ASSUME NEW d, NEW a, NEW b, NEW L, NEW n, NEW K, NEW m,
           Tree(L, n, a, d), Tree(K, m, b, d), L[n][1] = K[m][1],
           NoNodes(a, d), n <= m
    PROVE  Range(a) = Range(b)
<1>1. n \in Nat /\ n >= 1 /\ L[1] = a /\ IsList(a) /\ Len(a) >= 1
    <2>1. n \in Nat /\ n >= 1 /\ L[1] = a
        BY Zenon DEF Tree
    <2>2. 1 \in 1..n
        BY <2>1
    <2> QED
        BY <2>1, <2>2, Zenon DEF Tree
<1>2. /\ m \in Nat /\ K[1] = b
      /\ \A k \in 1..m : IsList(K[k])
      /\ \A k \in 1..m : k + 1 \in 1..m => K[k + 1] = Parents(K[k], d)
    BY Zenon DEF Tree
<1> DEFINE i == n - 1
           k == m - i
<1>3. i \in Nat /\ i < n /\ i < m /\ n - i = 1 /\ k \in 1..m
    BY <1>1, <1>2
<1>4. Range(a) = Range(K[k])
    <2>1. \A h \in Nat : h < n /\ h < m => Range(L[n - h]) = Range(K[m - h])
        BY TreesAgree
    <2>2. Range(L[n - i]) = Range(K[m - i])
        BY <1>3, <2>1, Zenon
    <2> QED
        BY <1>1, <1>3, <2>2, Zenon
<1>5. CASE k = 1
    BY <1>2, <1>4, <1>5, Zenon
<1>6. CASE k # 1
    <2> HIDE DEF k
    <2> DEFINE j == k - 1
    <2>1. j \in 1..m /\ j + 1 = k
        BY <1>2, <1>3, <1>6
    <2> HIDE DEF j
    <2>2. K[k] = Parents(K[j], d) /\ IsList(K[j])
        BY <1>2, <1>3, <2>1, Zenon
    <2>3. \A x \in Range(Parents(K[j], d)) : \E y, z : x = <<d, y, z>>
        <3> DEFINE P == Parents(K[j], d)
        <3>1. PICK S : K[j] \in Seq(S)
            BY <2>2 DEF IsList
        <3>2. /\ P \in Seq(Range(P))
              /\ \A h \in 1..Len(P) : P[h] = <<d, Padded(K[j])[2 * h - 1], Padded(K[j])[2 * h]>>
            BY <3>1, ParentsMeans, Zenon
        <3> HIDE DEF P
        <3>3. DOMAIN P = 1..Len(P)
            BY <3>2
        <3>4. \A x \in Range(P) : \E y, z : x = <<d, y, z>>
            <4> TAKE x \in Range(P)
            <4>1. PICK h \in 1..Len(P) : x = P[h]
                BY <3>3, Zenon DEF Range
            <4>2. x = <<d, Padded(K[j])[2 * h - 1], Padded(K[j])[2 * h]>>
                BY <3>2, <4>1, Zenon
            <4> QED
                BY ONLY <4>2, Zenon
        <3> QED
            BY <3>4 DEF P
    <2>4. a[1] \in Range(a)
        <3>1. 1 \in DOMAIN a
            BY <1>1 DEF IsList
        <3> QED
            BY <3>1, Zenon DEF Range
    <2> QED
        BY <1>4, <2>2, <2>3, <2>4, ZenonT(60) DEF NoNodes
<1> QED
    BY <1>5, <1>6

\* A Merkle root commits to its leaves: lists with the same root have the same
\* leaves, whatever their lengths, unless a leaf is itself an inner node.
THEOREM MerkleCommits ==
    ASSUME NEW d, NEW a, IsList(a), Len(a) >= 1, NoNodes(a, d),
           NEW b, IsList(b), Len(b) >= 1, NoNodes(b, d),
           merkle(a, d) = merkle(b, d)
    PROVE  Range(a) = Range(b)
<1>1. PICK L, n : Tree(L, n, a, d)
    BY TreeExists, Zenon
<1>2. PICK K, m : Tree(K, m, b, d)
    BY TreeExists, Zenon
<1>3. L[n][1] = K[m][1]
    <2>1. merkle(a, d) = L[n][1]
        BY ONLY <1>1, TreeRoot
    <2>2. merkle(b, d) = K[m][1]
        BY ONLY <1>2, TreeRoot
    <2> QED
        BY <2>1, <2>2, Zenon
<1>4. n <= m \/ m <= n
    <2>1. n \in Nat /\ m \in Nat
        BY <1>1, <1>2, Zenon DEF Tree
    <2> QED
        BY <2>1
<1>5. CASE n <= m
    BY <1>1, <1>2, <1>3, <1>5, SameLeaves, Zenon
<1>6. CASE m <= n
    BY <1>1, <1>2, <1>3, <1>6, SameLeaves, Zenon
<1> QED
    BY <1>4, <1>5, <1>6

\* What comes before element j in the sorted order.
Below(keys, j) == {k \in DOMAIN keys : keys[k] < keys[j] \/ (keys[k] = keys[j] /\ k < j)}

\* n keys.
Keys(keys, n) == n \in Nat /\ DOMAIN keys = 1..n /\ \A k \in 1..n : keys[k] \in Nat

\* The ranks of n keys are in 1..n.
LEMMA RankTyped ==
    ASSUME NEW keys, NEW n, Keys(keys, n), NEW j \in 1..n
    PROVE  /\ Below(keys, j) \subseteq 1..n /\ IsFiniteSet(Below(keys, j))
           /\ Rank(keys, j) \in 1..n /\ Rank(keys, j) = 1 + Cardinality(Below(keys, j))
           /\ Cardinality(Below(keys, j)) \in Nat
<1> DEFINE B == Below(keys, j)
           D == (1..n) \ {j}
<1>1. n \in Nat /\ DOMAIN keys = 1..n /\ \A k \in 1..n : keys[k] \in Nat
    BY Zenon DEF Keys
<1>2. IsFiniteSet(1..n) /\ Cardinality(1..n) = n
    BY <1>1, FS_Interval
<1>3. IsFiniteSet(D) /\ Cardinality(D) = n - 1
    BY <1>2, FS_RemoveElement, Zenon
<1>4. B \in SUBSET D
    BY <1>1 DEF Below
<1> HIDE DEF B, D
<1>5. IsFiniteSet(B) /\ Cardinality(B) <= Cardinality(D)
    BY <1>3, <1>4, FS_Subset, Zenon
<1>6. Cardinality(B) \in Nat
    BY <1>5, FS_CardinalityType, Zenon
<1>7. 1 + Cardinality(B) \in 1..n
    BY <1>1, <1>3, <1>5, <1>6
<1>8. Rank(keys, j) = 1 + Cardinality(B)
    BY Zenon DEF Rank, Below, B
<1>9. B \subseteq 1..n
    BY <1>4, Zenon DEF D
<1> QED
    BY <1>5, <1>6, <1>7, <1>8, <1>9, Zenon DEF B

\* An element before another has a lower rank.
LEMMA RankGrows ==
    ASSUME NEW keys, NEW n, Keys(keys, n), NEW j \in 1..n, NEW k \in 1..n, j \in Below(keys, k)
    PROVE  Rank(keys, j) # Rank(keys, k)
<1> DEFINE A == Below(keys, j)
           B == Below(keys, k)
<1>1. n \in Nat /\ DOMAIN keys = 1..n /\ \A h \in 1..n : keys[h] \in Nat
    BY Zenon DEF Keys
<1>2. A \subseteq B /\ j \notin A
    <2>1. keys[j] < keys[k] \/ (keys[j] = keys[k] /\ j < k)
        BY DEF Below
    <2>2. ASSUME NEW h \in A
          PROVE  h \in B
        <3>1. h \in 1..n /\ (keys[h] < keys[j] \/ (keys[h] = keys[j] /\ h < j))
            BY <1>1 DEF Below
        <3>2. keys[h] \in Nat /\ keys[j] \in Nat /\ keys[k] \in Nat
            BY <1>1, <3>1, Zenon
        <3>3. keys[h] < keys[k] \/ (keys[h] = keys[k] /\ h < k)
            BY <1>1, <2>1, <3>1, <3>2
        <3> QED
            BY <1>1, <3>1, <3>3, Zenon DEF Below
    <2>3. j \notin A
        <3>1. ~(keys[j] < keys[j]) /\ ~(j < j)
            BY <1>1
        <3> QED
            BY <3>1, Zenon DEF Below
    <2> QED
        BY <2>2, <2>3, Zenon
<1> HIDE DEF A, B
<1>3. /\ IsFiniteSet(B) /\ Cardinality(A) \in Nat /\ Cardinality(B) \in Nat
      /\ Rank(keys, j) = 1 + Cardinality(A) /\ Rank(keys, k) = 1 + Cardinality(B)
    BY RankTyped, Zenon DEF A, B
<1>4. Cardinality(B) = Cardinality(A) => B = A
    BY <1>2, <1>3, FS_Subset, Zenon
<1>5. B # A
    BY <1>2, Zenon DEF B
<1> QED
    BY <1>3, <1>4, <1>5

\* The ranks number the elements.
LEMMA RanksNumber ==
    ASSUME NEW keys, NEW n, Keys(keys, n)
    PROVE  /\ \A j, k \in 1..n : Rank(keys, j) = Rank(keys, k) => j = k
           /\ \A i \in 1..n : \E j \in 1..n : Rank(keys, j) = i
<1>1. n \in Nat /\ DOMAIN keys = 1..n /\ \A h \in 1..n : keys[h] \in Nat
    BY Zenon DEF Keys
<1>2. ASSUME NEW j \in 1..n, NEW k \in 1..n, j # k
      PROVE  Rank(keys, j) # Rank(keys, k)
    <2>1. keys[j] \in Nat /\ keys[k] \in Nat
        BY <1>1, Zenon
    <2>2. \/ keys[j] < keys[k] \/ (keys[j] = keys[k] /\ j < k)
          \/ keys[k] < keys[j] \/ (keys[k] = keys[j] /\ k < j)
        BY <1>1, <1>2, <2>1
    <2>3. j \in Below(keys, k) \/ k \in Below(keys, j)
        BY <1>1, <2>2, Zenon DEF Below
    <2> QED
        BY <2>3, RankGrows, Zenon
<1> DEFINE r == [j \in 1..n |-> Rank(keys, j)]
<1>3. \A j \in 1..n : Rank(keys, j) \in 1..n
    BY RankTyped, Zenon
<1>4. r \in Injection(1..n, 1..n)
    BY <1>2, <1>3, Zenon DEF Injection, IsInjective
<1>5. IsFiniteSet(1..n)
    BY <1>1, FS_Interval
<1> HIDE DEF r
<1>6. r \in Surjection(1..n, 1..n)
    BY <1>4, <1>5, FS_Injection, Zenon
<1>7. \A i \in 1..n : \E j \in 1..n : r[j] = i
    BY <1>6, Zenon DEF Surjection
<1> QED
    BY <1>2, <1>7, Zenon DEF r

\* Sorting only changes the order.
LEMMA SortedMeans ==
    ASSUME NEW s, IsList(s), NEW keys, Keys(keys, Len(s))
    PROVE  /\ IsList(SortedBy(s, keys)) /\ Len(SortedBy(s, keys)) = Len(s)
           /\ Range(SortedBy(s, keys)) = Range(s)
<1> DEFINE n == Len(s)
           At(i) == CHOOSE j \in DOMAIN s : Rank(keys, j) = i
           f == [i \in DOMAIN s |-> s[At(i)]]
<1>1. n \in Nat /\ DOMAIN s = 1..n
    BY DEF IsList
<1>2. /\ \A j, k \in 1..n : Rank(keys, j) = Rank(keys, k) => j = k
      /\ \A i \in 1..n : \E j \in 1..n : Rank(keys, j) = i
      /\ \A j \in 1..n : Rank(keys, j) \in 1..n
    BY RanksNumber, RankTyped, Zenon
<1> HIDE DEF n
<1>3. \A i \in 1..n : At(i) \in 1..n /\ Rank(keys, At(i)) = i
    BY <1>1, <1>2, Zenon
<1>4. \A j \in 1..n : At(Rank(keys, j)) = j
    BY <1>2, <1>3, Zenon
<1>5. \A i \in 1..n : f[i] = s[At(i)]
    BY <1>1, Zenon
<1>6. f \in [1..n -> Range(s)]
    BY <1>1, <1>3, Zenon DEF Range
<1>7. SortedBy(s, keys) = <<>> \o f
    BY Zenon DEF SortedBy
<1>8. DOMAIN f = 1..n
    BY <1>1, Zenon
<1> HIDE DEF f, At
<1>9. f \in Seq(Range(s)) /\ Len(f) = n
    BY <1>1, <1>6
<1>10. SortedBy(s, keys) = f
    BY <1>7, <1>9, ConcatEmptySeq, Zenon
<1>11. Range(f) = Range(s)
    <2>1. ASSUME NEW x \in Range(s)
          PROVE  x \in Range(f)
        <3>1. PICK j \in 1..n : x = s[j]
            BY <1>1, Zenon DEF Range
        <3>2. Rank(keys, j) \in 1..n /\ f[Rank(keys, j)] = s[j]
            BY <1>2, <1>4, <1>5, Zenon
        <3> QED
            BY <1>8, <3>1, <3>2, Zenon DEF Range
    <2>2. ASSUME NEW x \in Range(f)
          PROVE  x \in Range(s)
        <3>1. PICK i \in 1..n : x = f[i]
            BY <1>8, Zenon DEF Range
        <3> QED
            BY <1>6, <3>1, Zenon
    <2> QED
        BY <2>1, <2>2, Zenon
<1> QED
    BY <1>9, <1>10, <1>11, Zenon DEF IsList, n

\* Mapping a list.
LEMMA MappedList ==
    ASSUME NEW s, IsList(s), NEW t, t = [i \in DOMAIN s |-> t[i]]
    PROVE  IsList(t) /\ Len(t) = Len(s) /\ DOMAIN t = 1..Len(s) /\ DOMAIN s = 1..Len(s)
<1>1. DOMAIN s = 1..Len(s) /\ Len(s) \in Nat
    BY DEF IsList
<1>2. DOMAIN t = 1..Len(s) /\ t \in [1..Len(s) -> Range(t)]
    BY <1>1 DEF Range
<1>3. t \in Seq(Range(t)) /\ Len(t) = Len(s)
    BY <1>1, <1>2
<1> QED
    BY <1>1, <1>2, <1>3, Zenon DEF IsList

\* The events roots.rs is handed.
Events(events, C) == IsList(events) /\ Range(events) \subseteq [position : Nat, content : C]

\* The tree under an event root.
LEMMA EventTree ==
    ASSUME NEW C, NEW events, Events(events, C), events # <<>>
    PROVE  \E t : /\ IsList(t) /\ Len(t) >= 1 /\ NoNodes(t, "EVENT-NODE")
                  /\ Range(t) = {event_leaf(e) : e \in Range(events)}
                  /\ event_root(events) = merkle(t, "EVENT-NODE")
<1> DEFINE keys == [i \in DOMAIN events |-> events[i].position]
           o == SortedBy(events, keys)
           t == [i \in DOMAIN o |-> event_leaf(o[i])]
<1>1. IsList(events) /\ Range(events) \subseteq [position : Nat, content : C]
    BY Zenon DEF Events
<1>2. Len(events) \in Nat /\ Len(events) >= 1 /\ DOMAIN events = 1..Len(events)
    BY <1>1 DEF IsList
<1>3. \A i \in 1..Len(events) : keys[i] \in Nat
    <2>1. \A i \in 1..Len(events) : events[i] \in [position : Nat, content : C]
        BY <1>1, <1>2, Zenon DEF Range
    <2> QED
        BY <1>2, <2>1
<1>4. Keys(keys, Len(events))
    BY <1>2, <1>3, Zenon DEF Keys
<1>5. event_root(events) = merkle(t, "EVENT-NODE")
    BY Zenon DEF event_root, MapSeq
<1> HIDE DEF keys
<1>6. IsList(o) /\ Len(o) = Len(events) /\ Range(o) = Range(events)
    BY <1>1, <1>4, SortedMeans, Zenon
<1> HIDE DEF o
<1>7. t = [i \in DOMAIN o |-> t[i]]
    BY Zenon
<1>8. IsList(t) /\ Len(t) = Len(o) /\ DOMAIN t = DOMAIN o
    BY <1>6, <1>7, MappedList, Zenon
<1>9. Range(t) = {event_leaf(e) : e \in Range(o)}
    BY Zenon DEF Range
<1>10. NoNodes(t, "EVENT-NODE")
    <2>1. "EVENT" # "EVENT-NODE"
        OBVIOUS
    <2>2. \A e, y, z : event_leaf(e) # <<"EVENT-NODE", y, z>>
        BY <2>1 DEF event_leaf
    <2> QED
        BY <1>9, <2>2, Zenon DEF NoNodes
<1> HIDE DEF t
<1> QED
    BY <1>2, <1>5, <1>6, <1>8, <1>9, <1>10, Zenon

\* A Merkle root is a leaf or an inner node.
LEMMA RootIsLeafOrNode ==
    ASSUME NEW d, NEW a, IsList(a), Len(a) >= 1
    PROVE  merkle(a, d) \in Range(a) \/ \E y, z : merkle(a, d) = <<d, y, z>>
<1>1. PICK L, n : Tree(L, n, a, d)
    BY TreeExists, Zenon
<1>2. merkle(a, d) = L[n][1]
    BY ONLY <1>1, TreeRoot
<1>3. /\ n \in Nat /\ n >= 1 /\ L[1] = a
      /\ \A k \in 1..n : IsList(L[k]) /\ Len(L[k]) >= 1
      /\ \A k \in 1..n : k + 1 \in 1..n => L[k + 1] = Parents(L[k], d)
    BY <1>1, Zenon DEF Tree
<1>4. CASE n = 1
    <2>1. 1 \in DOMAIN a
        BY DEF IsList
    <2> QED
        BY <1>2, <1>3, <1>4, <2>1, Zenon DEF Range
<1>5. CASE n # 1
    <2> DEFINE k == n - 1
    <2>1. k \in 1..n /\ k + 1 = n /\ n \in 1..n
        BY <1>3, <1>5
    <2> HIDE DEF k
    <2>2. L[n] = Parents(L[k], d) /\ IsList(L[k]) /\ IsList(L[n]) /\ Len(L[n]) >= 1
        BY <1>3, <2>1, Zenon
    <2>3. PICK S : L[k] \in Seq(S)
        BY <2>2 DEF IsList
    <2>4. \A h \in 1..Len(L[n]) : \E y, z : L[n][h] = <<d, y, z>>
        <3> DEFINE P == Parents(L[k], d)
        <3>1. \A h \in 1..Len(P) : P[h] = <<d, Padded(L[k])[2 * h - 1], Padded(L[k])[2 * h]>>
            BY <2>3, ParentsMeans, Zenon
        <3> HIDE DEF P
        <3>2. \A h \in 1..Len(P) : \E y, z : P[h] = <<d, y, z>>
            BY ONLY <3>1, Zenon
        <3> QED
            BY <2>2, <3>2, Zenon DEF P
    <2>5. 1 \in 1..Len(L[n])
        BY <2>2 DEF IsList
    <2> QED
        BY <1>2, <2>4, <2>5, Zenon
<1> QED
    BY <1>4, <1>5

\* The root of no events is no root of events.
LEMMA NoEmptyEventRoot ==
    ASSUME NEW C, NEW events, Events(events, C), events # <<>>
    PROVE  event_root(events) # <<"EVENT-EMPTY">>
<1>1. PICK t : /\ IsList(t) /\ Len(t) >= 1
               /\ Range(t) = {event_leaf(e) : e \in Range(events)}
               /\ event_root(events) = merkle(t, "EVENT-NODE")
    BY EventTree, Zenon
<1>2. \/ merkle(t, "EVENT-NODE") \in Range(t)
      \/ \E y, z : merkle(t, "EVENT-NODE") = <<"EVENT-NODE", y, z>>
    BY <1>1, RootIsLeafOrNode, Zenon
<1>3. \A x, y, z : <<x, y, z>> # <<"EVENT-EMPTY">>
    OBVIOUS
<1> QED
    BY <1>1, <1>2, <1>3, Zenon DEF event_leaf

\* A leaf determines its event.
LEMMA LeafDetermines ==
    ASSUME NEW C, NEW A \in SUBSET [position : Nat, content : C],
           NEW B \in SUBSET [position : Nat, content : C],
           {event_leaf(e) : e \in A} = {event_leaf(e) : e \in B}
    PROVE  A \subseteq B
<1> SUFFICES ASSUME NEW x \in A
             PROVE  x \in B
    OBVIOUS
<1>1. event_leaf(x) \in {event_leaf(e) : e \in B}
    BY Zenon
<1>2. PICK f \in B : event_leaf(x) = event_leaf(f)
    BY <1>1, Zenon
<1>3. x.position = f.position /\ x.content = f.content
    BY <1>2 DEF event_leaf
<1>4. x \in [position : Nat, content : C] /\ f \in [position : Nat, content : C]
    BY Zenon
<1>5. x = f
    BY <1>3, <1>4
<1> QED
    BY <1>5

\* The event root commits to the events of the block, whatever order they
\* come in: event lists with the same root hold the same events.
THEOREM EventRootInjective ==
    ASSUME NEW C, NEW a, Events(a, C), NEW b, Events(b, C), event_root(a) = event_root(b)
    PROVE  Range(a) = Range(b)
<1>1. \A e : Events(e, C) /\ event_root(e) = <<"EVENT-EMPTY">> => e = <<>>
    BY NoEmptyEventRoot, Zenon
<1>2. event_root(<<>>) = <<"EVENT-EMPTY">>
    BY Zenon DEF event_root
<1>3. CASE a = <<>> \/ b = <<>>
    BY <1>1, <1>2, <1>3, Zenon
<1>4. CASE a # <<>> /\ b # <<>>
    <2>1. PICK t : /\ IsList(t) /\ Len(t) >= 1 /\ NoNodes(t, "EVENT-NODE")
                   /\ Range(t) = {event_leaf(e) : e \in Range(a)}
                   /\ event_root(a) = merkle(t, "EVENT-NODE")
        BY <1>4, EventTree, Zenon
    <2>2. PICK u : /\ IsList(u) /\ Len(u) >= 1 /\ NoNodes(u, "EVENT-NODE")
                   /\ Range(u) = {event_leaf(e) : e \in Range(b)}
                   /\ event_root(b) = merkle(u, "EVENT-NODE")
        BY <1>4, EventTree, Zenon
    <2>3. Range(t) = Range(u)
        BY <2>1, <2>2, MerkleCommits, Zenon
    <2>4. /\ Range(a) \subseteq [position : Nat, content : C]
          /\ Range(b) \subseteq [position : Nat, content : C]
        BY Zenon DEF Events
    <2>5. {event_leaf(e) : e \in Range(a)} = {event_leaf(e) : e \in Range(b)}
        BY <2>1, <2>2, <2>3, Zenon
    <2>6. Range(a) \subseteq Range(b)
        BY <2>4, <2>5, LeafDetermines, Zenon
    <2>7. Range(b) \subseteq Range(a)
        BY <2>4, <2>5, LeafDetermines, Zenon
    <2> QED
        BY <2>6, <2>7, Zenon
<1> QED
    BY <1>3, <1>4

\* The objects roots.rs is handed.
Objects(objects) == IsList(objects) /\ \A i \in DOMAIN objects : objects[i].object_key \in Nat

\* What a snapshot says of its objects.
Snapshot(objects) == {object_state_leaf(o) : o \in Range(objects)}

\* The tree under an object-state root.
LEMMA ObjectTree ==
    ASSUME NEW objects, Objects(objects), objects # <<>>
    PROVE  \E t : /\ IsList(t) /\ Len(t) >= 1 /\ NoNodes(t, "OBJECT-NODE")
                  /\ Range(t) = Snapshot(objects)
                  /\ object_state_root(objects) = merkle(t, "OBJECT-NODE")
<1> DEFINE keys == [i \in DOMAIN objects |-> objects[i].object_key]
           o == [i \in DOMAIN objects |-> object_state_leaf(objects[i])]
           t == SortedBy(o, keys)
<1>1. IsList(objects) /\ \A i \in DOMAIN objects : objects[i].object_key \in Nat
    BY Zenon DEF Objects
<1>2. Len(objects) \in Nat /\ Len(objects) >= 1 /\ DOMAIN objects = 1..Len(objects)
    BY <1>1 DEF IsList
<1>3. \A i \in 1..Len(objects) : keys[i] \in Nat
    BY <1>1, <1>2, Zenon
<1>4. Keys(keys, Len(objects))
    BY <1>2, <1>3, Zenon DEF Keys
<1>5. object_state_root(objects) = merkle(t, "OBJECT-NODE")
    BY Zenon DEF object_state_root, MapSeq
<1>6. o = [i \in DOMAIN objects |-> o[i]]
    BY Zenon
<1>7. IsList(o) /\ Len(o) = Len(objects)
    BY <1>1, <1>6, MappedList, Zenon
<1>8. Range(o) = Snapshot(objects)
    BY Zenon DEF Range, Snapshot
<1> HIDE DEF keys, o
<1>9. IsList(t) /\ Len(t) = Len(o) /\ Range(t) = Range(o)
    BY <1>4, <1>7, SortedMeans, Zenon
<1>10. NoNodes(t, "OBJECT-NODE")
    <2>1. "OBJECT-STATE" # "OBJECT-NODE"
        OBVIOUS
    <2>2. \A v, w, x, y, z, d : <<v, w, x, y, z>> # <<d, v, w>>
        OBVIOUS
    <2>3. \A v, w, x, y, z, d, g, h : <<"OBJECT-STATE", w, x, y, z>> # <<"OBJECT-NODE", g, h>>
        OBVIOUS
    <2> QED
        BY <1>8, <1>9, <2>3, Zenon DEF NoNodes, Snapshot, object_state_leaf
<1> HIDE DEF t
<1> QED
    BY <1>2, <1>5, <1>7, <1>8, <1>9, <1>10, Zenon

\* The root of no objects is no root of objects.
LEMMA NoEmptyObjectRoot ==
    ASSUME NEW objects, Objects(objects), objects # <<>>
    PROVE  object_state_root(objects) # <<"OBJECT-EMPTY">>
<1>1. PICK t : /\ IsList(t) /\ Len(t) >= 1
               /\ Range(t) = Snapshot(objects)
               /\ object_state_root(objects) = merkle(t, "OBJECT-NODE")
    BY ObjectTree, Zenon
<1>2. \/ merkle(t, "OBJECT-NODE") \in Range(t)
      \/ \E y, z : merkle(t, "OBJECT-NODE") = <<"OBJECT-NODE", y, z>>
    BY <1>1, RootIsLeafOrNode, Zenon
<1>3. \A x, y, z : <<x, y, z>> # <<"OBJECT-EMPTY">>
    OBVIOUS
<1>4. \A v, w, x, y, z : <<v, w, x, y, z>> # <<"OBJECT-EMPTY">>
    OBVIOUS
<1> QED
    BY <1>1, <1>2, <1>3, <1>4, Zenon DEF Snapshot, object_state_leaf

\* The object-state root commits to the snapshot: object lists with the same
\* root have the same keys, statuses, carriers and terminal transactions.
THEOREM ObjectRootInjective ==
    ASSUME NEW a, Objects(a), NEW b, Objects(b), object_state_root(a) = object_state_root(b)
    PROVE  Snapshot(a) = Snapshot(b)
<1>1. \A e : Objects(e) /\ object_state_root(e) = <<"OBJECT-EMPTY">> => e = <<>>
    BY NoEmptyObjectRoot, Zenon
<1>2. object_state_root(<<>>) = <<"OBJECT-EMPTY">>
    BY Zenon DEF object_state_root
<1>3. CASE a = <<>> \/ b = <<>>
    BY <1>1, <1>2, <1>3, Zenon
<1>4. CASE a # <<>> /\ b # <<>>
    <2>1. PICK t : /\ IsList(t) /\ Len(t) >= 1 /\ NoNodes(t, "OBJECT-NODE")
                   /\ Range(t) = Snapshot(a)
                   /\ object_state_root(a) = merkle(t, "OBJECT-NODE")
        BY <1>4, ObjectTree, Zenon
    <2>2. PICK u : /\ IsList(u) /\ Len(u) >= 1 /\ NoNodes(u, "OBJECT-NODE")
                   /\ Range(u) = Snapshot(b)
                   /\ object_state_root(b) = merkle(u, "OBJECT-NODE")
        BY <1>4, ObjectTree, Zenon
    <2>3. Range(t) = Range(u)
        BY <2>1, <2>2, MerkleCommits, Zenon
    <2> QED
        BY <2>1, <2>2, <2>3, Zenon
<1> QED
    BY <1>3, <1>4

-----------------------------------------------------------------------------
\* What a chained root commits to.

\* The blocks a replay is handed.
Blocks(blocks, C) ==
    /\ IsList(blocks) /\ Len(blocks) >= 1
    /\ \A i \in 1..Len(blocks) : Events(blocks[i].events, C) /\ Objects(blocks[i].objects)

\* The last chained root of a replay.
LastRoot(blocks) == ReplayRoots(blocks)[Len(blocks)].chained_root

\* The preimage of a chained root.
LEMMA ChainedRoot ==
    ASSUME NEW blocks, IsList(blocks), NEW i \in 1..Len(blocks)
    PROVE  ReplayRoots(blocks)[i].chained_root =
             <<"BLOCKROOT",
               IF i = 1 THEN STATE_EMPTY ELSE ReplayRoots(blocks)[i - 1].chained_root,
               <<"hash", i>>, i, event_root(blocks[i].events),
               object_state_root(blocks[i].objects), Len(blocks[i].objects)>>
<1> DEFINE R == ReplayRoots(blocks)
           p == IF i = 1 THEN STATE_EMPTY ELSE R[i - 1].chained_root
<1>1. RootsOf(R, blocks) /\ DOMAIN blocks = 1..Len(blocks)
    <2>1. DOMAIN blocks = 1..Len(blocks)
        BY DEF IsList
    <2> QED
        BY <2>1, ReplayRootsMeans, Zenon
<1> HIDE DEF R
<1>2. R[i] = RootsAt(R, blocks, i)
    BY <1>1, Zenon DEF RootsOf
<1>3. R[i] = HeightRoots(p, i, blocks[i])
    BY <1>2, Zenon DEF RootsAt
<1> HIDE DEF p
<1>4. R[i].chained_root = <<"BLOCKROOT", p, <<"hash", i>>, i, event_root(blocks[i].events),
                            object_state_root(blocks[i].objects), Len(blocks[i].objects)>>
    BY ONLY <1>3 DEF HeightRoots, block_root
<1> QED
    BY <1>4, Zenon DEF R, p

\* Equal chained roots of one height.
LEMMA SameHeight ==
    ASSUME NEW a, IsList(a), NEW i \in 1..Len(a), NEW b, IsList(b), NEW j \in 1..Len(b),
           ReplayRoots(a)[i].chained_root = ReplayRoots(b)[j].chained_root
    PROVE  /\ i = j
           /\ event_root(a[i].events) = event_root(b[j].events)
           /\ object_state_root(a[i].objects) = object_state_root(b[j].objects)
           /\ i # 1 => ReplayRoots(a)[i - 1].chained_root = ReplayRoots(b)[i - 1].chained_root
<1> DEFINE p == IF i = 1 THEN STATE_EMPTY ELSE ReplayRoots(a)[i - 1].chained_root
           q == IF j = 1 THEN STATE_EMPTY ELSE ReplayRoots(b)[j - 1].chained_root
<1>1. ReplayRoots(a)[i].chained_root =
        <<"BLOCKROOT", p, <<"hash", i>>, i, event_root(a[i].events),
          object_state_root(a[i].objects), Len(a[i].objects)>>
    BY ChainedRoot, Zenon
<1>2. ReplayRoots(b)[j].chained_root =
        <<"BLOCKROOT", q, <<"hash", j>>, j, event_root(b[j].events),
          object_state_root(b[j].objects), Len(b[j].objects)>>
    BY ChainedRoot, Zenon
<1> HIDE DEF p, q
<1>3. /\ i = j /\ p = q /\ event_root(a[i].events) = event_root(b[j].events)
      /\ object_state_root(a[i].objects) = object_state_root(b[j].objects)
    <2> DEFINE u == ReplayRoots(a)[i].chained_root
               w == ReplayRoots(b)[j].chained_root
    <2>1. /\ u[2] = p /\ u[4] = i /\ u[5] = event_root(a[i].events)
          /\ u[6] = object_state_root(a[i].objects)
        BY ONLY <1>1
    <2>2. /\ w[2] = q /\ w[4] = j /\ w[5] = event_root(b[j].events)
          /\ w[6] = object_state_root(b[j].objects)
        BY ONLY <1>2
    <2>3. u = w
        OBVIOUS
    <2> HIDE DEF u, w
    <2> QED
        BY ONLY <2>1, <2>2, <2>3, Zenon
<1> QED
    BY <1>3, Zenon DEF p, q

\* The last chained root commits to the whole history: replays that end with
\* the same root have the same number of heights, and at every height the
\* same events and the same snapshot of the objects.
THEOREM ChainedRootCommits ==
    ASSUME NEW C, NEW a, Blocks(a, C), NEW b, Blocks(b, C), LastRoot(a) = LastRoot(b)
    PROVE  /\ Len(a) = Len(b)
           /\ \A i \in 1..Len(a) : /\ Range(a[i].events) = Range(b[i].events)
                                   /\ Snapshot(a[i].objects) = Snapshot(b[i].objects)
<1> DEFINE n == Len(a)
           Same(i) == ReplayRoots(a)[i].chained_root = ReplayRoots(b)[i].chained_root
           S == {k \in Nat : k < n => Same(n - k)}
<1>1. IsList(a) /\ Len(a) >= 1 /\ IsList(b) /\ Len(b) >= 1
    BY Zenon DEF Blocks
<1>2. n \in Nat /\ n \in 1..n /\ Len(b) \in 1..Len(b)
    BY <1>1 DEF IsList
<1>3. Len(a) = Len(b)
    <2>1. ReplayRoots(a)[Len(a)].chained_root = ReplayRoots(b)[Len(b)].chained_root
        BY Zenon DEF LastRoot
    <2> QED
        BY ONLY <1>1, <1>2, <2>1, SameHeight
<1>4. 0 \in S
    <2>1. 0 \in Nat /\ n - 0 = n
        BY <1>2
    <2>2. Same(n)
        BY <1>3, Zenon DEF LastRoot
    <2> QED
        BY <2>1, <2>2, Zenon
<1>5. ASSUME NEW k \in Nat, k \in S
      PROVE  k + 1 \in S
    <2>1. ASSUME k + 1 < n
          PROVE  Same(n - (k + 1))
        <3> DEFINE i == n - k
        <3>1. i \in 1..n /\ i # 1 /\ i - 1 = n - (k + 1) /\ k < n
            BY <1>2, <2>1
        <3>2. Same(i)
            BY <1>5, <3>1, Zenon
        <3> HIDE DEF i
        <3>3. Same(i - 1)
            BY ONLY <1>1, <1>3, <3>1, <3>2, SameHeight
        <3> QED
            BY <3>1, <3>3, Zenon
    <2>2. k + 1 \in Nat
        OBVIOUS
    <2> HIDE DEF Same
    <2> QED
        BY <2>1, <2>2, Zenon
<1> HIDE DEF S
<1>6. \A k \in Nat : k \in S
    BY <1>4, <1>5, SetInduction, Zenon
<1>7. ASSUME NEW i \in 1..n
      PROVE  Range(a[i].events) = Range(b[i].events) /\ Snapshot(a[i].objects) = Snapshot(b[i].objects)
    <2>1. n - i \in Nat /\ n - i < n /\ n - (n - i) = i
        BY <1>2
    <2>2. Same(i)
        BY <1>6, <2>1, Zenon DEF S
    <2>3. /\ event_root(a[i].events) = event_root(b[i].events)
          /\ object_state_root(a[i].objects) = object_state_root(b[i].objects)
        BY ONLY <1>1, <1>3, <2>2, i \in 1..n, SameHeight
    <2>4. /\ Events(a[i].events, C) /\ Objects(a[i].objects)
          /\ Events(b[i].events, C) /\ Objects(b[i].objects)
        BY <1>3, Zenon DEF Blocks
    <2>5. Range(a[i].events) = Range(b[i].events)
        BY <2>3, <2>4, EventRootInjective, Zenon
    <2>6. Snapshot(a[i].objects) = Snapshot(b[i].objects)
        BY <2>3, <2>4, ObjectRootInjective, Zenon
    <2> QED
        BY <2>5, <2>6
<1> QED
    BY <1>3, <1>7, Zenon
================================================================================
