----------------------------- MODULE ProgramProofs -----------------------------
(***************************************************************************)
(* The two programs.  The mainnet gate of the verifier holds for any       *)
(* names, any number of approvers and any specifications, through any      *)
(* sequence of starts; and the byte checks accept exactly the documented   *)
(* texts, of any length.  The commands parse exactly the canonical         *)
(* scripts, for payloads of any length.                                    *)
(***************************************************************************)
EXTENDS Programs, FiniteSetTheorems, SequenceTheorems, WellFoundedInduction, TLAPS

\* The provers of a leaf that names none, in this order.
USE SMT, Zenon, SMTT(30)

-----------------------------------------------------------------------------
\* The verifier.

\* A set with two elements at least has two different elements.
LEMMA TwoElements ==
    ASSUME NEW S, Cardinality(S) >= 2
    PROVE  \E x, y \in S : x # y
<1> SUFFICES ASSUME \A x, y \in S : x = y
             PROVE  FALSE
    OBVIOUS
<1>1. CASE S = {}
    BY <1>1, FS_EmptySet
<1>2. CASE S # {}
    <2>1. PICK e : e \in S
        BY <1>2
    <2>2. S = {e}
        BY <2>1
    <2>3. Cardinality(S) = 1
        BY <2>2, FS_Singleton, Zenon
    <2> QED
        BY <2>3
<1> QED
    BY <1>1, <1>2

\* What validate_mainnet_gate counts are people: two different trimmed names
\* that are not empty belong to two approvers with different names.
LEMMA ApproversAreTwo ==
    ASSUME NEW s, Range(s) \subseteq Approver, Cardinality(named_approvers(s)) >= 2
    PROVE  \E x, y \in Range(s) : x.name # y.name /\ x.name # "" /\ y.name # ""
<1>1. PICK u, v \in named_approvers(s) : u # v
    BY TwoElements
<1>2. PICK x \in Range(s) : u = trim(x)
    BY Zenon DEF named_approvers
<1>3. PICK y \in Range(s) : v = trim(y)
    BY Zenon DEF named_approvers
<1>4. /\ x \in Approver /\ u = [padded |-> FALSE, name |-> x.name]
      /\ y \in Approver /\ v = [padded |-> FALSE, name |-> y.name]
    BY <1>2, <1>3, Zenon DEF Approver, trim
<1>5. x.name # "" /\ y.name # ""
    BY <1>4, Zenon DEF named_approvers
<1>6. x.name # y.name
    BY <1>1, <1>4, Zenon
<1> QED
    BY <1>5, <1>6, Zenon

\* The approvers of every authorization a process can be given.
LEMMA ApproversTyped ==
    ASSUME NEW a \in Arguments
    PROVE  Range(a.authorization.approved_by) \subseteq Approver
<1>1. a.authorization \in Authorization \cup {Unauthorized}
    BY Zenon DEF Arguments
<1>2. CASE a.authorization = Unauthorized
    BY <1>2 DEF Unauthorized, Range
<1>3. CASE a.authorization \in Authorization
    <2>1. a.authorization.approved_by \in SeqOf(Approver, MaxApprovers)
        BY <1>3 DEF Authorization
    <2>2. PICK k \in 0..MaxApprovers : a.authorization.approved_by \in [1..k -> Approver]
        BY <2>1 DEF SeqOf
    <2> QED
        BY <2>2 DEF Range
<1> QED
    BY <1>1, <1>2, <1>3

\* A mainnet configuration that passes the gate has been signed off.
LEMMA GateMeansSignedOff ==
    ASSUME NEW a \in Arguments, a.network = "mainnet", validate_mainnet_gate(a)
    PROVE  SignedOff(a)
<1>1. Range(a.authorization.approved_by) \subseteq Approver
    BY ApproversTyped
<1>2. Cardinality(named_approvers(a.authorization.approved_by)) >= 2
    BY DEF validate_mainnet_gate
<1>3. \E x, y \in Range(a.authorization.approved_by) :
        x.name # y.name /\ x.name # "" /\ y.name # ""
    BY <1>1, <1>2, ApproversAreTwo, Zenon
<1> QED
    BY <1>3, Zenon DEF SignedOff, validate_mainnet_gate

-----------------------------------------------------------------------------
PastGate == {"signer", "connect", "wakeup", "listen", "serving"}

\* The gate's verdict stays true of the arguments until the process ends, and
\* the history holds every deployment that was signed off.
StartupInv ==
    /\ stage # "stopped" => args \in Arguments
    /\ stage # "stopped" /\ args.network = "mainnet" /\ SignedOff(args) =>
        BindingOf(args) \in authorized
    /\ stage \in PastGate /\ args.network = "mainnet" => SignedOff(args)
    /\ \A b \in binding : b.network = "mainnet" => b \in authorized

\* A check that succeeds only moves on; the mainnet gate establishes SignedOff.
LEMMA CheckKeepsInv ==
    ASSUME StartupInv, NEW label, NEW check, NEW next, Check(label, check, next),
           label # "stopped", next # "stopped",
           next \in PastGate =>
               \/ label \in PastGate
               \/ check /\ args.network = "mainnet" => SignedOff(args)
    PROVE  StartupInv'
<1>1. /\ stage # "stopped" /\ stage' # "stopped" /\ stage = label
      /\ (stage' = next /\ check) \/ stage' = "exited"
    BY DEF Check
<1>2. UNCHANGED <<args, binding, authorized>>
    BY DEF Check
<1>3. stage' \in PastGate /\ args.network = "mainnet" => SignedOff(args)
    BY <1>1 DEF StartupInv, PastGate
<1> QED
    BY <1>1, <1>2, <1>3, Zenon DEF StartupInv, SignedOff, BindingOf

\* Every step of a start keeps the invariant.
LEMMA StartupStep == StartupInv /\ [StartupNext]_startupVars => StartupInv'
<1> SUFFICES ASSUME StartupInv, [StartupNext]_startupVars
             PROVE  StartupInv'
    OBVIOUS
<1>1. CASE Launch
    <2>1. args' \in Arguments /\ stage' = "init_txid" /\ binding' = binding
        BY <1>1 DEF Launch
    <2>2. authorized \subseteq authorized'
        BY <1>1 DEF Launch
    <2>3. args'.network = "mainnet" /\ SignedOff(args') => BindingOf(args') \in authorized'
        BY <1>1 DEF Launch
    <2> QED
        BY <2>1, <2>2, <2>3, Zenon DEF StartupInv, PastGate, SignedOff, BindingOf
<1>2. CASE CheckInitTxid
    BY <1>2, CheckKeepsInv DEF CheckInitTxid, PastGate
<1>3. CASE CheckSpecBytes
    BY <1>3, CheckKeepsInv DEF CheckSpecBytes, PastGate
<1>4. CASE CheckSpecHash
    BY <1>4, CheckKeepsInv DEF CheckSpecHash, PastGate
<1>5. CASE CheckRest
    BY <1>5, CheckKeepsInv DEF CheckRest, PastGate
<1>6. CASE CheckMainnet
    <2>1. stage = "mainnet" /\ args \in Arguments
        BY <1>6 DEF CheckMainnet, Check, StartupInv
    <2>2. validate_mainnet_gate(args) /\ args.network = "mainnet" => SignedOff(args)
        BY <2>1, GateMeansSignedOff
    <2> QED
        BY <1>6, <2>2, CheckKeepsInv DEF CheckMainnet, PastGate
<1>7. CASE LoadSigner
    BY <1>7, CheckKeepsInv DEF LoadSigner, PastGate
<1>8. CASE BindOrLoad
    <2>1. /\ stage = "connect" /\ stage' \in {"wakeup", "exited"}
          /\ args' = args /\ authorized' = authorized
          /\ binding' \in {binding, {BindingOf(args)}}
        BY <1>8 DEF BindOrLoad
    <2>2. args.network = "mainnet" => SignedOff(args) /\ BindingOf(args) \in authorized
        BY <2>1 DEF StartupInv, PastGate
    <2>3. \A b \in binding' : b.network = "mainnet" => b \in authorized'
        BY <2>1, <2>2 DEF StartupInv, BindingOf
    <2> QED
        BY <2>1, <2>2, <2>3, Zenon DEF StartupInv, SignedOff, BindingOf
<1>9. CASE ConnectFails
    BY <1>9, CheckKeepsInv, Zenon DEF ConnectFails, PastGate
<1>10. CASE BuildWakeup
    BY <1>10, CheckKeepsInv DEF BuildWakeup, PastGate
<1>11. CASE Listen
    BY <1>11, CheckKeepsInv DEF Listen, PastGate
<1>12. CASE Stop
    BY <1>12 DEF Stop, StartupInv, PastGate
<1>13. CASE UNCHANGED startupVars
    BY <1>13, Zenon DEF startupVars, StartupInv, SignedOff, BindingOf
<1> QED
    BY <1>1, <1>2, <1>3, <1>4, <1>5, <1>6, <1>7, <1>8, <1>9, <1>10, <1>11, <1>12, <1>13 DEF StartupNext

\* No sequence of starts binds a database to mainnet, or runs a worker on it,
\* without an authorization by two different people for that deployment: the
\* gate of config.rs comes before bind_or_load and before the worker.
THEOREM MainnetGateHolds == StartupSpec => []MainnetNeedsTwoPeople
<1>1. StartupInit => StartupInv
    BY DEF StartupInit, StartupInv, PastGate
<1>2. StartupInv /\ [StartupNext]_startupVars => StartupInv'
    BY StartupStep
<1>3. StartupInv => MainnetNeedsTwoPeople
    BY DEF StartupInv, MainnetNeedsTwoPeople, PastGate
<1> QED
    BY <1>1, <1>2, <1>3, PTL DEF StartupSpec

-----------------------------------------------------------------------------
(* The specification's byte contract. *)

\* A nonempty set of natural numbers that are at most n has a largest one.
LEMMA LargestElement ==
    ASSUME NEW n \in Nat, NEW T, T \subseteq 0 .. n, T # {}
    PROVE  \E x \in T : \A y \in T : y <= x
<1> DEFINE U == {n - x : x \in T}
<1>1. U \subseteq Nat /\ U # {}
    <2>1. \A x \in T : x \in 0 .. n /\ n - x \in Nat
        OBVIOUS
    <2>2. PICK x : x \in T
        OBVIOUS
    <2> QED
        BY <2>1, <2>2
<1> HIDE DEF U
<1>2. PICK u \in U : \A v \in U : ~(<<v, u>> \in OpToRel(<, Nat))
    BY <1>1, WFMin, NatLessThanWellFounded, Zenon
<1>3. \A v \in U : ~(v < u)
    BY <1>1, <1>2, Zenon DEF OpToRel
<1>4. PICK x \in T : u = n - x
    BY DEF U
<1>5. \A y \in T : ~(n - y < n - x)
    BY <1>3, <1>4, Zenon DEF U
<1> QED
    BY <1>5

\* A prefix agrees with the sequence position by position.
LEMMA PrefixMeans ==
    ASSUME NEW s \in Seq(Byte), NEW t \in Seq(Byte)
    PROVE  IsPrefix(s, t) <=> Len(s) <= Len(t) /\ \A i \in 1 .. Len(s) : s[i] = t[i]
<1>1. Len(s) \in Nat /\ Len(t) \in Nat
    OBVIOUS
<1> SUFFICES ASSUME Len(s) <= Len(t)
             PROVE  SubSeq(s, 1, Len(s)) = SubSeq(t, 1, Len(s))
                        <=> \A i \in 1 .. Len(s) : s[i] = t[i]
    BY DEF IsPrefix
<1> DEFINE m == Len(s)
           a == SubSeq(s, 1, m)
           b == SubSeq(t, 1, m)
<1>2. (\A i \in 1 .. m : s[i] \in Byte) /\ \A i \in 1 .. m : t[i] \in Byte
    BY <1>1
<1> HIDE DEF m
<1>3. m \in Int /\ 1 \in Int /\ m \in Nat
    BY <1>1 DEF m
<1>4. /\ a \in Seq(Byte) /\ Len(a) = IF 1 <= m THEN m - 1 + 1 ELSE 0
      /\ \A i \in 1 .. (m - 1 + 1) : a[i] = s[1 + i - 1]
    BY <1>2, <1>3, SubSeqProperties
<1>5. /\ b \in Seq(Byte) /\ Len(b) = IF 1 <= m THEN m - 1 + 1 ELSE 0
      /\ \A i \in 1 .. (m - 1 + 1) : b[i] = t[1 + i - 1]
    BY <1>2, <1>3, SubSeqProperties
<1>6. Len(a) = m /\ Len(b) = m /\ \A i \in 1 .. m : a[i] = s[i] /\ b[i] = t[i]
    BY <1>3, <1>4, <1>5
<1> HIDE DEF a, b
<1>7. a = b <=> \A i \in 1 .. m : a[i] = b[i]
    BY <1>4, <1>5, <1>6
<1>8. a = b <=> \A i \in 1 .. m : s[i] = t[i]
    BY <1>6, <1>7
<1> QED
    BY <1>8 DEF a, b, m

\* A reversed sequence.
LEMMA ReverseMeans ==
    ASSUME NEW S, NEW s \in Seq(S)
    PROVE  /\ Reverse(s) \in Seq(S) /\ Len(Reverse(s)) = Len(s)
           /\ \A i \in 1 .. Len(s) : Reverse(s)[i] = s[(Len(s) - i) + 1]
<1>1. Len(s) \in Nat /\ \A i \in 1 .. Len(s) : (Len(s) - i) + 1 \in 1 .. Len(s)
    OBVIOUS
<1>2. \A i \in 1 .. Len(s) : s[(Len(s) - i) + 1] \in S
    BY <1>1
<1> QED
    BY <1>1, <1>2 DEF Reverse

\* starts_with and ends_with of the byte checks.
LEMMA EndsMean ==
    ASSUME NEW t \in Seq(Byte)
    PROVE  LET n == Len(t)
           IN  /\ IsPrefix(<<"bom">>, t) <=> n >= 1 /\ t[1] = "bom"
               /\ IsSuffix(<<"lf">>, t) <=> n >= 1 /\ t[n] = "lf"
               /\ IsSuffix(<<"lf", "lf">>, t) <=> n >= 2 /\ t[n] = "lf" /\ t[n - 1] = "lf"
<1> DEFINE n == Len(t)
           r == Reverse(t)
<1>1. n \in Nat /\ r \in Seq(Byte) /\ Len(r) = n /\ \A i \in 1 .. n : r[i] = t[(n - i) + 1]
    BY ReverseMeans
<1> HIDE DEF n, r
<1>2. IsPrefix(<<"bom">>, t) <=> n >= 1 /\ t[1] = "bom"
    <2> DEFINE s == <<"bom">>
    <2>1. s \in Seq(Byte) /\ Len(s) = 1 /\ s[1] = "bom"
        BY DEF Byte
    <2> HIDE DEF s
    <2>2. IsPrefix(s, t) <=> 1 <= n /\ \A i \in 1 .. 1 : s[i] = t[i]
        <3>1. IsPrefix(s, t) <=> Len(s) <= Len(t) /\ \A i \in 1 .. Len(s) : s[i] = t[i]
            BY <2>1, PrefixMeans, Zenon
        <3> QED
            BY <2>1, <3>1 DEF n
    <2> QED
        BY <1>1, <2>1, <2>2 DEF s
<1>3. IsPrefix(Reverse(<<"lf">>), r) <=> n >= 1 /\ t[n] = "lf"
    <2> DEFINE s == Reverse(<<"lf">>)
    <2>1. s \in Seq(Byte) /\ Len(s) = 1 /\ s[1] = "lf"
        <3>1. <<"lf">> \in Seq(Byte) /\ Len(<<"lf">>) = 1 /\ <<"lf">>[1] = "lf"
            BY DEF Byte
        <3>2. /\ Reverse(<<"lf">>) \in Seq(Byte) /\ Len(Reverse(<<"lf">>)) = 1
              /\ \A i \in 1 .. 1 : Reverse(<<"lf">>)[i] = <<"lf">>[(1 - i) + 1]
            BY <3>1, ReverseMeans, Zenon
        <3>3. Reverse(<<"lf">>)[1] = <<"lf">>[(1 - 1) + 1]
            BY <3>2
        <3> QED
            BY <3>1, <3>2, <3>3
    <2> HIDE DEF s
    <2>2. IsPrefix(s, r) <=> 1 <= n /\ \A i \in 1 .. 1 : s[i] = r[i]
        <3>1. IsPrefix(s, r) <=> Len(s) <= Len(r) /\ \A i \in 1 .. Len(s) : s[i] = r[i]
            BY <1>1, <2>1, PrefixMeans, Zenon
        <3> QED
            BY <1>1, <2>1, <3>1
    <2>3. n >= 1 => r[1] = t[n]
        BY <1>1
    <2> QED
        BY <1>1, <2>1, <2>2, <2>3 DEF s
<1>4. IsPrefix(Reverse(<<"lf", "lf">>), r) <=> n >= 2 /\ t[n] = "lf" /\ t[n - 1] = "lf"
    <2> DEFINE s == Reverse(<<"lf", "lf">>)
    <2>1. s \in Seq(Byte) /\ Len(s) = 2 /\ s[1] = "lf" /\ s[2] = "lf"
        <3> DEFINE d == <<"lf", "lf">>
        <3>1. d \in Seq(Byte) /\ Len(d) = 2 /\ d[1] = "lf" /\ d[2] = "lf"
            BY DEF Byte
        <3> HIDE DEF d
        <3>2. /\ Reverse(d) \in Seq(Byte) /\ Len(Reverse(d)) = 2
              /\ \A i \in 1 .. 2 : Reverse(d)[i] = d[(2 - i) + 1]
            BY <3>1, ReverseMeans
        <3>3. Reverse(d)[1] = d[2] /\ Reverse(d)[2] = d[1]
            BY <3>2
        <3> QED
            BY <3>1, <3>2, <3>3 DEF d
    <2> HIDE DEF s
    <2>2. IsPrefix(s, r) <=> 2 <= n /\ \A i \in 1 .. 2 : s[i] = r[i]
        <3>1. IsPrefix(s, r) <=> Len(s) <= Len(r) /\ \A i \in 1 .. Len(s) : s[i] = r[i]
            BY <1>1, <2>1, PrefixMeans, Zenon
        <3> QED
            BY <1>1, <2>1, <3>1
    <2>3. n >= 2 => r[1] = t[n] /\ r[2] = t[n - 1]
        BY <1>1
    <2> QED
        BY <1>1, <2>1, <2>2, <2>3 DEF s
<1> QED
    BY <1>2, <1>3, <1>4 DEF IsSuffix, n, r

\* The piece between two cuts, and its last byte.
LEMMA LineMeans ==
    ASSUME NEW t \in Seq(Byte), NEW p \in 0 .. Len(t), NEW q \in 1 .. Len(t) + 1, p < q
    PROVE  LET line == SubSeq(t, p + 1, q - 1)
           IN  /\ line # <<>> <=> p + 1 < q
               /\ p + 1 < q => Last(line) = t[q - 1]
<1> DEFINE m == p + 1
           l == q - 1
           line == SubSeq(t, m, l)
<1>1. Len(t) \in Nat /\ m \in Int /\ l \in Int /\ m >= 1 /\ l <= Len(t) /\ p \in Int /\ q \in Int
    OBVIOUS
<1>2. \A i \in m .. l : t[i] \in Byte
    BY <1>1
<1>3. m = p + 1 /\ l = q - 1
    OBVIOUS
<1> HIDE DEF m, l
<1>4. /\ line \in Seq(Byte) /\ Len(line) = IF m <= l THEN l - m + 1 ELSE 0
      /\ \A i \in 1 .. (l - m + 1) : line[i] = t[m + i - 1]
    BY <1>1, <1>2, SubSeqProperties
<1> HIDE DEF line
<1>5. line # <<>> <=> m <= l
    BY <1>1, <1>4
<1>6. m <= l => Last(line) = t[l]
    <2>1. m <= l => line[l - m + 1] = t[m + (l - m + 1) - 1]
        BY <1>1, <1>4
    <2>2. m + (l - m + 1) - 1 = l
        BY <1>1
    <2> QED
        BY <1>4, <2>1, <2>2 DEF Last
<1>7. m <= l <=> p + 1 < q
    BY <1>1, <1>3
<1> QED
    BY <1>3, <1>5, <1>6, <1>7 DEF line, m, l

\* In a text that ends with LF a piece of split ends with a blank exactly
\* where a blank stands before an LF.
LEMMA BlanksMean ==
    ASSUME NEW t \in Seq(Byte), Len(t) >= 1, t[Len(t)] = "lf"
    PROVE  NoTrailingBlank(t) <=> \A i \in 1 .. Len(t) : t[i] \in Blanks => t[i + 1] # "lf"
<1> DEFINE n == Len(t)
           cuts == {0, n + 1} \cup {i \in DOMAIN t : t[i] = "lf"}
           pairs == {q \in cuts \X cuts : q[1] < q[2] /\ ~\E k \in cuts : q[1] < k /\ k < q[2]}
<1>0. "lf" \notin Blanks
    BY DEF Blanks
<1>1. n \in Nat /\ n >= 1 /\ DOMAIN t = 1 .. n /\ t[n] = "lf"
    OBVIOUS
<1>2. NoTrailingBlank(t) <=>
        \A p \in pairs : SubSeq(t, p[1] + 1, p[2] - 1) # <<>> => Last(SubSeq(t, p[1] + 1, p[2] - 1)) \notin Blanks
    <2>1. Lines(t) = {SubSeq(t, p[1] + 1, p[2] - 1) : p \in pairs}
        BY DEF Lines
    <2> HIDE DEF pairs
    <2> QED
        BY <2>1, Zenon DEF NoTrailingBlank
<1> HIDE DEF n
<1>3. \A k : k \in cuts <=> k = 0 \/ k = n + 1 \/ (k \in 1 .. n /\ t[k] = "lf")
    BY <1>1
<1>4. cuts \subseteq 0 .. n + 1
    BY <1>1, <1>3
<1> HIDE DEF cuts
<1>5. ASSUME NoTrailingBlank(t), NEW i \in 1 .. n, t[i] \in Blanks, t[i + 1] = "lf"
      PROVE  FALSE
    <2> DEFINE before == {k \in cuts : k < i + 1}
    <2>1. i < n /\ i \in Int
        <3>1. i # n
            BY <1>0, <1>1, <1>5
        <3> QED
            BY <1>1, <3>1
    <2>2. i \notin cuts /\ i + 1 \in cuts /\ 0 \in cuts
        <3>1. i \in 1 .. n /\ i # 0 /\ i # n + 1 /\ i + 1 \in 1 .. n
            BY <1>1, <2>1
        <3>2. t[i] # "lf"
            BY <1>0, <1>5, Zenon
        <3> QED
            BY <1>3, <1>5, <3>1, <3>2, Zenon
    <2>3. before \subseteq 0 .. n + 1 /\ before # {} /\ n + 1 \in Nat
        <3>1. 0 < i + 1
            BY <2>1
        <3>2. 0 \in before
            BY <2>2, <3>1
        <3>3. before \subseteq cuts
            OBVIOUS
        <3> HIDE DEF before
        <3> QED
            BY <1>1, <1>4, <3>2, <3>3
    <2>4. PICK p \in before : \A k \in before : k <= p
        <3> HIDE DEF before
        <3> QED
            BY <2>3, LargestElement, Zenon
    <2>5. p \in cuts /\ p \in 0 .. n + 1 /\ p < i + 1 /\ p # i
        BY <1>4, <2>2, <2>4
    <2>6. p < i /\ p \in 0 .. n
        BY <1>1, <2>1, <2>5
    <2>7. <<p, i + 1>> \in pairs
        <3>1. ~\E k \in cuts : p < k /\ k < i + 1
            <4> SUFFICES ASSUME NEW k \in cuts, p < k, k < i + 1
                         PROVE  FALSE
                OBVIOUS
            <4>1. k <= p /\ k \in 0 .. n + 1
                BY <1>4, <2>4
            <4> QED
                BY <2>6, <4>1
        <3>2. p < i + 1
            BY <2>1, <2>6
        <3> QED
            BY <2>2, <2>5, <3>1, <3>2
    <2>8. SubSeq(t, p + 1, (i + 1) - 1) # <<>> => Last(SubSeq(t, p + 1, (i + 1) - 1)) \notin Blanks
        <3> HIDE DEF pairs
        <3> DEFINE q == <<p, i + 1>>
        <3>1. q \in pairs /\ q[1] = p /\ q[2] = i + 1
            BY <2>7
        <3> HIDE DEF q
        <3>2. SubSeq(t, q[1] + 1, q[2] - 1) # <<>> => Last(SubSeq(t, q[1] + 1, q[2] - 1)) \notin Blanks
            BY <1>2, <1>5, <3>1
        <3> QED
            BY <3>1, <3>2
    <2>9. i + 1 \in 1 .. Len(t) + 1 /\ p \in 0 .. Len(t) /\ p < i + 1 /\ p + 1 < i + 1
        BY <1>1, <2>1, <2>6 DEF n
    <2>10. /\ SubSeq(t, p + 1, (i + 1) - 1) # <<>>
           /\ Last(SubSeq(t, p + 1, (i + 1) - 1)) = t[(i + 1) - 1]
        BY <2>9, LineMeans, Zenon
    <2>11. (i + 1) - 1 = i
        BY <2>1
    <2> QED
        BY <1>5, <2>8, <2>10, <2>11
<1>6. ASSUME \A i \in 1 .. n : t[i] \in Blanks => t[i + 1] # "lf",
             NEW w \in pairs, SubSeq(t, w[1] + 1, w[2] - 1) # <<>>,
             Last(SubSeq(t, w[1] + 1, w[2] - 1)) \in Blanks
      PROVE  FALSE
    <2>1. PICK p \in cuts, q \in cuts : w[1] = p /\ w[2] = q /\ p < q
        OBVIOUS
    <2>2. p \in 0 .. n /\ q \in 1 .. n + 1
        BY <1>1, <1>4, <2>1
    <2>3. p + 1 < q /\ t[q - 1] \in Blanks
        <3>1. SubSeq(t, p + 1, q - 1) # <<>> /\ Last(SubSeq(t, p + 1, q - 1)) \in Blanks
            BY <1>6, <2>1
        <3>2. p \in 0 .. Len(t) /\ q \in 1 .. Len(t) + 1 /\ p < q
            BY <2>1, <2>2 DEF n
        <3> QED
            BY <3>1, <3>2, LineMeans, Zenon
    <2>4. CASE q = n + 1
        <3>1. q - 1 = n
            BY <1>1, <2>4
        <3> QED
            BY <1>0, <1>1, <2>3, <3>1, Zenon
    <2>5. CASE q # n + 1
        <3>1. q \in 1 .. n /\ t[q] = "lf"
            BY <1>3, <2>2, <2>5
        <3>2. q - 1 \in 1 .. n /\ (q - 1) + 1 = q
            BY <1>1, <2>2, <2>3, <3>1
        <3> QED
            BY <1>6, <2>3, <3>1, <3>2
    <2> QED
        BY <2>4, <2>5
<1> HIDE DEF pairs
<1> QED
    BY <1>2, <1>5, <1>6 DEF n

\* What verify_spec_bytes accepts, for a text of any length.
LEMMA SpecBytesContract ==
    ASSUME NEW t \in Seq(Byte)
    PROVE  verify_spec_bytes(t) <=>
               /\ t # <<>> /\ t[Len(t)] = "lf"
               /\ \A i \in DOMAIN t :
                   /\ t[i] \notin {"cr", "bad"}
                   /\ t[i] = "bom" => i > 1
                   /\ t[i] \in Blanks => t[i + 1] # "lf"
                   /\ t[i] = "lf" => i = Len(t) \/ ~(\A j \in i..Len(t) : t[j] = "lf")
<1> DEFINE n == Len(t)
<1>1. n \in Nat /\ DOMAIN t = 1 .. n /\ (t # <<>> <=> n >= 1)
    OBVIOUS
<1>2. /\ IsPrefix(<<"bom">>, t) <=> n >= 1 /\ t[1] = "bom"
      /\ IsSuffix(<<"lf">>, t) <=> n >= 1 /\ t[n] = "lf"
      /\ IsSuffix(<<"lf", "lf">>, t) <=> n >= 2 /\ t[n] = "lf" /\ t[n - 1] = "lf"
    BY EndsMean
<1>3. n >= 1 /\ t[n] = "lf" =>
        (NoTrailingBlank(t) <=> \A i \in 1 .. n : t[i] \in Blanks => t[i + 1] # "lf")
    BY BlanksMean
<1>4. /\ Contains(t, "bad") <=> \E i \in 1 .. n : t[i] = "bad"
      /\ Contains(t, "cr") <=> \E i \in 1 .. n : t[i] = "cr"
    BY DEF Contains
<1> HIDE DEF n
<1>5. (~(n >= 1 /\ t[1] = "bom")) <=> \A i \in 1 .. n : t[i] = "bom" => i > 1
    <2>1. ASSUME n >= 1, t[1] = "bom"
          PROVE  ~\A i \in 1 .. n : t[i] = "bom" => i > 1
        <3>1. 1 \in 1 .. n /\ ~(1 > 1)
            BY <1>1, <2>1
        <3> QED
            BY <2>1, <3>1
    <2>2. ASSUME ~(n >= 1 /\ t[1] = "bom"), NEW i \in 1 .. n, t[i] = "bom"
          PROVE  i > 1
        <3>1. i # 1
            BY <1>1, <2>2
        <3> QED
            BY <1>1, <3>1
    <2> QED
        BY <2>1, <2>2
<1>6. ASSUME n >= 1, t[n] = "lf"
      PROVE  (~(n >= 2 /\ t[n] = "lf" /\ t[n - 1] = "lf")) <=>
                 \A i \in 1 .. n : t[i] = "lf" => i = n \/ ~(\A j \in i..n : t[j] = "lf")
    <2>1. ASSUME n >= 2, t[n - 1] = "lf"
          PROVE  \E i \in 1 .. n : t[i] = "lf" /\ i # n /\ \A j \in i..n : t[j] = "lf"
        <3>1. n - 1 \in 1 .. n /\ n - 1 # n
            BY <1>1, <2>1
        <3>2. \A j \in (n - 1)..n : j = n - 1 \/ j = n
            BY <1>1
        <3>3. \A j \in (n - 1)..n : t[j] = "lf"
            BY <1>6, <2>1, <3>2
        <3> QED
            BY <2>1, <3>1, <3>3
    <2>2. ASSUME ~(n >= 2 /\ t[n - 1] = "lf"), NEW i \in 1 .. n, i # n, \A j \in i..n : t[j] = "lf"
          PROVE  FALSE
        <3>1. n >= 2 /\ n - 1 \in i .. n
            BY <1>1, <2>2
        <3> QED
            BY <2>2, <3>1
    <2> QED
        BY <1>6, <2>1, <2>2
<1> DEFINE Blank == \A i \in 1 .. n : t[i] \in Blanks => t[i + 1] # "lf"
           Bom == \A i \in 1 .. n : t[i] = "bom" => i > 1
           Ends == \A i \in 1 .. n : t[i] = "lf" => i = n \/ ~(\A j \in i..n : t[j] = "lf")
           Chars == \A i \in 1 .. n : t[i] \notin {"cr", "bad"}
<1>7. Chars <=> ~Contains(t, "bad") /\ ~Contains(t, "cr")
    BY <1>4
<1>8. (\A i \in DOMAIN t :
                   /\ t[i] \notin {"cr", "bad"}
                   /\ t[i] = "bom" => i > 1
                   /\ t[i] \in Blanks => t[i + 1] # "lf"
                   /\ t[i] = "lf" => i = n \/ ~(\A j \in i..n : t[j] = "lf"))
        <=> Chars /\ Bom /\ Blank /\ Ends
    <2>1. DOMAIN t = 1 .. n
        BY <1>1
    <2> QED
        BY <2>1, Zenon
<1>9. /\ (~IsPrefix(<<"bom">>, t)) <=> Bom
      /\ n >= 1 /\ t[n] = "lf" => ((~IsSuffix(<<"lf", "lf">>, t)) <=> Ends)
      /\ n >= 1 /\ t[n] = "lf" => (NoTrailingBlank(t) <=> Blank)
    BY <1>2, <1>3, <1>5, <1>6
<1> HIDE DEF Blank, Bom, Ends, Chars
<1>10. verify_spec_bytes(t) <=> t # <<>> /\ t[n] = "lf" /\ Chars /\ Bom /\ Blank /\ Ends
    BY <1>1, <1>2, <1>7, <1>9 DEF verify_spec_bytes
<1> QED
    BY <1>8, <1>10 DEF n

\* The specification of every process is a text.
LEMMA SpecTyped ==
    ASSUME NEW a \in Arguments
    PROVE  a.spec \in Seq(Byte)
<1>1. a.spec \in {Spec1, Spec2} \cup SeqOf(Byte, MaxSpecBytes)
    BY Zenon DEF Arguments
<1>2. CASE a.spec \in {Spec1, Spec2}
    <2>1. Spec1 \in Seq(Byte) /\ Spec2 \in Seq(Byte)
        BY DEF Spec1, Spec2, Byte
    <2> QED
        BY <1>2, <2>1
<1>3. CASE a.spec \in SeqOf(Byte, MaxSpecBytes)
    <2>1. PICK k \in 0..MaxSpecBytes : a.spec \in [1..k -> Byte]
        BY <1>3 DEF SeqOf
    <2>2. k \in Nat
        <3>1. MaxSpecBytes \in Nat
            BY StartupAssumption, Zenon
        <3> QED
            BY <3>1
    <2>3. [1..k -> Byte] \subseteq Seq(Byte)
        BY <2>2, SeqDef
    <2> QED
        BY <2>1, <2>3
<1> QED
    BY <1>1, <1>2, <1>3

\* verify_spec_bytes accepts exactly the canonical texts: no BOM in front, no
\* CR, valid UTF-8, no blank before an LF, and one LF at the very end, whatever
\* the length of the specification (config.rs).
THEOREM SpecTextsCanonical == StartupSpec => []SpecContractExact
<1>1. StartupInit => StartupInv
    BY DEF StartupInit, StartupInv, PastGate
<1>2. StartupInv /\ [StartupNext]_startupVars => StartupInv'
    BY StartupStep
<1>3. StartupInv => SpecContractExact
    <2> SUFFICES ASSUME StartupInv, stage = "spec_bytes"
                 PROVE  SpecContractExact
        BY DEF SpecContractExact
    <2>1. args.spec \in Seq(Byte)
        BY SpecTyped DEF StartupInv
    <2> DEFINE t == args.spec
    <2>2. verify_spec_bytes(t) <=>
               /\ t # <<>> /\ t[Len(t)] = "lf"
               /\ \A i \in DOMAIN t :
                   /\ t[i] \notin {"cr", "bad"}
                   /\ t[i] = "bom" => i > 1
                   /\ t[i] \in Blanks => t[i + 1] # "lf"
                   /\ t[i] = "lf" => i = Len(t) \/ ~(\A j \in i..Len(t) : t[j] = "lf")
        BY <2>1, SpecBytesContract
    <2> QED
        BY <2>2 DEF SpecContractExact
<1> QED
    BY <1>1, <1>2, <1>3, PTL DEF StartupSpec

-----------------------------------------------------------------------------
\* Marker scripts.

\* Every encoding of a push is made of numbers.
LEMMA PushTyped ==
    ASSUME NEW n \in Nat, NEW push \in Pushes(n)
    PROVE  push \in Seq(Nat)
<1>1. n % 256 \in Nat /\ n \div 256 \in Nat
    OBVIOUS
<1>2. \/ push = <<n>> \/ push = <<76, n>>
      \/ push = <<77, n % 256, n \div 256>> \/ push = <<78, n % 256, n \div 256, 0, 0>>
    BY DEF Pushes
<1>3. \A x, y \in Nat : /\ <<n>> \in Seq(Nat) /\ <<76, n>> \in Seq(Nat)
                        /\ <<77, x, y>> \in Seq(Nat) /\ <<78, x, y, 0, 0>> \in Seq(Nat)
    OBVIOUS
<1>4. /\ <<n>> \in Seq(Nat) /\ <<76, n>> \in Seq(Nat)
      /\ <<77, n % 256, n \div 256>> \in Seq(Nat)
      /\ <<78, n % 256, n \div 256, 0, 0>> \in Seq(Nat)
    BY <1>1, <1>3, ZenonT(60)
<1> QED
    BY <1>2, <1>4, ZenonT(60)

\* So is a body.
LEMMA BodyTyped ==
    ASSUME NEW n \in Nat, NEW magic \in [1..4 -> Nat], NEW version \in Nat, NEW opcode \in Nat
    PROVE  /\ Body(n, magic, version, opcode) \in Seq(Nat)
           /\ Len(Body(n, magic, version, opcode)) = n
<1>1. \A i \in 1..n : (IF i <= 4 THEN magic[i] ELSE
                        IF i = 5 THEN version ELSE IF i = 7 THEN opcode ELSE 0) \in Nat
    OBVIOUS
<1> QED
    BY <1>1 DEF Body

\* The start of every marker, and of the bodies that nearly are one.
LEMMA MagicTyped == MAGIC \in [1..4 -> Nat] /\ <<84, 78, 68, 78>> \in [1..4 -> Nat]
<1> QED
    BY DEF MAGIC

\* Every script of a fixture is a sequence of numbers.
LEMMA ScriptsTyped == Scripts \subseteq Seq(Nat)
<1>1. Lengths \subseteq Nat /\ OpcodeBytes \subseteq Nat
    BY MarkerAssumption
<1>2. ASSUME NEW h \in Headers
      PROVE  h \in Seq(Nat)
    <2> DEFINE pushes == UNION {Pushes(n) : n \in Lengths}
    <2>1. ASSUME NEW push \in pushes
          PROVE  push \in Seq(Nat)
        BY <1>1, PushTyped
    <2> HIDE DEF pushes
    <2>2. PICK push \in pushes : h \in {<<OP_RETURN>> \o push, <<81>> \o push}
        BY DEF Headers, pushes
    <2>3. <<OP_RETURN>> \in Seq(Nat) /\ <<81>> \in Seq(Nat) /\ push \in Seq(Nat)
        BY <2>1 DEF OP_RETURN
    <2>4. <<OP_RETURN>> \o push \in Seq(Nat) /\ <<81>> \o push \in Seq(Nat)
        BY <2>3, ConcatProperties, Zenon
    <2> QED
        BY <2>2, <2>4, Zenon
<1>3. ASSUME NEW body \in Bodies
      PROVE  body \in Seq(Nat)
    <2>1. PICK n \in Lengths :
            body \in {Body(n, MAGIC, VERSION, b) : b \in OpcodeBytes}
                     \cup {Body(n, MAGIC, 0, b) : b \in OpcodeBytes}
                     \cup {Body(n, <<84, 78, 68, 78>>, VERSION, 1)}
        BY DEF Bodies
    <2>2. n \in Nat /\ VERSION \in Nat
        BY <1>1 DEF VERSION
    <2>3. 0 \in Nat /\ 1 \in Nat
        OBVIOUS
    <2>4. \A b \in OpcodeBytes : /\ Body(n, MAGIC, VERSION, b) \in Seq(Nat)
                                /\ Body(n, MAGIC, 0, b) \in Seq(Nat)
        BY <1>1, <2>2, <2>3, BodyTyped, MagicTyped, Zenon
    <2>5. Body(n, <<84, 78, 68, 78>>, VERSION, 1) \in Seq(Nat)
        BY <2>2, <2>3, BodyTyped, MagicTyped, Zenon
    <2> QED
        BY <2>1, <2>4, <2>5, Zenon
<1> SUFFICES ASSUME NEW s \in Scripts
             PROVE  s \in Seq(Nat)
    OBVIOUS
<1>4. PICK h \in Headers :
        s \in {h \o body : body \in Bodies} \cup {SubSeq(h, 1, k) : k \in 0..Len(h)}
    BY DEF Scripts
<1>5. h \in Seq(Nat)
    BY <1>2
<1>6. CASE s \in {h \o body : body \in Bodies}
    BY <1>3, <1>5, <1>6, ConcatProperties, Zenon
<1>7. CASE s \in {SubSeq(h, 1, k) : k \in 0..Len(h)}
    BY <1>5, <1>7
<1> QED
    BY <1>4, <1>6, <1>7

\* What the canonical encoding of a payload consists of, with a direct push...
LEMMA EncodeShort ==
    ASSUME NEW p \in Seq(Nat), Len(p) <= 75
    PROVE  /\ Encode(p) \in Seq(Nat)
           /\ Len(Encode(p)) = 2 + Len(p)
           /\ Encode(p)[1] = OP_RETURN
           /\ Encode(p)[2] = Len(p)
           /\ \A i \in 1..Len(p) : Encode(p)[2 + i] = p[i]
<1> DEFINE head == <<OP_RETURN>> \o <<Len(p)>>
<1>1. head \in Seq(Nat) /\ Len(head) = 2 /\ head[1] = OP_RETURN /\ head[2] = Len(p)
    BY DEF OP_RETURN
<1>2. Encode(p) = head \o p
    BY DEF Encode
<1> QED
    BY <1>1, <1>2

\* ... and with PUSHDATA1.
LEMMA EncodeLong ==
    ASSUME NEW p \in Seq(Nat), ~(Len(p) <= 75)
    PROVE  /\ Encode(p) \in Seq(Nat)
           /\ Len(Encode(p)) = 3 + Len(p)
           /\ Encode(p)[1] = OP_RETURN
           /\ Encode(p)[2] = 76 /\ Encode(p)[3] = Len(p)
           /\ \A i \in 1..Len(p) : Encode(p)[3 + i] = p[i]
<1> DEFINE head == <<OP_RETURN>> \o <<76, Len(p)>>
<1>1. /\ head \in Seq(Nat) /\ Len(head) = 3
      /\ head[1] = OP_RETURN /\ head[2] = 76 /\ head[3] = Len(p)
    BY DEF OP_RETURN
<1>2. Encode(p) = head \o p
    BY DEF Encode
<1> QED
    BY <1>1, <1>2

\* Two sequences with the same elements are equal.
LEMMA SameElements ==
    ASSUME NEW S, NEW a \in Seq(S), NEW b \in Seq(S), Len(a) = Len(b),
           \A i \in 1..Len(a) : a[i] = b[i]
    PROVE  a = b
<1> QED
    OBVIOUS

\* The bytes of a slice.
LEMMA SliceMeans ==
    ASSUME NEW s \in Seq(Nat), NEW start \in Nat, NEW width \in Nat,
           start + width <= Len(s)
    PROVE  /\ Slice(s, <<start, width>>) = SubSeq(s, start + 1, start + width)
           /\ Slice(s, <<start, width>>) \in Seq(Nat)
           /\ Len(Slice(s, <<start, width>>)) = width
           /\ \A i \in 1..width : Slice(s, <<start, width>>)[i] = s[start + i]
<1> DEFINE m == start + 1
           l == start + width
<1>1. Slice(s, <<start, width>>) = SubSeq(s, m, l)
    BY DEF Slice
<1>2. /\ Len(s) \in Nat /\ m \in Int /\ l \in Int /\ m >= 1 /\ l <= Len(s)
      /\ l - m + 1 = width /\ \A i \in 1..width : m + i - 1 = start + i
    OBVIOUS
<1>3. (m <= l <=> width > 0) /\ (width > 0 \/ width = 0)
    OBVIOUS
<1>4. \A i \in m..l : s[i] \in Nat
    BY <1>2
<1> HIDE DEF m, l
<1>5. /\ SubSeq(s, m, l) \in Seq(Nat)
      /\ Len(SubSeq(s, m, l)) = IF m <= l THEN l - m + 1 ELSE 0
      /\ \A i \in 1..(l - m + 1) : SubSeq(s, m, l)[i] = s[m + i - 1]
    BY <1>2, <1>4, SubSeqProperties
<1>6. Len(SubSeq(s, m, l)) = width
    BY <1>2, <1>3, <1>5
<1>7. \A i \in 1..width : SubSeq(s, m, l)[i] = s[start + i]
    BY <1>2, <1>5
<1> QED
    BY <1>1, <1>5, <1>6, <1>7 DEF m, l

\* The lengths of a payload, and of a direct push.
LEMMA LengthRanges ==
    /\ \A n : n \in 7..80 => n \in Nat /\ n >= 7 /\ n <= 80
    /\ \A n : n \in 1..75 => n \in Nat /\ n <= 75
<1> QED
    OBVIOUS

\* The push of a marker that parses: one of the two short encodings, canonical
\* and with nothing behind the payload.
LEMMA ParsedPush ==
    ASSUME NEW s \in Seq(Nat), NEW c \in find_marker_candidate(s), NEW m \in parse(c)
    PROVE  \E prefix \in {2, 3}, n \in Nat :
             /\ n >= 7 /\ n <= 80 /\ Len(s) = prefix + n
             /\ s[1] = OP_RETURN
             /\ prefix = 2 => s[2] = n /\ n <= 75
             /\ prefix = 3 => s[2] = 76 /\ s[3] = n /\ ~(n <= 75)
             /\ c.payload = Slice(s, <<prefix, n>>)
             /\ Slice(s, <<prefix, 4>>) = MAGIC
<1>1. Len(s) >= 2 /\ s[1] = OP_RETURN
    BY DEF find_marker_candidate
<1>2. PICK push \in DeclaredPush(s) :
        /\ push.len >= 4 /\ Len(s) - push.prefix >= 4 /\ Slice(s, <<push.prefix, 4>>) = MAGIC
        /\ c = [declared_len |-> push.len,
                payload |-> Slice(s, <<push.prefix,
                                       IF push.len < Len(s) - push.prefix THEN push.len
                                       ELSE Len(s) - push.prefix>>),
                payload_complete |-> Len(s) - push.prefix >= push.len,
                no_trailing_bytes |-> Len(s) - push.prefix = push.len,
                minimal_push |-> push.minimal]
    BY <1>1, Zenon DEF find_marker_candidate
<1>3. c.declared_len \in 7..80 /\ c.no_trailing_bytes /\ c.minimal_push
    BY Zenon DEF parse
<1>4. push.len \in 7..80 /\ Len(s) - push.prefix = push.len /\ push.minimal
    BY <1>2, <1>3, Zenon
<1>5. push.len \in Nat /\ push.len >= 7 /\ push.len <= 80
    BY <1>4, LengthRanges, Zenon
<1>6. c.payload = Slice(s, <<push.prefix, push.len>>)
    <2>1. ~(push.len < Len(s) - push.prefix)
        BY <1>4, <1>5
    <2> QED
        BY <1>2, <1>4, <2>1, Zenon
<1>7. Slice(s, <<push.prefix, 4>>) = MAGIC
    BY <1>2
<1>8. \/ s[2] \in 1..75 /\ push = [len |-> s[2], prefix |-> 2, minimal |-> TRUE]
      \/ /\ s[2] = 76 /\ Len(s) >= 3
         /\ push = [len |-> s[3], prefix |-> 3, minimal |-> s[3] >= 76]
      \/ \E len : push = [len |-> len, prefix |-> 4, minimal |-> len > U8_MAX]
      \/ \E len : push = [len |-> len, prefix |-> 6, minimal |-> len > U16_MAX]
    BY Zenon DEF DeclaredPush
<1>9. ASSUME NEW len, NEW prefix, push = [len |-> len, prefix |-> prefix, minimal |-> len > U8_MAX]
      PROVE  FALSE
    <2>1. push.len > U8_MAX
        BY <1>4, <1>9, Zenon
    <2> QED
        BY <1>5, <2>1 DEF U8_MAX
<1>10. ASSUME NEW len, NEW prefix, push = [len |-> len, prefix |-> prefix, minimal |-> len > U16_MAX]
       PROVE  FALSE
    <2>1. push.len > U16_MAX
        BY <1>4, <1>10, Zenon
    <2> QED
        BY <1>5, <2>1 DEF U16_MAX
<1>11. CASE s[2] \in 1..75 /\ push = [len |-> s[2], prefix |-> 2, minimal |-> TRUE]
    <2>1. push.prefix = 2 /\ push.len = s[2] /\ push.len <= 75
        BY <1>11, LengthRanges, Zenon
    <2>2. Len(s) - 2 = push.len
        BY <1>4, <2>1, Zenon
    <2>3. Len(s) = 2 + push.len /\ 2 # 3
        BY <1>5, <2>2
    <2>4. c.payload = Slice(s, <<2, push.len>>) /\ Slice(s, <<2, 4>>) = MAGIC
        BY <1>6, <1>7, <2>1
    <2> QED
        BY <1>1, <1>5, <2>1, <2>3, <2>4, Zenon
<1>12. CASE s[2] = 76 /\ Len(s) >= 3 /\ push = [len |-> s[3], prefix |-> 3, minimal |-> s[3] >= 76]
    <2>1. push.prefix = 3 /\ push.len = s[3] /\ push.len >= 76
        BY <1>4, <1>12, Zenon
    <2>2. Len(s) - 3 = push.len
        BY <1>4, <2>1, Zenon
    <2>3. Len(s) = 3 + push.len /\ ~(push.len <= 75) /\ 2 # 3
        BY <1>5, <2>1, <2>2
    <2>4. c.payload = Slice(s, <<3, push.len>>) /\ Slice(s, <<3, 4>>) = MAGIC
        BY <1>6, <1>7, <2>1
    <2> QED
        BY <1>1, <1>5, <1>12, <2>1, <2>3, <2>4, Zenon
<1> QED
    BY <1>8, <1>9, <1>10, <1>11, <1>12, Zenon

\* The first k elements of a list.
LEMMA Leading ==
    ASSUME NEW p \in Seq(Nat), NEW k \in Nat, k <= Len(p)
    PROVE  LET r == SubSeq(p, 1, k)
           IN  r \in Seq(Nat) /\ Len(r) = k /\ \A i \in 1..k : r[i] = p[i]
OBVIOUS

\* The first bytes of what follows a prefix.
LEMMA FirstBytes ==
    ASSUME NEW s \in Seq(Nat), NEW prefix \in Nat, NEW p \in Seq(Nat), NEW k \in Nat, k <= Len(p),
           Len(s) = prefix + Len(p), \A i \in 1..Len(p) : p[i] = s[prefix + i]
    PROVE  SubSeq(p, 1, k) = Slice(s, <<prefix, k>>)
<1> DEFINE q == Slice(s, <<prefix, k>>)
           r == SubSeq(p, 1, k)
<1>1. prefix + k <= Len(s)
    OBVIOUS
<1>2. q \in Seq(Nat) /\ Len(q) = k /\ \A i \in 1..k : q[i] = s[prefix + i]
    BY <1>1, SliceMeans, Zenon
<1>3. r \in Seq(Nat) /\ Len(r) = k /\ \A i \in 1..k : r[i] = p[i]
    BY Leading, Zenon
<1> HIDE DEF q, r
<1>4. ASSUME NEW i \in 1..k
      PROVE  r[i] = q[i]
    <2>1. i \in 1..Len(p)
        OBVIOUS
    <2> QED
        BY <1>2, <1>3, <2>1, Zenon
<1>5. r = q
    BY <1>2, <1>3, <1>4, SameElements, Zenon
<1> QED
    BY <1>5, Zenon DEF q, r

\* Sequences that agree in a header and behind it are equal.
LEMMA SameParts ==
    ASSUME NEW s \in Seq(Nat), NEW e \in Seq(Nat), NEW h \in Nat, NEW n \in Nat,
           Len(s) = h + n, Len(e) = h + n,
           \A i \in 1..h : s[i] = e[i], \A i \in 1..n : s[h + i] = e[h + i]
    PROVE  s = e
<1>1. ASSUME NEW i \in 1..Len(s)
      PROVE  s[i] = e[i]
    <2>1. CASE i <= h
        BY <2>1
    <2>2. CASE i > h
        <3>1. i - h \in 1..n /\ h + (i - h) = i
            BY <2>2
        <3> QED
            BY <3>1, Zenon
    <2> QED
        BY <2>1, <2>2
<1> QED
    BY <1>1, SameElements, Zenon

\* A sequence of the header of p, for a direct push, and p is Encode(p).
LEMMA ShortIsEncoded ==
    ASSUME NEW s \in Seq(Nat), NEW p \in Seq(Nat), Len(p) <= 75, Len(s) = 2 + Len(p),
           s[1] = OP_RETURN, s[2] = Len(p), \A i \in 1..Len(p) : p[i] = s[2 + i]
    PROVE  s = Encode(p)
<1> DEFINE e == Encode(p)
<1>1. /\ e \in Seq(Nat) /\ Len(e) = 2 + Len(p) /\ e[1] = OP_RETURN /\ e[2] = Len(p)
      /\ \A i \in 1..Len(p) : e[2 + i] = p[i]
    BY EncodeShort, Zenon
<1> HIDE DEF e
<1>2. \A i \in 1..2 : s[i] = e[i]
    <2>1. \A i \in 1..2 : i = 1 \/ i = 2
        OBVIOUS
    <2> QED
        BY <1>1, <2>1, Zenon
<1>3. \A i \in 1..Len(p) : s[2 + i] = e[2 + i]
    BY <1>1, Zenon
<1>4. 2 \in Nat /\ Len(p) \in Nat
    OBVIOUS
<1>5. s = e
    BY <1>1, <1>2, <1>3, <1>4, SameParts, Zenon
<1> QED
    BY <1>5 DEF e

\* The same with PUSHDATA1.
LEMMA LongIsEncoded ==
    ASSUME NEW s \in Seq(Nat), NEW p \in Seq(Nat), ~(Len(p) <= 75), Len(s) = 3 + Len(p),
           s[1] = OP_RETURN, s[2] = 76, s[3] = Len(p), \A i \in 1..Len(p) : p[i] = s[3 + i]
    PROVE  s = Encode(p)
<1> DEFINE e == Encode(p)
<1>1. /\ e \in Seq(Nat) /\ Len(e) = 3 + Len(p)
      /\ e[1] = OP_RETURN /\ e[2] = 76 /\ e[3] = Len(p)
      /\ \A i \in 1..Len(p) : e[3 + i] = p[i]
    BY EncodeLong, Zenon
<1> HIDE DEF e
<1>2. \A i \in 1..3 : s[i] = e[i]
    <2>1. \A i \in 1..3 : i = 1 \/ i = 2 \/ i = 3
        OBVIOUS
    <2> QED
        BY <1>1, <2>1, Zenon
<1>3. \A i \in 1..Len(p) : s[3 + i] = e[3 + i]
    BY <1>1, Zenon
<1>4. 3 \in Nat /\ Len(p) \in Nat
    OBVIOUS
<1>5. s = e
    BY <1>1, <1>2, <1>3, <1>4, SameParts, ZenonT(60)
<1> QED
    BY <1>5 DEF e

\* A payload of legal length behind a prefix, to the end of the script.
LEMMA PayloadBehindPrefix ==
    ASSUME NEW s \in Seq(Nat), NEW prefix \in Nat, NEW n \in Nat, n >= 7,
           Len(s) = prefix + n, NEW p, p = Slice(s, <<prefix, n>>)
    PROVE  /\ p \in Seq(Nat) /\ Len(p) = n /\ \A i \in 1..Len(p) : p[i] = s[prefix + i]
           /\ SubSeq(p, 1, 4) = Slice(s, <<prefix, 4>>)
           /\ p \in {SubSeq(s, k, Len(s)) : k \in 1..Len(s)}
<1>1. prefix + n <= Len(s) /\ prefix + 1 \in 1..Len(s) /\ 4 <= n /\ 4 \in Nat
    OBVIOUS
<1>2. /\ p = SubSeq(s, prefix + 1, prefix + n)
      /\ p \in Seq(Nat) /\ Len(p) = n /\ \A i \in 1..n : p[i] = s[prefix + i]
    <2>1. /\ Slice(s, <<prefix, n>>) = SubSeq(s, prefix + 1, prefix + n)
          /\ Slice(s, <<prefix, n>>) \in Seq(Nat)
          /\ Len(Slice(s, <<prefix, n>>)) = n
          /\ \A i \in 1..n : Slice(s, <<prefix, n>>)[i] = s[prefix + i]
        BY <1>1, SliceMeans, Zenon
    <2> QED
        BY <2>1, Zenon
<1>3. SubSeq(p, 1, 4) = Slice(s, <<prefix, 4>>)
    BY <1>1, <1>2, FirstBytes, Zenon
<1>4. p = SubSeq(s, prefix + 1, Len(s))
    BY <1>2, Zenon
<1> QED
    BY <1>1, <1>2, <1>3, <1>4, Zenon

\* What parses is the canonical encoding of what it parses to.
LEMMA ParsedIsCanonical ==
    ASSUME NEW s \in Seq(Nat), NEW c \in find_marker_candidate(s), NEW m \in parse(c)
    PROVE  m.payload \in CanonicalPayloads(s)
<1> DEFINE p == c.payload
<1>1. m = [version |-> p[5], opcode |-> p[7], payload |-> p]
    BY Zenon DEF parse
<1>2. p[7] \in DOMAIN payload_len => payload_len[p[7]] = Len(p)
    BY DEF parse
<1>3. PICK prefix \in {2, 3}, n \in Nat :
        /\ n >= 7 /\ n <= 80 /\ Len(s) = prefix + n
        /\ s[1] = OP_RETURN
        /\ prefix = 2 => s[2] = n /\ n <= 75
        /\ prefix = 3 => s[2] = 76 /\ s[3] = n /\ ~(n <= 75)
        /\ p = Slice(s, <<prefix, n>>)
        /\ Slice(s, <<prefix, 4>>) = MAGIC
    BY ParsedPush, Zenon
<1> HIDE DEF p
<1>4. /\ prefix \in Nat /\ n >= 7 /\ n \in 7..80 /\ Len(s) = prefix + n
      /\ p = Slice(s, <<prefix, n>>)
    BY <1>3
<1>5. /\ p \in Seq(Nat) /\ Len(p) = n /\ \A i \in 1..Len(p) : p[i] = s[prefix + i]
      /\ Len(p) \in 7..80
      /\ SubSeq(p, 1, 4) = Slice(s, <<prefix, 4>>)
      /\ p \in {SubSeq(s, k, Len(s)) : k \in 1..Len(s)}
    <2>1. \A q : q = Slice(s, <<prefix, n>>) =>
            /\ q \in Seq(Nat) /\ Len(q) = n /\ \A i \in 1..Len(q) : q[i] = s[prefix + i]
            /\ SubSeq(q, 1, 4) = Slice(s, <<prefix, 4>>)
            /\ q \in {SubSeq(s, k, Len(s)) : k \in 1..Len(s)}
        BY <1>4, PayloadBehindPrefix, ZenonT(30)
    <2> QED
        BY <1>4, <2>1, Zenon
<1>6. s = Encode(p)
    <2>1. CASE prefix = 2
        <3>1. /\ Len(p) <= 75 /\ Len(s) = 2 + Len(p) /\ s[1] = OP_RETURN /\ s[2] = Len(p)
              /\ \A i \in 1..Len(p) : p[i] = s[2 + i]
            BY <1>3, <1>5, <2>1, Zenon
        <3> QED
            BY <1>5, <3>1, ShortIsEncoded, Zenon
    <2>2. CASE prefix = 3
        <3>1. /\ ~(Len(p) <= 75) /\ Len(s) = 3 + Len(p)
              /\ s[1] = OP_RETURN /\ s[2] = 76 /\ s[3] = Len(p)
              /\ \A i \in 1..Len(p) : p[i] = s[3 + i]
            BY <1>3, <1>5, <2>2, ZenonT(60)
        <3> QED
            BY <1>5, <3>1, LongIsEncoded, Zenon
    <2> QED
        BY <2>1, <2>2
<1>7. m.payload = p /\ SubSeq(p, 1, 4) = MAGIC
    BY <1>1, <1>3, <1>5, Zenon
<1> QED
    BY <1>2, <1>5, <1>6, <1>7, Zenon DEF CanonicalPayloads

\* The push of a script that is a header of prefix bytes and a payload of n.
LEMMA CandidateOfPush ==
    ASSUME NEW s \in Seq(Nat), NEW prefix \in Nat, NEW n \in Nat, n >= 7, prefix >= 2,
           Len(s) = prefix + n, s[1] = OP_RETURN,
           [len |-> n, prefix |-> prefix, minimal |-> TRUE] \in DeclaredPush(s),
           Slice(s, <<prefix, 4>>) = MAGIC
    PROVE  [declared_len |-> n, payload |-> Slice(s, <<prefix, n>>), payload_complete |-> TRUE,
            no_trailing_bytes |-> TRUE, minimal_push |-> TRUE] \in find_marker_candidate(s)
<1> DEFINE push == [len |-> n, prefix |-> prefix, minimal |-> TRUE]
           available == Len(s) - prefix
<1>1. available = n /\ ~(Len(s) < 2) /\ available >= 4 /\ n >= 4 /\ ~(n < available)
    OBVIOUS
<1>2. push.len = n /\ push.prefix = prefix /\ push.minimal = TRUE
    OBVIOUS
<1> HIDE DEF push
<1>3. push \in {p \in DeclaredPush(s) : /\ p.len >= 4 /\ Len(s) - p.prefix >= 4
                                        /\ Slice(s, <<p.prefix, 4>>) = MAGIC}
    BY <1>1, <1>2, Zenon DEF push
<1>4. (available >= push.len) = TRUE /\ (available = push.len) = TRUE
    BY <1>1, <1>2
<1>5. Slice(s, <<push.prefix, IF push.len < Len(s) - push.prefix THEN push.len
                              ELSE Len(s) - push.prefix>>) = Slice(s, <<prefix, n>>)
    BY <1>1, <1>2, Zenon
<1> QED
    BY <1>1, <1>2, <1>3, <1>4, <1>5, Zenon DEF find_marker_candidate

\* Every payload of legal length is parsed from its canonical encoding.
LEMMA CanonicalIsParsed ==
    ASSUME NEW s \in Seq(Nat), NEW p \in CanonicalPayloads(s)
    PROVE  \E c \in find_marker_candidate(s) : \E m \in parse(c) : m.payload = p
<1>1. /\ s = Encode(p) /\ Len(p) \in 7..80 /\ SubSeq(p, 1, 4) = MAGIC
      /\ p[7] \in DOMAIN payload_len => payload_len[p[7]] = Len(p)
    BY DEF CanonicalPayloads
<1>2. p \in Seq(Nat)
    <2>1. PICK k \in 1..Len(s) : p = SubSeq(s, k, Len(s))
        BY DEF CanonicalPayloads
    <2> QED
        BY <2>1
<1> DEFINE n == Len(p)
           c == [declared_len |-> n, payload |-> p, payload_complete |-> TRUE,
                 no_trailing_bytes |-> TRUE, minimal_push |-> TRUE]
<1>3. n \in Nat /\ n >= 7 /\ n <= 80
    BY <1>1, LengthRanges, Zenon
<1>4. ASSUME NEW prefix \in Nat, prefix >= 2, Len(s) = prefix + n, s[1] = OP_RETURN,
             \A i \in 1..n : s[prefix + i] = p[i],
             [len |-> n, prefix |-> prefix, minimal |-> TRUE] \in DeclaredPush(s)
      PROVE  c \in find_marker_candidate(s)
    <2> HIDE DEF n
    <2>1. prefix + n <= Len(s) /\ 4 <= n /\ 4 \in Nat
        BY <1>3, <1>4
    <2> DEFINE q == Slice(s, <<prefix, n>>)
    <2>2. q \in Seq(Nat) /\ Len(q) = n /\ \A i \in 1..n : q[i] = s[prefix + i]
        BY <1>3, <2>1, SliceMeans, Zenon
    <2> HIDE DEF q
    <2>3. q = p
        BY <1>2, <1>4, <2>2, SameElements, Zenon DEF n
    <2>4. Slice(s, <<prefix, 4>>) = MAGIC
        BY <1>1, <1>2, <1>4, <2>1, FirstBytes, Zenon DEF n
    <2> QED
        BY <1>3, <1>4, <2>3, <2>4, CandidateOfPush, Zenon DEF q
<1>5. c \in find_marker_candidate(s)
    <2>1. CASE n <= 75
        <3>1. /\ Len(s) = 2 + n /\ s[1] = OP_RETURN /\ s[2] = n
              /\ \A i \in 1..n : s[2 + i] = p[i]
            BY <1>1, <1>2, <2>1, EncodeShort, Zenon
        <3> HIDE DEF n, c
        <3>2. s[2] \in 1..75
            BY <1>3, <2>1, <3>1
        <3>3. [len |-> n, prefix |-> 2, minimal |-> TRUE] \in DeclaredPush(s)
            BY <3>1, <3>2, Zenon DEF DeclaredPush
        <3>4. 2 \in Nat /\ 2 >= 2
            OBVIOUS
        <3> QED
            BY <1>4, <3>1, <3>3, <3>4, Zenon
    <2>2. CASE ~(n <= 75)
        <3>1. /\ Len(s) = 3 + n /\ s[1] = OP_RETURN /\ s[2] = 76 /\ s[3] = n
              /\ \A i \in 1..n : s[3 + i] = p[i]
            BY <1>1, <1>2, <2>2, EncodeLong, Zenon
        <3> HIDE DEF n, c
        <3>2. s[2] \notin 1..75 /\ Len(s) >= 3 /\ (s[3] >= 76) = TRUE
            BY <1>3, <2>2, <3>1
        <3>3. [len |-> n, prefix |-> 3, minimal |-> TRUE] \in DeclaredPush(s)
            BY <3>1, <3>2, Zenon DEF DeclaredPush
        <3>4. 3 \in Nat /\ 3 >= 2
            OBVIOUS
        <3> QED
            BY <1>4, <3>1, <3>3, <3>4, Zenon
    <2> QED
        BY <2>1, <2>2
<1> DEFINE m == [version |-> p[5], opcode |-> p[7], payload |-> p]
<1>6. m \in parse(c)
    <2>1. /\ c.declared_len = Len(p) /\ c.payload = p
          /\ c.payload_complete /\ c.no_trailing_bytes /\ c.minimal_push
        OBVIOUS
    <2> HIDE DEF c
    <2> QED
        BY <1>1, <2>1, Zenon DEF parse
<1>7. m.payload = p
    OBVIOUS
<1> HIDE DEF c, m
<1> QED
    BY <1>5, <1>6, <1>7, Zenon

\* Detection and parsing together accept exactly the canonical encodings.
LEMMA ParseExactly ==
    ASSUME NEW s \in Seq(Nat)
    PROVE  {m.payload : m \in UNION {parse(c) : c \in find_marker_candidate(s)}} =
             CanonicalPayloads(s)
<1> DEFINE parsed == UNION {parse(c) : c \in find_marker_candidate(s)}
<1>1. ASSUME NEW m \in parsed
      PROVE  m.payload \in CanonicalPayloads(s)
    <2>1. PICK c \in find_marker_candidate(s) : m \in parse(c)
        OBVIOUS
    <2> QED
        BY <2>1, ParsedIsCanonical, Zenon
<1>2. ASSUME NEW p \in CanonicalPayloads(s)
      PROVE  \E m \in parsed : m.payload = p
    <2>1. PICK c \in find_marker_candidate(s) : \E m \in parse(c) : m.payload = p
        BY CanonicalIsParsed, Zenon
    <2>2. PICK m \in parse(c) : m.payload = p
        BY <2>1
    <2>3. m \in parsed
        OBVIOUS
    <2> HIDE DEF parsed
    <2> QED
        BY <2>2, <2>3, Zenon
<1> HIDE DEF parsed
<1>3. {m.payload : m \in parsed} = CanonicalPayloads(s)
    BY <1>1, <1>2
<1> QED
    BY <1>3 DEF parsed

\* The lengths of the defined opcodes.
LEMMA PayloadLens ==
    /\ DOMAIN payload_len = 0..4
    /\ payload_len[0] = 59 /\ payload_len[1] = 40 /\ payload_len[2] = 78
    /\ payload_len[3] = 44 /\ payload_len[4] = 80
<1>1. DOMAIN payload_len = 0..4
    BY DEF payload_len
<1>2. /\ payload_len[0] = <<59, 40, 78, 44, 80>>[0 + 1]
      /\ payload_len[1] = <<59, 40, 78, 44, 80>>[1 + 1]
      /\ payload_len[2] = <<59, 40, 78, 44, 80>>[2 + 1]
      /\ payload_len[3] = <<59, 40, 78, 44, 80>>[3 + 1]
      /\ payload_len[4] = <<59, 40, 78, 44, 80>>[4 + 1]
    BY DEF payload_len
<1> QED
    BY <1>1, <1>2

\* Every field that a validator reads ends within a payload of its opcode.
LEMMA FieldsFit ==
    ASSUME NEW opcode \in 0..4, NEW field \in Fields[opcode]
    PROVE  field[1] + field[2] <= payload_len[opcode]
<1>1. CASE opcode = 0
    <2>1. field \in InitFields
        BY <1>1 DEF Fields, INIT
    <2> QED
        BY <1>1, <2>1, PayloadLens DEF InitFields
<1>2. CASE opcode = 1
    <2>1. field \in {NAMESPACE} \cup CreateFields
        BY <1>2 DEF Fields, INIT
    <2> QED
        BY <1>2, <2>1, PayloadLens DEF CreateFields, NAMESPACE
<1>3. CASE opcode = 2
    <2>1. field \in {NAMESPACE} \cup MarkFields
        BY <1>3 DEF Fields, INIT
    <2> QED
        BY <1>3, <2>1, PayloadLens DEF MarkFields, NAMESPACE
<1>4. CASE opcode = 3
    <2>1. field \in {NAMESPACE} \cup RotateFields
        BY <1>4 DEF Fields, INIT
    <2> QED
        BY <1>4, <2>1, PayloadLens DEF RotateFields, NAMESPACE
<1>5. CASE opcode = 4
    <2>1. field \in {NAMESPACE} \cup CloseFields
        BY <1>5 DEF Fields, INIT
    <2> QED
        BY <1>5, <2>1, PayloadLens DEF CloseFields, NAMESPACE
<1> QED
    BY <1>1, <1>2, <1>3, <1>4, <1>5

\* A marker has the payload of its candidate, of the length of its opcode.
LEMMA ParsedMarker ==
    ASSUME NEW c, NEW m \in parse(c)
    PROVE  /\ m.payload = c.payload /\ m.version = c.payload[5] /\ m.opcode = c.payload[7]
           /\ c.payload_complete
           /\ m.opcode \in DOMAIN payload_len => payload_len[m.opcode] = Len(m.payload)
<1>1. m = [version |-> c.payload[5], opcode |-> c.payload[7], payload |-> c.payload]
    BY Zenon DEF parse
<1>2. /\ c.payload_complete
      /\ c.payload[7] \in DOMAIN payload_len => payload_len[c.payload[7]] = Len(c.payload)
    BY DEF parse
<1>3. m.payload = c.payload /\ m.version = c.payload[5] /\ m.opcode = c.payload[7]
    BY <1>1
<1> QED
    BY <1>2, <1>3, Zenon

\* A script holds one push.
LEMMA OneCandidate ==
    ASSUME NEW s, NEW c \in find_marker_candidate(s), NEW d \in find_marker_candidate(s)
    PROVE  c = d
<1>1. \A p, q \in DeclaredPush(s) : p = q
    BY Zenon DEF DeclaredPush
<1> QED
    BY <1>1, Zenon DEF find_marker_candidate

\* The reducer reads the namespace of a candidate as the parser does.
LEMMA SameNamespace ==
    ASSUME NEW s \in Seq(Nat), NEW c \in find_marker_candidate(s), NEW m \in parse(c)
    PROVE  population_namespace(c) = observed_namespace(m)
<1>1. /\ m.payload = c.payload /\ m.version = c.payload[5] /\ m.opcode = c.payload[7]
      /\ c.payload_complete
      /\ m.opcode \in DOMAIN payload_len => payload_len[m.opcode] = Len(m.payload)
    BY ParsedMarker, Zenon
<1>2. m.payload \in CanonicalPayloads(s)
    BY ParsedIsCanonical, Zenon
<1>3. m.payload \in CanonicalPayloads(s) => Len(m.payload) \in 7..80
    BY Zenon DEF CanonicalPayloads
<1>4. Len(c.payload) > 6
    BY <1>1, <1>2, <1>3
<1>5. opcode_byte(c) = {m.opcode}
    BY <1>1, <1>4 DEF opcode_byte
<1>6. m.opcode \in DOMAIN payload_len \ {INIT} => Len(c.payload) >= 40
    BY <1>1, PayloadLens DEF INIT
<1> QED
    BY <1>1, <1>5, <1>6, Zenon DEF population_namespace, observed_namespace, PopulationOpcode

-----------------------------------------------------------------------------
\* Which inputs belong to which command.
LEMMA InputOfCommand ==
    ASSUME CliInput
    PROVE  /\ input.command = "verify-vectors" => input \in LevelFixtures \cup ScriptFixtures
           /\ input.command = "replay" =>
                \/ input \in BlockReplays
                \/ \E places, contents : input = EventReplay(places, contents)
                \/ \E places, states : input = ObjectReplay(places, states)
<1>1. input \in Locks => input.command = "verify-inputs"
    BY DEF Locks
<1>2. input \in LevelFixtures => input.command = "verify-vectors"
    BY DEF LevelFixtures
<1>3. input \in ScriptFixtures => input.command = "verify-vectors"
    BY DEF ScriptFixtures
<1>4. input \in BlockReplays => input.command = "replay"
    BY DEF BlockReplays
<1>5. \A places, contents : EventReplay(places, contents).command = "replay"
    BY DEF EventReplay
<1>6. \A places, states : ObjectReplay(places, states).command = "replay"
    BY DEF ObjectReplay
<1>7. NoCommand.command = "none"
    BY DEF NoCommand
<1>8. /\ "verify-inputs" # "verify-vectors" /\ "verify-inputs" # "replay" /\ "replay" # "verify-vectors"
      /\ "none" # "replay" /\ "none" # "verify-vectors"
    OBVIOUS
<1>9. \/ input \in Locks \/ input \in LevelFixtures \/ input \in ScriptFixtures
      \/ input \in BlockReplays
      \/ \E places, contents : input = EventReplay(places, contents)
      \/ \E places, states : input = ObjectReplay(places, states)
      \/ input = NoCommand
    BY Zenon DEF CliInput
<1> QED
    BY <1>1, <1>2, <1>3, <1>4, <1>5, <1>6, <1>7, <1>8, <1>9, Zenon

\* The script of every fixture is a sequence of numbers.
LEMMA FixtureScript ==
    ASSUME NEW i, i \in LevelFixtures \cup ScriptFixtures
    PROVE  i.script \in Seq(Nat)
<1>1. MarkScript \in Seq(Nat)
    <2>1. payload_len[2] \in Nat /\ VERSION \in Nat /\ 2 \in Nat
        BY PayloadLens DEF VERSION
    <2>2. Body(payload_len[2], MAGIC, VERSION, 2) \in Seq(Nat)
        BY <2>1, BodyTyped, MagicTyped, Zenon
    <2> QED
        BY <2>2, EncodeShort, EncodeLong, Zenon DEF MarkScript
<1>2. i \in LevelFixtures => i.script = MarkScript
    BY DEF LevelFixtures
<1>3. i \in ScriptFixtures => i.script \in Scripts
    BY DEF ScriptFixtures
<1> QED
    BY <1>1, <1>2, <1>3, ScriptsTyped, Zenon

\* Until a marker is searched for.
Early == {"start", "files", "identity", "detect"}

\* What parsing the candidate of a script gives.
ParsedOf(script) == UNION {parse(c) : c \in find_marker_candidate(script)}

\* The candidate and the marker are those of the script from the step that
\* computes them on; a refusal has computed them, too.
MarkerInv ==
    /\ at \notin {"start", "files"} => input.command = "verify-vectors"
    /\ input.command = "verify-vectors" => input.script \in Seq(Nat)
    /\ at \in Early => candidate = {} /\ marker = {}
    /\ at = "detect" /\ result = "error" => find_marker_candidate(input.script) = {}
    /\ at \notin Early => candidate = find_marker_candidate(input.script)
    /\ at = "parse" /\ result # "error" => marker = {}
    /\ at = "parse" /\ result = "error" => marker = ParsedOf(input.script)
    /\ at \notin Early \cup {"parse"} => marker = ParsedOf(input.script)

\* It holds of every input.
LEMMA MarkerInit == CliInit => MarkerInv
<1> SUFFICES ASSUME CliInit
             PROVE  MarkerInv
    OBVIOUS
<1>1. /\ at = "start" /\ candidate = {} /\ marker = {} /\ result = "running"
      /\ CliInput
    BY DEF CliInit
<1>2. input.command = "verify-vectors" => input.script \in Seq(Nat)
    BY <1>1, InputOfCommand, FixtureScript, Zenon
<1> QED
    BY <1>1, <1>2 DEF MarkerInv, Early

\* A step that leaves the script's candidate and marker alone keeps the
\* invariant, whether it moves on or ends the run.
LEMMA MoveKeepsMarker ==
    ASSUME MarkerInv, UNCHANGED <<input, candidate, marker>>,
           \/ at' = at /\ at \notin {"detect", "parse"}
           \/ /\ at \in Early /\ at' \in Early /\ result' # "error"
              /\ at' \in {"start", "files"} \/ input.command = "verify-vectors"
           \/ /\ at \notin Early \cup {"parse"} /\ at' \notin Early \cup {"parse"}
    PROVE  MarkerInv'
<1> QED
    BY DEF MarkerInv, Early

\* Every step of a command keeps the invariant.
LEMMA MarkerStep == MarkerInv /\ CliNext => MarkerInv'
<1> SUFFICES ASSUME MarkerInv, CliNext
             PROVE  MarkerInv'
    OBVIOUS
<1>1. CASE CheckLock
    BY <1>1, MoveKeepsMarker DEF CheckLock, Running, Ensure, Error, Early
<1>2. CASE CheckFile
    BY <1>2, MoveKeepsMarker DEF CheckFile, Running, Error, Report, Early
<1>3. CASE ReportInputs
    BY <1>3, MoveKeepsMarker DEF ReportInputs, Running, Error, Report, Early
<1>4. CASE CheckManifest
    BY <1>4, MoveKeepsMarker DEF CheckManifest, Running, Ensure, Error, Early
<1>5. CASE CheckIdentity
    BY <1>5, MoveKeepsMarker DEF CheckIdentity, Running, Ensure, Error, Early
<1>6. CASE DetectMarker
    <2>1. /\ at = "detect" /\ result = "running" /\ input.command = "verify-vectors"
          /\ candidate' = find_marker_candidate(input.script)
          /\ UNCHANGED <<input, marker>>
          /\ IF candidate' = {} THEN result' = "error" /\ at' = at
             ELSE at' = "parse" /\ result' = result
        BY <1>6 DEF DetectMarker, Running
    <2> QED
        BY <2>1 DEF MarkerInv, Early
<1>7. CASE ParseMarker
    <2>1. /\ at = "parse" /\ result = "running" /\ input.command = "verify-vectors"
          /\ marker' = UNION {parse(c) : c \in candidate}
          /\ UNCHANGED <<input, candidate>>
          /\ IF marker' = {} THEN result' = "error" /\ at' = at
             ELSE at' = "opcode" /\ result' = result
        BY <1>7 DEF ParseMarker, Running
    <2>2. marker' = ParsedOf(input.script)
        BY <2>1 DEF MarkerInv, Early, ParsedOf
    <2> QED
        BY <2>1, <2>2 DEF MarkerInv, Early
<1>8. CASE CheckMarker
    BY <1>8, MoveKeepsMarker DEF CheckMarker, Running, Ensure, Error, Early
<1>9. CASE CheckCarrier
    BY <1>9, MoveKeepsMarker DEF CheckCarrier, Running, Ensure, Error, Early
<1>10. CASE CheckLeaves
    BY <1>10, MoveKeepsMarker DEF CheckLeaves, Running, Ensure, Error, Early
<1>11. CASE CheckLevelList
    BY <1>11, MoveKeepsMarker DEF CheckLevelList, Running, Ensure, Error, Early
<1>12. CASE CheckLevel
    BY <1>12, MoveKeepsMarker DEF CheckLevel, Running, Error, Report, Early
<1>13. CASE CheckRoot
    BY <1>13, MoveKeepsMarker DEF CheckRoot, Running, Error, Early
<1>14. CASE CheckBlockRoot
    BY <1>14, MoveKeepsMarker DEF CheckBlockRoot, Running, Error, Report, Early
<1>15. CASE ReplayBlock
    BY <1>15, MoveKeepsMarker DEF ReplayBlock, Running, Error, Report, Early
<1>16. CASE ReportReplay
    BY <1>16, MoveKeepsMarker DEF ReportReplay, Running, Error, Report, Early
<1> QED
    BY <1>1, <1>2, <1>3, <1>4, <1>5, <1>6, <1>7, <1>8,
       <1>9, <1>10, <1>11, <1>12, <1>13, <1>14, <1>15, <1>16 DEF CliNext

\* It implies the three properties of detection and parsing.
LEMMA MarkerInvImplies ==
    MarkerInv => ParsesExactlyCanonical /\ FieldsWithinPayload /\ NamespacesAgree
<1> SUFFICES ASSUME MarkerInv
             PROVE  ParsesExactlyCanonical /\ FieldsWithinPayload /\ NamespacesAgree
    OBVIOUS
<1>1. marker # {} \/ MarkerRefused =>
        input.script \in Seq(Nat) /\ marker = ParsedOf(input.script)
    <2>1. CASE at \in Early
        <3>1. MarkerRefused => find_marker_candidate(input.script) = {}
            BY <2>1, Zenon DEF MarkerInv, MarkerRefused, Early
        <3>2. MarkerRefused => ParsedOf(input.script) = {}
            BY <3>1 DEF ParsedOf
        <3> QED
            BY <2>1, <3>2, Zenon DEF MarkerInv, Early, MarkerRefused
    <2>2. CASE at \notin Early
        BY <2>2 DEF MarkerInv, Early, MarkerRefused
    <2> QED
        BY <2>1, <2>2
<1>2. ParsesExactlyCanonical
    BY <1>1, ParseExactly, Zenon DEF ParsesExactlyCanonical, ParsedOf
<1>3. ASSUME NEW m \in marker
      PROVE  /\ input.script \in Seq(Nat)
             /\ \E c \in find_marker_candidate(input.script) : m \in parse(c)
    <2>1. input.script \in Seq(Nat) /\ m \in ParsedOf(input.script)
        BY <1>1
    <2> QED
        BY <2>1, Zenon DEF ParsedOf
<1>4. FieldsWithinPayload
    <2> SUFFICES ASSUME NEW m \in marker, m.opcode \in DOMAIN Fields,
                        NEW field \in Fields[m.opcode]
                 PROVE  field[1] + field[2] <= Len(m.payload)
        BY DEF FieldsWithinPayload
    <2>1. m.opcode \in 0..4
        BY DEF Fields
    <2>2. field[1] + field[2] <= payload_len[m.opcode]
        BY <2>1, FieldsFit
    <2>3. PICK c \in find_marker_candidate(input.script) : m \in parse(c)
        BY <1>3
    <2>4. payload_len[m.opcode] = Len(m.payload)
        BY <2>1, <2>3, ParsedMarker, PayloadLens, Zenon
    <2> QED
        BY <2>2, <2>4, Zenon
<1>5. NamespacesAgree
    <2> SUFFICES ASSUME NEW c \in candidate, NEW m \in marker
                 PROVE  population_namespace(c) = observed_namespace(m)
        BY DEF NamespacesAgree
    <2>1. PICK d \in find_marker_candidate(input.script) : m \in parse(d)
        BY <1>3
    <2>2. c \in find_marker_candidate(input.script)
        BY DEF MarkerInv, Early
    <2>3. c = d
        BY <2>2, OneCandidate, Zenon
    <2> QED
        BY <1>3, <2>1, <2>2, <2>3, SameNamespace, Zenon
<1> QED
    BY <1>2, <1>4, <1>5

\* Steps of a command change the command's state, steps of the verifier not.
LEMMA ProgramsStep ==
    ASSUME [Command \/ Verifier]_<<cliVars, startupVars>>
    PROVE  CliNext \/ UNCHANGED cliVars
<1> QED
    BY DEF Command, Verifier

\* A command keeps what it knows of its script.
LEMMA MarkerInvariant == ProgramsSpec => []MarkerInv
<1>1. ProgramsInit => MarkerInv
    BY MarkerInit DEF ProgramsInit
<1>2. MarkerInv /\ [Command \/ Verifier]_<<cliVars, startupVars>> => MarkerInv'
    <2> SUFFICES ASSUME MarkerInv, [Command \/ Verifier]_<<cliVars, startupVars>>
                 PROVE  MarkerInv'
        OBVIOUS
    <2>1. CASE CliNext
        BY <2>1, MarkerStep
    <2>2. CASE UNCHANGED cliVars
        BY <2>2 DEF cliVars, MarkerInv
    <2> QED
        BY <2>1, <2>2, ProgramsStep
<1> QED
    BY <1>1, <1>2, PTL DEF ProgramsSpec

\* verify-vectors parses exactly the canonical encodings, of payloads of any
\* legal length behind any opcode byte, however the script was put together.
THEOREM CanonicalScriptsParse == ProgramsSpec => []ParsesExactlyCanonical
<1> QED
    BY MarkerInvariant, MarkerInvImplies, PTL

\* No field access of the reducer on a parsed marker is out of bounds.
THEOREM FieldAccessInBounds == ProgramsSpec => []FieldsWithinPayload
<1> QED
    BY MarkerInvariant, MarkerInvImplies, PTL

\* The reducer and the parser take the same namespace from every marker.
THEOREM NamespaceReadingsAgree == ProgramsSpec => []NamespacesAgree
<1> QED
    BY MarkerInvariant, MarkerInvImplies, PTL
================================================================================
