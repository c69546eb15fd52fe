-------------------------------- MODULE Startup --------------------------------
(***************************************************************************)
(* The start of the service (main.rs): configuration with its mainnet gate *)
(* (config.rs), signing seed (signer.rs), database binding (store.rs) and  *)
(* wakeup, in the order main passes them, then the worker and the socket.  *)
(* The process may be started again and again, with other arguments, on    *)
(* one database.                                                           *)
(*                                                                         *)
(* A specification is a short text over the bytes its contract mentions,   *)
(* and its digest is the text.  An approver is a name, possibly padded     *)
(* with blanks.  Arguments that are only parsed and compared with a format *)
(* (URLs, commits, key id, poll interval, credentials) are one fact.       *)
(***************************************************************************)
EXTENDS Lists

CONSTANTS
    Names,           \* names of approvers
    MaxSpecBytes,    \* bound on the length of specifications
    MaxApprovers     \* bound on the approvers an authorization lists

ASSUME StartupAssumption == MaxSpecBytes \in Nat /\ MaxApprovers \in Nat /\ "" \notin Names

VARIABLES
    args,         \* arguments of the process, files they name included
    stage,        \* the check main is at
    binding,      \* the binding stored in protocol_state: set with at most one
    authorized    \* history: mainnet bindings two people have signed off so far

startupVars == <<args, stage, binding, authorized>>

-----------------------------------------------------------------------------
(* The specification's byte contract. *)

\* bad: bytes that are not UTF-8.
Byte == {"a", "space", "tab", "lf", "cr", "bom", "bad"}
Blanks == {"space", "tab"}

\* split(|byte| *byte == b'\n'): the pieces before, between and after the LFs.
Lines(text) ==
    LET cuts == {0, Len(text) + 1} \cup {i \in DOMAIN text : text[i] = "lf"}
    IN  {SubSeq(text, p[1] + 1, p[2] - 1) :
            p \in {q \in cuts \X cuts : q[1] < q[2] /\ ~\E k \in cuts : q[1] < k /\ k < q[2]}}

\* Fault: only the end of the file is looked at for blanks.
NoTrailingBlankAtEnd(text) == Len(text) > 1 => text[Len(text) - 1] \notin Blanks

NoTrailingBlank(text) == \A line \in Lines(text) : line # <<>> => Last(line) \notin Blanks

verify_spec_bytes(text) ==
    /\ ~IsPrefix(<<"bom">>, text)
    /\ ~Contains(text, "bad")
    /\ ~Contains(text, "cr")
    /\ IsSuffix(<<"lf">>, text)
    /\ ~IsSuffix(<<"lf", "lf">>, text)
    /\ NoTrailingBlank(text)

-----------------------------------------------------------------------------
(* The mainnet gate. *)

protocol_id(a) == <<a.network, a.init_txid>>

BindingOf(a) == [network |-> a.network, init_txid |-> a.init_txid, spec_hash |-> a.spec]

\* Fault: the names are compared as written.
trim_nothing(approver) == approver

trim(approver) == [approver EXCEPT !.padded = FALSE]

named_approvers(approved_by) == {trim(x) : x \in Range(approved_by)} \ {[padded |-> FALSE, name |-> ""]}

\* intact: the file is there, has the digest given, parses and has the schema.
validate_mainnet_gate(a) ==
    a.network = "mainnet" =>
        /\ a.allow_mainnet
        /\ a.authorization.intact
        /\ a.authorization.protocol_id = protocol_id(a)
        /\ a.authorization.spec_hash = a.spec
        /\ Cardinality(named_approvers(a.authorization.approved_by)) >= 2
        /\ a.authorization.approved_at

-----------------------------------------------------------------------------
(* Arguments. *)

Approver == [padded : BOOLEAN, name : Names \cup {""}]
Spec1 == <<"a", "lf">>
Spec2 == <<"lf">>

Authorization ==
    [intact : BOOLEAN, protocol_id : {<<"mainnet", 1>>, <<"mainnet", 2>>, <<"regtest", 1>>},
     spec_hash : {Spec1, Spec2}, approved_by : SeqOf(Approver, MaxApprovers),
     approved_at : BOOLEAN]

Unauthorized ==
    [intact |-> FALSE, protocol_id |-> <<"mainnet", 1>>, spec_hash |-> Spec1, approved_by |-> <<>>,
     approved_at |-> FALSE]

\* Init txid 0 is the zero hash.
Arguments ==
    [network : {"regtest", "mainnet"}, init_txid : {0, 1, 2}, spec : {Spec1, Spec2},
     spec_sha256 : {Spec1}, rest : {TRUE}, seed : BOOLEAN, wakeup : BOOLEAN, listen : BOOLEAN,
     allow_mainnet : {FALSE}, authorization : {Unauthorized}]
    \cup
    [network : {"mainnet"}, init_txid : {1}, spec : {Spec1, Spec2}, spec_sha256 : {Spec1, Spec2},
     rest : BOOLEAN, seed : {TRUE}, wakeup : BOOLEAN, listen : {TRUE},
     allow_mainnet : BOOLEAN, authorization : Authorization]
    \cup
    [network : {"regtest"}, init_txid : {1}, spec : SeqOf(Byte, MaxSpecBytes), spec_sha256 : {Spec1},
     rest : {TRUE}, seed : {TRUE}, wakeup : {TRUE}, listen : {TRUE},
     allow_mainnet : {FALSE}, authorization : {Unauthorized}]

\* Arguments of no process.
NoArgs ==
    [network |-> "regtest", init_txid |-> 0, spec |-> <<>>, spec_sha256 |-> <<>>, rest |-> FALSE,
     seed |-> FALSE, wakeup |-> FALSE, listen |-> FALSE, allow_mainnet |-> FALSE,
     authorization |-> Unauthorized]

-----------------------------------------------------------------------------
(* main. *)

\* Two different people have signed off exactly this binding for mainnet.
SignedOff(a) ==
    /\ a.allow_mainnet
    /\ a.authorization.protocol_id = protocol_id(a)
    /\ a.authorization.spec_hash = a.spec
    /\ \E x, y \in Range(a.authorization.approved_by) :
        x.name # y.name /\ x.name # "" /\ y.name # ""

Launch ==
    /\ stage = "stopped"
    /\ args' \in Arguments
    /\ stage' = "init_txid"
    /\ authorized' = authorized \cup
        (IF args'.network = "mainnet" /\ SignedOff(args') THEN {BindingOf(args')} ELSE {})
    /\ UNCHANGED binding

\* An error ends the process.
Check(label, check, next) ==
    /\ stage = label
    /\ stage' = IF check THEN next ELSE "exited"
    /\ UNCHANGED <<args, binding, authorized>>

CheckInitTxid == Check("init_txid", args.init_txid # 0, "spec_bytes")
CheckSpecBytes == Check("spec_bytes", verify_spec_bytes(args.spec), "spec_hash")
CheckSpecHash == Check("spec_hash", args.spec = args.spec_sha256, "rest")
CheckRest == Check("rest", args.rest, "mainnet")
CheckMainnet == Check("mainnet", validate_mainnet_gate(args), "signer")
LoadSigner == Check("signer", args.seed, "connect")

\* bind_or_load: a first start inserts the binding, a later one compares it.
BindOrLoad ==
    /\ stage = "connect"
    /\ IF binding = {} THEN binding' = {BindingOf(args)} /\ stage' = "wakeup"
       ELSE /\ stage' = IF binding = {BindingOf(args)} THEN "wakeup" ELSE "exited"
            /\ UNCHANGED binding
    /\ UNCHANGED <<args, authorized>>

\* PostgreSQL does not answer.
ConnectFails == Check("connect", FALSE, "exited")

\* ZMQ without the feature or without a socket.
BuildWakeup == Check("wakeup", args.wakeup, "listen")

\* The worker is spawned before the socket is bound.
Listen == Check("listen", args.listen, "serving")

\* The process has ended, by an error, a signal or a crash.
Stop ==
    /\ stage # "stopped"
    /\ stage' = "stopped"
    /\ args' = NoArgs
    /\ UNCHANGED <<binding, authorized>>

StartupInit ==
    /\ args = NoArgs
    /\ stage = "stopped"
    /\ binding = {}
    /\ authorized = {}

StartupNext ==
    \/ Launch \/ CheckInitTxid \/ CheckSpecBytes \/ CheckSpecHash \/ CheckRest \/ CheckMainnet
    \/ LoadSigner \/ BindOrLoad \/ ConnectFails \/ BuildWakeup \/ Listen \/ Stop

StartupSpec == StartupInit /\ [][StartupNext]_startupVars

-----------------------------------------------------------------------------
(* Properties. *)

\* Nothing of mainnet without two people: a database is bound to a mainnet
\* deployment only if an authorization by two different people for exactly that
\* deployment was given to this or to an earlier start, also where that start
\* failed at a later gate; and a worker runs on mainnet only if this start was
\* given one, whatever the database already holds.
MainnetNeedsTwoPeople ==
    /\ \A b \in binding : b.network = "mainnet" => b \in authorized
    /\ stage \in {"listen", "serving"} /\ args.network = "mainnet" => SignedOff(args)

\* docs/protocol-inputs.md: no byte order mark, valid UTF-8, no carriage return,
\* exactly one trailing LF and no trailing blank on any line.  The byte checks
\* accept exactly the texts of that form.
SpecContractExact ==
    stage = "spec_bytes" =>
        LET t == args.spec IN
        verify_spec_bytes(t) <=>
            /\ t # <<>> /\ t[Len(t)] = "lf"
            /\ \A i \in DOMAIN t :
                /\ t[i] \notin {"cr", "bad"}
                /\ t[i] = "bom" => i > 1
                /\ t[i] \in Blanks => t[i + 1] # "lf"
                /\ t[i] = "lf" => i = Len(t) \/ ~(\A j \in i..Len(t) : t[j] = "lf")
===============================================================================
