------------------------------ MODULE CommandLine ------------------------------
(***************************************************************************)
(* One run of the command line tool (tandem-cli): verify-inputs,           *)
(* verify-vectors or replay of one input, which ends with a report or an   *)
(* error.  One step per loop iteration or per check that returns early.    *)
(* The scripts of a fixture go through Marker, its levels and the blocks   *)
(* of a replay through Merkle, whose digests are terms.                    *)
(*                                                                         *)
(* An input keeps what the checks tell apart.  What the reducer makes of a *)
(* replayed block is part of the block: refused, or the events and objects *)
(* it hands to roots.rs, in whatever order.                                *)
(***************************************************************************)
EXTENDS Marker, Merkle

CONSTANTS
    Leaves,       \* leaf digests of fixtures
    MaxLeaves,    \* bound on leaves of a fixture
    MaxLevels,    \* bound on Merkle levels of a fixture
    MaxFiles,     \* bound on locked files, and on blocks and roots of a replay
    Positions,    \* positions of events and keys of objects
    MaxObjects    \* bound on objects of a block

ASSUME CommandLineAssumption ==
    /\ MaxLeaves \in Nat /\ MaxLevels \in Nat /\ MaxFiles \in Nat /\ MaxObjects \in Nat
    /\ Positions \subseteq Nat

VARIABLES
    input,       \* the files read, never changed
    at,          \* next check
    index,       \* next element of the loop
    candidate,   \* Option<MarkerCandidate> of the fixture's script
    marker,      \* the ParsedMarker of a parse that succeeds
    derived,     \* hashes, roots or heights computed so far
    result       \* "running", "report" or "error"

cliVars == <<input, at, index, candidate, marker, derived, result>>

DOMAIN_NODE == "EVENT-NODE"

-----------------------------------------------------------------------------
(* Inputs. *)

\* A locked file: its path is plain, it can be read, its digest is the locked.
File == [plain : BOOLEAN, readable : BOOLEAN, matches : BOOLEAN]

Locks == [command : {"verify-inputs"}, schema : BOOLEAN, files : SeqOf(File, MaxFiles)]

\* The levels above a first level, each the parents of the one below, n in all.
LevelsFrom(first, n) ==
    LET level[k \in 1..n] == IF k = 1 THEN first ELSE Parents(level[k - 1], DOMAIN_NODE)
    IN  level

\* Levels declared over a first level: right ones of any height, ones with a
\* wrong or a missing hash in one level, and none.
WrongHash == <<"WRONG">>
DeclaredLevels(first) ==
    LET right == {LevelsFrom(first, n) : n \in 1..MaxLevels}
    IN  {<<>>} \cup right
        \cup (UNION {{[l EXCEPT ![k] = [@ EXCEPT ![1] = WrongHash]] : k \in DOMAIN l} : l \in right})
        \cup (UNION {{[l EXCEPT ![k] = Tail(@)] : k \in DOMAIN l} : l \in right})

\* The one check that a fixture with well-formed script and levels fails:
\* manifest: a schema, name or digest, or the fixture's header; identity;
\* operation: the opcode or its length; sizes: of script or payload; carrier;
\* preimages: a leaf is not the digest of its preimage; reported: the reported
\* root is not the first hash of the last level; block_root: the chained root
\* is not that of the fixture's own first event, snapshots and roots.
Flaw == {"none", "manifest", "identity", "operation", "sizes", "carrier", "preimages",
         "reported", "block_root"}

MarkScript == Encode(Body(payload_len[2], MAGIC, VERSION, 2))

\* Levels over the fixture's leaves, or over the same ones in another order.
LevelFixtures ==
    UNION {[command : {"verify-vectors"}, flaw : Flaw, script : {MarkScript}, leaves : {leaves},
            levels : DeclaredLevels(leaves) \cup DeclaredLevels(Reverse(leaves))] :
           leaves \in SeqOf(Leaves, MaxLeaves) \ {<<>>}}

ScriptFixtures ==
    [command : {"verify-vectors"}, flaw : {"none"}, script : Scripts,
     leaves : {<<WrongHash>>}, levels : {<<<<WrongHash>>>>}]

Block(events, objects) == [accepted |-> TRUE, events |-> events, objects |-> objects]
Block1 == Block(<<[position |-> 1, content |-> 1]>>, <<>>)
Block2 == Block(<<[position |-> 1, content |-> 2]>>, <<>>)
Refused == [Block1 EXCEPT !.accepted = FALSE]

\* delta.roots of the i-th block.
HeightRoots(previous, i, block) ==
    LET events  == event_root(block.events)
        objects == object_state_root(block.objects)
    IN  [event_root |-> events, object_state_root |-> objects,
         chained_root |-> block_root(previous, <<"hash", i>>, i, events, objects,
                                     Len(block.objects))]

STATE_EMPTY == <<"STATE-EMPTY">>

ReplayRoots(blocks) ==
    LET roots[i \in DOMAIN blocks] ==
            HeightRoots(IF i = 1 THEN STATE_EMPTY ELSE roots[i - 1].chained_root, i, blocks[i])
    IN  roots

\* Replays of several blocks with shorter, longer, other and no expected roots.
BlockReplays ==
    [command : {"replay"}, blocks : SeqOf({Block1, Block2, Refused}, MaxFiles),
     expected_roots : {ReplayRoots(blocks) : blocks \in SeqOf({Block1, Block2}, MaxFiles)}]

\* Replays of one block with any events, distinct in their positions, or any
\* objects, distinct in their keys: places lists the positions or keys.
EventReplay(places, contents) ==
    [command |-> "replay", expected_roots |-> <<>>,
     blocks |-> <<Block([i \in DOMAIN places |->
                           [position |-> places[i], content |-> contents[i]]], <<>>)>>]

\* Status, outpoint, terminal txid and other fields of an object.
ObjectStates == {<<"Active", 1, ZERO, 1>>, <<"Active", 2, ZERO, 1>>, <<"Active", 2, ZERO, 2>>,
                 <<"Closed", ZERO, 1, 1>>, <<"Refunded", ZERO, 1, 1>>}

ObjectReplay(places, states) ==
    [command |-> "replay", expected_roots |-> <<>>,
     blocks |-> <<Block(<<>>, [i \in DOMAIN places |->
                                [object_key |-> places[i], fields |-> states[i][4],
                                 status |-> states[i][1],
                                 current_outpoint |-> states[i][2],
                                 terminal_txid |-> states[i][3]]])>>]

-----------------------------------------------------------------------------
(* The steps. *)

Error ==
    /\ result' = "error"
    /\ UNCHANGED <<input, at, index, candidate, marker, derived>>

Report ==
    /\ result' = "report"
    /\ UNCHANGED <<input, at, index, candidate, marker, derived>>

Ensure(check, next) ==
    IF check THEN /\ at' = next
                  /\ UNCHANGED <<input, index, candidate, marker, derived, result>>
    ELSE Error

Running(command, label) == result = "running" /\ input.command = command /\ at = label

\* The schema, and a lock that is not empty.
CheckLock ==
    /\ Running("verify-inputs", "start")
    /\ Ensure(input.schema /\ input.files # <<>>, "files")

CheckFile ==
    /\ Running("verify-inputs", "files")
    /\ index <= Len(input.files)
    /\ LET f == input.files[index] IN
       IF f.plain /\ f.readable /\ f.matches
       THEN /\ index' = index + 1
            /\ derived' = Append(derived, index)
            /\ UNCHANGED <<input, at, candidate, marker, result>>
       ELSE Error

ReportInputs ==
    /\ Running("verify-inputs", "files")
    /\ index > Len(input.files)
    /\ Report

CheckManifest ==
    /\ Running("verify-vectors", "start")
    /\ Ensure(input.flaw # "manifest", "identity")

\* verify_identity
CheckIdentity ==
    /\ Running("verify-vectors", "identity")
    /\ Ensure(input.flaw # "identity", "detect")

\* verify_markers, its loop for one marker: "marker was not detected".
DetectMarker ==
    /\ Running("verify-vectors", "detect")
    /\ candidate' = find_marker_candidate(input.script)
    /\ IF candidate' = {} THEN result' = "error" /\ UNCHANGED at
       ELSE at' = "parse" /\ UNCHANGED result
    /\ UNCHANGED <<input, index, marker, derived>>

\* "marker parse failed"
ParseMarker ==
    /\ Running("verify-vectors", "parse")
    /\ marker' = UNION {parse(c) : c \in candidate}
    /\ IF marker' = {} THEN result' = "error" /\ UNCHANGED at
       ELSE at' = "opcode" /\ UNCHANGED result
    /\ UNCHANGED <<input, index, candidate, derived>>

\* The opcode is the one of the fixture's operation, which is a defined one;
\* then the sizes.
CheckMarker ==
    /\ Running("verify-vectors", "opcode")
    /\ Ensure(/\ input.flaw \notin {"operation", "sizes"}
              /\ \A m \in marker : m.opcode \in DOMAIN payload_len, "carrier")

\* verify_carrier
CheckCarrier ==
    /\ Running("verify-vectors", "carrier")
    /\ Ensure(input.flaw # "carrier", "leaves")

\* verify_preimage_leaves
CheckLeaves ==
    /\ Running("verify-vectors", "leaves")
    /\ Ensure(input.flaw # "preimages", "levels")

\* An empty list of levels is refused.
CheckLevelList ==
    /\ Running("verify-vectors", "levels")
    /\ Ensure(input.levels # <<>>, "windows")

\* Fault: the widths of the two levels are not compared.
LevelFollowsAnyWidth(children, parents) ==
    \A i \in DOMAIN parents :
        2 * i <= Len(Padded(children)) =>
            parents[i] = <<DOMAIN_NODE, Padded(children)[2 * i - 1], Padded(children)[2 * i]>>

\* An empty level stays empty; an odd one repeats its last hash.
LevelFollows(children, parents) ==
    LET even == IF Len(children) % 2 = 1 THEN Append(children, Last(children)) ELSE children
    IN  /\ Len(parents) = Len(even) \div 2
        /\ \A i \in DOMAIN parents : parents[i] = <<DOMAIN_NODE, even[2 * i - 1], even[2 * i]>>

\* levels.windows(2)
CheckLevel ==
    /\ Running("verify-vectors", "windows")
    /\ index < Len(input.levels)
    /\ IF LevelFollows(input.levels[index], input.levels[index + 1])
       THEN /\ index' = index + 1
            /\ UNCHANGED <<input, at, candidate, marker, derived, result>>
       ELSE Error

\* The root is the first hash of the last level.  The event tree stands for
\* both trees; the object tree goes through the same function after it.
CheckRoot ==
    /\ Running("verify-vectors", "windows")
    /\ index >= Len(input.levels)
    /\ IF Last(input.levels) # <<>> /\ input.flaw # "reported"
       THEN /\ derived' = <<Last(input.levels)[1]>>
            /\ at' = "block_root"
            /\ UNCHANGED <<input, index, candidate, marker, result>>
       ELSE Error

\* verify_block_root, and the report.
CheckBlockRoot ==
    /\ Running("verify-vectors", "block_root")
    /\ IF input.flaw # "block_root" THEN Report ELSE Error

\* Fault: a root is compared only when the block is not the last.
ExpectedRootMatchesEarly(i, root) ==
    i < Len(input.expected_roots) => input.expected_roots[i] = root

\* input.expected_roots.get(index)
ExpectedRootMatches(i, root) ==
    i <= Len(input.expected_roots) => input.expected_roots[i] = root

ReplayBlock ==
    /\ Running("replay", "start")
    /\ index <= Len(input.blocks)
    /\ LET block    == input.blocks[index]
           previous == IF derived = <<>> THEN STATE_EMPTY ELSE Last(derived).chained_root
           roots    == HeightRoots(previous, index, block)
       IN  IF block.accepted /\ ExpectedRootMatches(index, roots)
           THEN /\ index' = index + 1
                /\ derived' = Append(derived, roots)
                /\ UNCHANGED <<input, at, candidate, marker, result>>
           ELSE Error

ReportReplay ==
    /\ Running("replay", "start")
    /\ index > Len(input.blocks)
    /\ IF input.expected_roots = <<>> \/ Len(input.expected_roots) = Len(derived)
       THEN Report ELSE Error

\* The files of a run; those of no command are NoCommand.
NoCommand == [command |-> "none"]

CliInput ==
    \/ input \in Locks \/ input \in LevelFixtures \/ input \in ScriptFixtures
    \/ input \in BlockReplays
    \/ \E n \in 0..Cardinality(Positions) :
        \E places \in Injection(1..n, Positions), contents \in [1..n -> {1, 2}] :
            input = EventReplay(places, contents)
    \/ \E n \in 0..MaxObjects :
        \E places \in Injection(1..n, Positions), states \in [1..n -> ObjectStates] :
            input = ObjectReplay(places, states)
    \/ input = NoCommand

CliInit ==
    /\ CliInput
    /\ at = "start"
    /\ index = 1
    /\ candidate = {} /\ marker = {}
    /\ derived = <<>>
    /\ result = "running"

CliNext ==
    \/ CheckLock \/ CheckFile \/ ReportInputs
    \/ CheckManifest \/ CheckIdentity \/ DetectMarker \/ ParseMarker \/ CheckMarker
    \/ CheckCarrier \/ CheckLeaves
    \/ CheckLevelList \/ CheckLevel \/ CheckRoot \/ CheckBlockRoot
    \/ ReplayBlock \/ ReportReplay

-----------------------------------------------------------------------------
(* Properties. *)

MarkerRefused == result = "error" /\ at \in {"detect", "parse"}

\* A script parses exactly when it is the canonical encoding of a payload of
\* legal length, and then to that payload: no truncated, padded or longer
\* encoding of a marker passes, and no encoding at a limit (75 and 76 bytes,
\* 7 and 80 bytes) is refused.
ParsesExactlyCanonical ==
    MarkerRefused \/ marker # {} =>
        {m.payload : m \in marker} = CanonicalPayloads(input.script)

\* u32_at, u64_at, hash_at and payload[..] never panic: every field that the
\* reducer reads from a parsed marker lies within its payload.
FieldsWithinPayload ==
    \A m \in marker : m.opcode \in DOMAIN Fields =>
        \A field \in Fields[m.opcode] : field[1] + field[2] <= Len(m.payload)

\* The namespace the reducer takes from a candidate is the one the parsed
\* marker carries: the two readings agree on every marker that parses.
NamespacesAgree ==
    \A c \in candidate, m \in marker : population_namespace(c) = observed_namespace(m)

\* verify_merkle_levels and the merkle of roots.rs, two programs for one tree,
\* agree: levels that start with a fixture's leaves and narrow to one hash in
\* the last level are accepted only if that hash is the Merkle root of the
\* leaves.
AcceptedRootIsMerkle ==
    /\ input.command = "verify-vectors"
    /\ at = "block_root"
    /\ input.levels[1] = input.leaves
    /\ \A k \in DOMAIN input.levels : Len(input.levels[k]) = 1 <=> k = Len(input.levels)
    => derived = <<merkle(input.leaves, DOMAIN_NODE)>>

\* A replay that reports compared every derived root with the one expected at
\* its place, if any is expected: no shorter, longer or later list slips by.
ReplayMatchesExpected ==
    input.command = "replay" /\ result = "report" =>
        /\ derived = ReplayRoots(input.blocks)
        /\ input.expected_roots \in {<<>>, derived}
===============================================================================
