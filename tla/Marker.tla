-------------------------------- MODULE Marker ---------------------------------
(***************************************************************************)
(* Marker detection and parsing (marker.rs), byte by byte, with the fields *)
(* the reducer reads from a parsed marker.  A script is a sequence of      *)
(* bytes; an Option is a set with at most one element.                     *)
(*                                                                         *)
(* The scripts are a push header, one declared length in one of the four   *)
(* push encodings, and a body of its own physical length, or a cut header. *)
(***************************************************************************)
EXTENDS Lists

CONSTANTS
    Lengths,       \* declared and physical payload lengths of the scripts
    OpcodeBytes    \* opcode bytes of the scripts

ASSUME MarkerAssumption ==
    /\ Lengths \subseteq Nat /\ \A n \in Lengths : n < 65536
    /\ OpcodeBytes \subseteq Nat /\ \A b \in OpcodeBytes : b < 256

-----------------------------------------------------------------------------
(* The format. *)

OP_RETURN == 106
MAGIC == <<84, 78, 68, 77>>
VERSION == 1
INIT == 0

\* Fault: the two reserved bytes of MARK are not counted.
payload_len_short == [opcode \in 0..4 |-> <<59, 40, 76, 44, 80>>[opcode + 1]]

\* Opcode::payload_len of the defined opcodes Init, Create, Mark, Rotate, Close.
payload_len == [opcode \in 0..4 |-> <<59, 40, 78, 44, 80>>[opcode + 1]]

\* The bytes [start, start + width) of a zero-based payload.
Slice(payload, field) == SubSeq(payload, field[1] + 1, field[1] + field[2])
NAMESPACE == <<8, 32>>

\* The fields <<start, width>> that the validators of reducer.rs read.
InitFields == {<<7, 4>>, <<11, 4>>, <<15, 8>>, <<23, 4>>, <<27, 32>>}
CreateFields == {<<7, 1>>}
MarkFields == {<<7, 1>>, <<44, 1>>, <<45, 1>>, <<40, 4>>, <<46, 32>>}
RotateFields == {<<7, 1>>, <<40, 4>>}
CloseFields == {<<7, 1>>, <<44, 1>>, <<45, 3>>, <<40, 4>>, <<48, 32>>}

Fields ==
    [opcode \in 0..4 |->
        IF opcode = INIT THEN InitFields
        ELSE {NAMESPACE} \cup <<CreateFields, MarkFields, RotateFields, CloseFields>>[opcode]]

-----------------------------------------------------------------------------
(* Detection and parsing. *)

U8_MAX == 255
U16_MAX == 65535
u16_from_le_bytes(s, k) == s[k] + 256 * s[k + 1]
u32_from_le_bytes(s, k) == u16_from_le_bytes(s, k) + 65536 * u16_from_le_bytes(s, k + 2)

\* Fault: PUSHDATA1 counts as minimal for every length.
DeclaredPushLax(s) ==
    LET op == s[2] IN
    IF op \in 1..75 THEN {[len |-> op, prefix |-> 2, minimal |-> TRUE]} ELSE
    IF op = 76 /\ Len(s) >= 3 THEN {[len |-> s[3], prefix |-> 3, minimal |-> TRUE]} ELSE {}

\* The push after OP_RETURN: declared length, size of the prefix and whether
\* the encoding is the shortest.  A cut prefix is no push.
DeclaredPush(s) ==
    LET op   == s[2]
        len2 == u16_from_le_bytes(s, 3)
        len4 == u32_from_le_bytes(s, 3)
    IN  IF op \in 1..75 THEN {[len |-> op, prefix |-> 2, minimal |-> TRUE]} ELSE
        IF op = 76 /\ Len(s) >= 3
        THEN {[len |-> s[3], prefix |-> 3, minimal |-> s[3] >= 76]} ELSE
        IF op = 77 /\ Len(s) >= 4
        THEN {[len |-> len2, prefix |-> 4, minimal |-> len2 > U8_MAX]} ELSE
        IF op = 78 /\ Len(s) >= 6
        THEN {[len |-> len4, prefix |-> 6, minimal |-> len4 > U16_MAX]}
        ELSE {}

\* payload is what is physically there of the declared bytes.
find_marker_candidate(s) ==
    IF Len(s) < 2 \/ s[1] # OP_RETURN THEN {} ELSE
    {LET available == Len(s) - push.prefix
     IN  [declared_len |-> push.len,
          payload |-> Slice(s, <<push.prefix, IF push.len < available THEN push.len
                                              ELSE available>>),
          payload_complete |-> available >= push.len,
          no_trailing_bytes |-> available = push.len,
          minimal_push |-> push.minimal] :
        push \in {p \in DeclaredPush(s) :
                    /\ p.len >= 4
                    /\ Len(s) - p.prefix >= 4
                    /\ Slice(s, <<p.prefix, 4>>) = MAGIC}}

\* payload.get(6)
opcode_byte(c) == IF Len(c.payload) > 6 THEN {c.payload[7]} ELSE {}

\* Indexing the payload is safe: it has its declared length, at least 7.
parse(c) ==
    IF /\ c.declared_len \in 7..80
       /\ c.payload_complete
       /\ c.no_trailing_bytes
       /\ c.minimal_push
       /\ c.payload[7] \in DOMAIN payload_len => payload_len[c.payload[7]] = Len(c.payload)
    THEN {[version |-> c.payload[5], opcode |-> c.payload[7], payload |-> c.payload]} ELSE {}

observed_namespace(m) ==
    IF m.version = VERSION /\ m.opcode \in DOMAIN payload_len \ {INIT}
    THEN {Slice(m.payload, NAMESPACE)} ELSE {}

\* Fault: an INIT has a namespace, too.
PopulationOpcodeAny(opcode) == opcode \in DOMAIN payload_len

PopulationOpcode(opcode) == opcode \in DOMAIN payload_len \ {INIT}

\* The reducer's own reading of a candidate, parsed or not.
population_namespace(c) ==
    IF /\ c.payload_complete
       /\ Len(c.payload) >= 40
       /\ \E opcode \in opcode_byte(c) :
            PopulationOpcode(opcode) /\ payload_len[opcode] = Len(c.payload)
       /\ c.payload[5] = VERSION
    THEN {Slice(c.payload, NAMESPACE)} ELSE {}

-----------------------------------------------------------------------------
(* The scripts. *)

\* Every encoding of a push of n bytes, shortest first.
Pushes(n) ==
    (IF n \in 1..75 THEN {<<n>>} ELSE {})
    \cup (IF n < 256 THEN {<<76, n>>} ELSE {})
    \cup {<<77, n % 256, n \div 256>>, <<78, n % 256, n \div 256, 0, 0>>}

\* n bytes that start with magic, as far as they reach.
Body(n, magic, version, opcode) ==
    [i \in 1..n |-> IF i <= 4 THEN magic[i] ELSE
                    IF i = 5 THEN version ELSE IF i = 7 THEN opcode ELSE 0]

Headers ==
    UNION {{<<OP_RETURN>> \o push, <<81>> \o push} : push \in UNION {Pushes(n) : n \in Lengths}}

Bodies ==
    UNION {{Body(n, MAGIC, VERSION, b) : b \in OpcodeBytes}
           \cup {Body(n, MAGIC, 0, b) : b \in OpcodeBytes}
           \cup {Body(n, <<84, 78, 68, 78>>, VERSION, 1)} : n \in Lengths}

Scripts ==
    UNION {{h \o body : body \in Bodies} \cup {SubSeq(h, 1, k) : k \in 0..Len(h)} : h \in Headers}

\* The canonical encoding of a payload.
Encode(payload) ==
    <<OP_RETURN>>
    \o (IF Len(payload) <= 75 THEN <<Len(payload)>> ELSE <<76, Len(payload)>>)
    \o payload

\* The payloads of legal length of which s is the canonical encoding, among
\* all of which it can be one: what is left without the first 0, 1, 2... bytes.
CanonicalPayloads(s) ==
    {p \in {SubSeq(s, k, Len(s)) : k \in 1..Len(s)} :
        /\ Len(p) \in 7..80
        /\ SubSeq(p, 1, 4) = MAGIC
        /\ p[7] \in DOMAIN payload_len => payload_len[p[7]] = Len(p)
        /\ s = Encode(p)}
===============================================================================
