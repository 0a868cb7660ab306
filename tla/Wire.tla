--------------------------------- MODULE Wire ---------------------------------
(* The byte formats of the system, each with its writer and its reader: scripts,*)
(* the fixed layouts of pool and lending datums, the envelope of gossip messages*)
(* and the frames of the handshake.  A value is written, its bytes may be cut,  *)
(* extended or altered on the way, and the reader sees what is left.            *)
EXTENDS Integers, Sequences, SequencesExt

CONSTANTS SimpleOps,         \* opcodes without data
          Payloads, LongPayloads, \* data of pushes
          Numbers, Hashes,   \* values of fields
          LendingDatums,
          Messages,          \* NetworkMessage: [kind, body]
          PeerIds, Opaque,   \* peer ids; keys, ciphertexts and bindings
          HASH, U16, U32, U64, U128, \* bytes of a field
          MAX_SCRIPT_SIZE, MAX_MESSAGE_SIZE, MAX_HANDSHAKE_BYTES,
          Slack,             \* what a reader of envelopes adds to the limit
          PROTOCOL_VERSION, HANDSHAKE_VERSION,
          BodyBytes,         \* bytes of the body of a message of this kind
          Noise,             \* bytes that faults put in
          Edge,              \* faults hit this many first and last bytes
          None               \* nothing written, and the answer of a reader that refuses

VARIABLES written,  \* [format, value]
          bytes,    \* what is on the wire
          fault     \* what happened to it

vars == <<written, bytes, fault>>

LittleEndian(n, width) == [i \in 1..width |-> (n \div 256^(i - 1)) % 256]
FromLittleEndian(b) == LET upto[i \in 0..Len(b)] == IF i = 0 THEN 0 ELSE upto[i - 1] + b[i] * 256^(i - 1)
                       IN  upto[Len(b)]
BigEndian(n, width) == Reverse(LittleEndian(n, width))
FromBigEndian(b) == FromLittleEndian(Reverse(b))
Slice(b, from, width) == SubSeq(b, from + 1, from + width)

-------------------------------------------------------------------------------
\* Mnemonics by their first byte: the opcodes of a family follow each other.
Families ==
    [f \in {0, 16, 32, 48, 64, 80, 96, 112, 128, 255} |->
       CASE f = 0 -> <<"OP_0", "OP_1", "PUSH1", "PUSH2", "PUSH4", "PUSH_INT">>
         [] f = 16 -> <<"DUP", "SWAP", "DROP", "PICK", "ROLL", "OVER", "ROT", "DUP2">>
         [] f = 32 -> <<"ADD", "SUB", "MUL", "DIV", "MOD", "NEG", "ABS", "MIN", "MAX", "MUL_U128">>
         [] f = 48 -> <<"EQ", "NEQ", "LT", "GT", "LE", "GE", "NOT", "AND", "OR", "GE_U128">>
         [] f = 64 -> <<"IF", "ELSE", "ENDIF", "VERIFY", "RETURN">>
         [] f = 80 -> <<"CHECKSIG_PQC", "CHECKMULTISIG_PQC", "HASH_SHA3", "HASH_BLAKE3">>
         [] f = 96 -> <<"READ_INPUT_VALUE", "READ_OUTPUT_VALUE", "READ_OUTPUT_SCRIPT",
                        "READ_OUTPUT_DATUM", "TX_HASH", "SLOT_NUMBER", "INPUT_COUNT",
                        "OUTPUT_COUNT", "TX_FEE", "SIG_HASH", "READ_INPUT_DATUM",
                        "SELF_SCRIPT_HASH">>
         [] f = 112 -> <<"ASSERT_OUTPUT_SCRIPT_HASH", "ASSERT_DATUM_HASH", "ASSERT_VALUE">>
         [] f = 128 -> <<"CAT", "SLICE", "LEN", "BYTES_TO_INT">>
         [] f = 255 -> <<"NOP">>]

\* OpCode::from_byte, or None.
family(b) == IF b = 255 THEN 255 ELSE b - (b % 16)
from_byte(b) ==
    IF family(b) \in DOMAIN Families /\ b - family(b) < Len(Families[family(b)])
    THEN b ELSE None
mnemonic(op) == Families[family(op)][op - family(op) + 1]
OpCodes == {b \in 0..255 : from_byte(b) # None}

Push1 == 2
Push2 == 3
Push4 == 4
PushInt == 5

Instruction(op, data) == [op |-> op, data |-> data]
simple(op) == Instruction(op, <<>>)
push_bytes(data) ==
    Instruction(CASE Len(data) <= 255 -> Push1 [] Len(data) \in 256..65535 -> Push2
                  [] OTHER -> Push4, data)
push_int(n) == Instruction(PushInt, LittleEndian(n, U64))

LengthBytes(op) ==
    CASE op = Push1 -> 1 [] op = Push2 -> U16 [] op = Push4 -> U32 [] OTHER -> 0

encode(i) ==
    <<i.op>> \o IF LengthBytes(i.op) > 0 THEN LittleEndian(Len(i.data), LengthBytes(i.op)) \o i.data
                ELSE IF i.op = PushInt THEN i.data ELSE <<>>

\* encode_instructions, and compile, which calls it.
compile(program) == FlattenSeq([i \in DOMAIN program |-> encode(program[i])])

\* The instructions from a position on, or None.
decode_script(script) ==
    LET from[pos \in 1..Len(script) + 1] ==
            IF pos > Len(script) THEN <<>> ELSE
            LET op == from_byte(script[pos])
                start == pos + LengthBytes(op)      \* the byte before the data
                len == IF op = PushInt THEN U64
                       ELSE FromLittleEndian(Slice(script, pos, LengthBytes(op)))
                next == start + len + 1
                rest == from[next]
            IN  IF \/ op = None
                   \/ start > Len(script)
                   \/ LengthBytes(op) > 0 /\ len = 0
                   \/ next > Len(script) + 1
                   \/ rest = None
                THEN None
                ELSE <<Instruction(op, Slice(script, start, len))>> \o rest
    IN  IF Len(script) > MAX_SCRIPT_SIZE THEN None ELSE from[1]

disassemble(script) ==
    LET program == decode_script(script)
    IN  IF program = None THEN None
        ELSE [i \in DOMAIN program |-> <<mnemonic(program[i].op), program[i].data>>]

-------------------------------------------------------------------------------
\* A layout lists fields as [name, offset, width]; writers append the fields in this
\* order, readers slice at the offsets that qv-script gives.
Field(name, offset, width) == [name |-> name, offset |-> offset, width |-> width]
PoolLayout ==
    <<Field("token_a_id", 0, HASH), Field("token_b_id", HASH, HASH),
      Field("reserve_a", 2 * HASH, U64), Field("reserve_b", 2 * HASH + U64, U64),
      Field("lp_total", 2 * HASH + 2 * U64, U64), Field("fee_bps", 2 * HASH + 3 * U64, U16)>>
POOL_DATUM_LEN == 2 * HASH + 3 * U64 + U16

Params == 3 * HASH + 2 * U64
LendingLayout ==
    <<Field("pool_id", 0, HASH), Field("collateral_token_id", HASH, HASH),
      Field("debt_token_id", 2 * HASH, HASH), Field("total_collateral", 3 * HASH, U64),
      Field("total_debt", 3 * HASH + U64, U64), Field("base_rate_bps", Params, U16),
      Field("slope_bps", Params + U16, U16), Field("ltv_max_bps", Params + 2 * U16, U16),
      Field("liquidation_threshold_bps", Params + 3 * U16, U16),
      Field("liquidation_bonus_bps", Params + 4 * U16, U16),
      Field("interest_multiplier_q64", Params + 5 * U16, U128),
      Field("last_accrual_slot", Params + 5 * U16 + U128, U64)>>
LENDING_DATUM_LEN == Params + 5 * U16 + U128 + U64

\* A new pool has no liquidity tokens yet.
PoolDatum(token_a_id, token_b_id, reserve_a, reserve_b, fee_bps) ==
    [token_a_id |-> token_a_id, token_b_id |-> token_b_id, reserve_a |-> reserve_a,
     reserve_b |-> reserve_b, lp_total |-> 0, fee_bps |-> fee_bps]

Names(layout) == {layout[i].name : i \in DOMAIN layout}
to_canonical_bytes(layout, datum) ==
    FlattenSeq([i \in DOMAIN layout |-> LittleEndian(datum[layout[i].name], layout[i].width)])

ReadFields(layout, b) ==
    [name \in Names(layout) |->
        LET f == CHOOSE f \in ToSet(layout) : f.name = name
        IN  FromLittleEndian(Slice(b, f.offset, f.width))]
pool_from_canonical_bytes(b) ==
    IF Len(b) = POOL_DATUM_LEN THEN ReadFields(PoolLayout, b) ELSE None
lending_from_canonical_bytes(b) ==
    IF Len(b) = LENDING_DATUM_LEN THEN ReadFields(LendingLayout, b) ELSE None

-------------------------------------------------------------------------------
\* bincode, as far as it is used here: fixed-width little-endian integers, a vector
\* behind its length, an enum behind its index, and bytes after the value ignored.
Kinds == <<"Block", "Transaction", "VrfProof", "Vote", "GetHeaders", "Headers",
           "GetBlocks", "Ping", "Pong">>
serialize_vec(v) == LittleEndian(Len(v), U64) \o v
deserialize_vec(b) ==
    IF Len(b) < U64 \/ Len(b) - U64 < FromLittleEndian(Slice(b, 0, U64)) THEN None
    ELSE Slice(b, U64, FromLittleEndian(Slice(b, 0, U64)))
serialize_message(m) ==
    LittleEndian((CHOOSE i \in DOMAIN Kinds : Kinds[i] = m.kind) - 1, U32) \o m.body
deserialize_message(b) ==
    LET index == FromLittleEndian(Slice(b, 0, U32)) + 1
    IN  IF Len(b) < U32 \/ index \notin DOMAIN Kinds \/ Len(b) - U32 < BodyBytes[Kinds[index]]
        THEN None
        ELSE [kind |-> Kinds[index], body |-> Slice(b, U32, BodyBytes[Kinds[index]])]

is_gossip(m) == m.kind \in {"Block", "Transaction", "VrfProof", "Vote"}
is_request_response(m) == m.kind \in {"GetHeaders", "Headers", "GetBlocks"}
topic_for_kind(kind) ==
    CASE kind = "Block" -> "blocks" [] kind = "Transaction" -> "transactions"
      [] kind = "VrfProof" -> "vrf-proofs" [] kind = "Vote" -> "votes" [] OTHER -> None

Envelope_encode(m) ==
    IF Len(serialize_message(m)) > MAX_MESSAGE_SIZE THEN None
    ELSE LittleEndian(PROTOCOL_VERSION, U16) \o serialize_vec(serialize_message(m))

Envelope_decode(b) ==
    LET payload == deserialize_vec(SubSeq(b, U16 + 1, Len(b)))
    IN  IF \/ Len(b) > MAX_MESSAGE_SIZE + Slack
           \/ Len(b) < U16
           \/ payload = None
           \/ FromLittleEndian(Slice(b, 0, U16)) # PROTOCOL_VERSION
        THEN None ELSE deserialize_message(payload)

\* A message of a kind without a topic is not published.
publish(m) == IF topic_for_kind(m.kind) = None THEN None ELSE Envelope_encode(m)

-------------------------------------------------------------------------------
\* Four bytes of length, highest first, and the frame; what follows stays unread.
write_length_prefixed(b) == BigEndian(Len(b), U32) \o b
read_length_prefixed(io, max) ==
    LET len == FromBigEndian(Slice(io, 0, U32))
    IN  IF Len(io) < U32 \/ len > max \/ Len(io) - U32 < len THEN None
        ELSE Slice(io, U32, len)

\* A version, a vector and further bytes of known length.
HandshakeHello(peer_id, hybrid_pk) ==
    [version |-> HANDSHAKE_VERSION, initiator_peer_id |-> peer_id, hybrid_pk |-> hybrid_pk]
HandshakeAck(peer_id, ciphertext, binding) ==
    [version |-> HANDSHAKE_VERSION, responder_peer_id |-> peer_id, ciphertext |-> ciphertext,
     session_binding |-> binding]

\* Keys, ciphertexts and the binding have one length, HASH, here.
write_request(h) ==
    write_length_prefixed(LittleEndian(h.version, U16) \o serialize_vec(h.initiator_peer_id)
                            \o h.hybrid_pk)
write_response(a) ==
    write_length_prefixed(LittleEndian(a.version, U16) \o serialize_vec(a.responder_peer_id)
                            \o a.ciphertext \o a.session_binding)

\* The frame as [version, id, rest] with rest of the given length, or None.
Unframe(io, length) ==
    LET b == read_length_prefixed(io, MAX_HANDSHAKE_BYTES)
        id == deserialize_vec(SubSeq(b, U16 + 1, Len(b)))
        rest == U16 + U64 + Len(id)
    IN  IF b = None \/ Len(b) < U16 \/ id = None \/ Len(b) - rest < length THEN None
        ELSE [version |-> FromLittleEndian(Slice(b, 0, U16)), id |-> id,
              rest |-> Slice(b, rest, length)]
read_request(io) ==
    LET f == Unframe(io, HASH)
    IN  IF f = None THEN None
        ELSE [version |-> f.version, initiator_peer_id |-> f.id, hybrid_pk |-> f.rest]
read_response(io) ==
    LET f == Unframe(io, 2 * HASH)
    IN  IF f = None THEN None
        ELSE [version |-> f.version, responder_peer_id |-> f.id,
              ciphertext |-> Slice(f.rest, 0, HASH), session_binding |-> Slice(f.rest, HASH, HASH)]

-------------------------------------------------------------------------------
Init == written = None /\ bytes = <<>> /\ fault = "none"

Write(format, value, b) ==
    /\ written = None
    /\ written' = [format |-> format, value |-> value, refused |-> b = None]
    /\ bytes' = IF b = None THEN <<>> ELSE b
    /\ UNCHANGED fault

Instructions ==
    {simple(op) : op \in SimpleOps} \cup {push_bytes(d) : d \in Payloads}
        \cup {push_int(n) : n \in Numbers}
        \cup {Instruction(op, d) : op \in {Push2, Push4}, d \in Payloads}
Programs ==
    {<<i, j>> : i, j \in Instructions} \cup {<<push_bytes(d)>> : d \in LongPayloads}
        \cup {<<push_bytes(d), push_bytes(d)>> : d \in LongPayloads}

WriteScript == \E p \in Programs : Write("script", p, compile(p))
WritePool ==
    \E a, b \in Numbers, t, u \in Hashes :
        LET d == PoolDatum(t, u, a, b, 30) IN Write("pool", d, to_canonical_bytes(PoolLayout, d))
WriteLending == \E d \in LendingDatums : Write("lending", d, to_canonical_bytes(LendingLayout, d))
WriteMessage == \E m \in Messages : Write("message", m, publish(m))
WriteHello ==
    \E id \in PeerIds, k \in Opaque :
        LET h == HandshakeHello(id, k) IN Write("hello", h, write_request(h))
WriteAck ==
    \E id \in PeerIds, c, b \in Opaque :
        LET a == HandshakeAck(id, c, b) IN Write("ack", a, write_response(a))

Places == {i \in DOMAIN bytes : i <= Edge \/ i > Len(bytes) - Edge}
Cut == \E i \in Places : bytes' = SubSeq(bytes, 1, i - 1) /\ fault' = "cut"
Extend == \E b \in Noise : bytes' = Append(bytes, b) /\ fault' = "extended"
Alter == \E i \in Places, b \in Noise :
            b # bytes[i] /\ bytes' = [bytes EXCEPT ![i] = b] /\ fault' = "altered"

Fault ==
    /\ written # None /\ fault = "none" /\ bytes # <<>>
    /\ Cut \/ Extend \/ Alter
    /\ UNCHANGED written

Next == WriteScript \/ WritePool \/ WriteLending \/ WriteMessage \/ WriteHello \/ WriteAck \/ Fault

Spec == Init /\ [][Next]_vars

-------------------------------------------------------------------------------
Read(format) ==
    CASE format = "script" -> decode_script(bytes)
      [] format = "pool" -> pool_from_canonical_bytes(bytes)
      [] format = "lending" -> lending_from_canonical_bytes(bytes)
      [] format = "message" -> Envelope_decode(bytes)
      [] format = "hello" -> read_request(bytes)
      [] format = "ack" -> read_response(bytes)

\* What push_bytes makes of no data, and a program over the limit, do not decode.
Decodable(p) ==
    /\ Len(compile(p)) <= MAX_SCRIPT_SIZE
    /\ \A i \in DOMAIN p : LengthBytes(p[i].op) > 0 => p[i].data # <<>>

\* A script reads back as the program it was compiled from; cut or extended it is
\* refused or agrees as far as it goes; and whatever decodes compiles to the same bytes
\* and disassembles to a text of its own, so no two byte strings are one script
\* (decode_script, encode_instructions, OpCode::from_byte, mnemonic).
ScriptReadsBack ==
    LET p == Read("script")
        text == disassemble(bytes)
    IN
    /\ fault = "none" => p = IF Decodable(written.value) THEN written.value ELSE None
    /\ fault \in {"cut", "extended"} /\ p # None /\ Decodable(written.value)
         => IsPrefix(p, written.value) \/ IsPrefix(written.value, p)
    /\ p # None => /\ compile(p) = bytes
                   /\ \A i \in DOMAIN p :
                        {op \in OpCodes : mnemonic(op) = text[i][1]} = {p[i].op}

\* A datum reads back field by field, a changed byte changes exactly one field, and any
\* other length is refused (to_canonical_bytes and from_canonical_bytes of both pools).
DatumReadsBack ==
    LET d == Read(written.format)
        changed == {f \in DOMAIN written.value : d[f] # written.value[f]}
    IN  CASE fault = "none" -> d = written.value
          [] fault = "altered" -> \E f \in DOMAIN written.value : changed = {f}
          [] OTHER -> d = None

\* What was written is what is read; a truncated message is refused, and bytes behind a
\* message change nothing (Envelope, HandshakeCodec).  Only gossip is published, and the
\* request and response kinds have no topic.
FrameReadsBack ==
    LET m == Read(written.format) IN
    /\ fault = "none" => m = written.value
    /\ fault = "cut" => m = None
    /\ fault = "extended" => m \in {None, written.value}

ReadsBack ==
    written # None =>
        IF written.refused
        THEN is_gossip(written.value) => Len(serialize_message(written.value)) > MAX_MESSAGE_SIZE
        ELSE /\ written.format = "script" => ScriptReadsBack
             /\ written.format \in {"pool", "lending"} => DatumReadsBack
             /\ written.format \in {"message", "hello", "ack"} => FrameReadsBack
             /\ written.format = "message" => ~is_request_response(written.value)

===============================================================================
