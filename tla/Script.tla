--------------------------------- MODULE Script ---------------------------------
(* The script virtual machine (qv-script: interpreter.rs, opcode.rs, gas.rs, *)
(* script.rs): a stack machine with conditionals, gas and introspection of  *)
(* the spending transaction.                                               *)
(*                                                                         *)
(* Bytes are sequences of cells, a cell being what the templates address as *)
(* one unit: a machine word <<n>> (8 bytes, n < W), an identifier <<1, i>>, *)
(* a hash <<0, 0, bytes>>, a signature <<0, 0, 0, <<key, message>>>>.        *)
(* W stands for 2^64; integers are words read as signed numbers.           *)
EXTENDS Integers, Sequences, FiniteSets, FiniteSetsExt

CONSTANTS W, MAX_STACK_DEPTH, MAX_SCRIPT_SIZE, GasLimit

VARIABLES
    job,        \* what is executed: [script, ctx, ...]
    ip,         \* next instruction
    stack, exec_stack,
    gas,        \* gas consumed
    status      \* "run", "accept", "reject" or "error"

machine == <<ip, stack, exec_stack, gas, status>>

(* opcode.rs: values and instructions.                                     *)
IntValue(n) == [int |-> n]
BytesValue(b) == [bytes |-> b]
is_int(v) == "int" \in DOMAIN v
is_truthy(v) == IF is_int(v) THEN v.int # 0 ELSE v.bytes # <<>>
Bool(b) == IntValue(IF b THEN 1 ELSE 0)

Word(n) == <<n % W>>
AsI64(u) == IF 2 * u >= W THEN u - W ELSE u
Wrap(n) == AsI64(n % W)
AsUsize(n) == n % W
as_bytes(v) == IF is_int(v) THEN <<Word(v.int)>> ELSE v.bytes

Op(op) == [op |-> op, data |-> <<>>]
PushInt(n) == CASE n = 0 -> Op("Op0") [] n = 1 -> Op("Op1")
                [] OTHER -> [op |-> "PushInt", data |-> <<Word(n)>>]
PushBytes(b) == [op |-> "Push", data |-> b]

(* An empty push does not decode, nor does an oversized script.            *)
decode_script(script) ==
    /\ Len(script) <= MAX_SCRIPT_SIZE
    /\ \A i \in DOMAIN script :
        script[i].op \in {"Push", "PushInt"} => script[i].data # <<>>

(* Cryptography, by what the machine observes of it.                       *)
sha3_256(b) == <<<<0, 0, b>>>>
blake3(b) == <<<<0, 0, 0, 0, b>>>>
SignatureOf(pk, msg) == <<<<0, 0, 0, <<pk, msg>>>>>>
checksig_pqc(pk, sig, msg) == sig = SignatureOf(pk, msg)

(* Each signature is matched with an unused key that verifies it.          *)
checkmultisig_pqc(pks, sigs, msg, threshold) ==
    LET Count(s, P(_)) == Cardinality({i \in DOMAIN s : P(s[i])})
        matched(pk) == Min({Count(pks, LAMBDA k : k = pk),
                            Count(sigs, LAMBDA s : checksig_pqc(pk, s, msg))})
        keys == {pks[i] : i \in DOMAIN pks}
    IN  /\ threshold <= Len(pks) /\ Len(sigs) >= threshold
        /\ FoldSet(LAMBDA pk, acc : acc + matched(pk), 0, keys) >= threshold

-----------------------------------------------------------------------------
(* Stack effects.  An instruction maps a stack to the set of stacks it may *)
(* leave: one, or none when it fails.                                      *)

Top(s, i) == s[Len(s) + 1 - i]
Below(s, n) == SubSeq(s, 1, Len(s) - n)
pushed(s, v) == IF Len(s) >= MAX_STACK_DEPTH THEN {} ELSE {Append(s, v)}
popped(s, n, R(_)) == IF Len(s) < n THEN {} ELSE R(Below(s, n))
AreInts(s, n) == Len(s) >= n /\ \A i \in 1..n : is_int(Top(s, i))

(* Rearrangements: operands needed, and the new top part by old position.  *)
Shuffles == [Dup  |-> [need |-> 1, out |-> <<1, 1>>],
             Swap |-> [need |-> 2, out |-> <<1, 2>>],
             Drop |-> [need |-> 1, out |-> <<>>],
             Over |-> [need |-> 2, out |-> <<2, 1, 2>>],
             Rot  |-> [need |-> 3, out |-> <<2, 1, 3>>],
             Dup2 |-> [need |-> 2, out |-> <<2, 1, 2, 1>>]]
shuffle(op, s) ==
    LET sh == Shuffles[op]
        t  == Below(s, sh.need) \o [i \in DOMAIN sh.out |-> Top(s, sh.out[i])]
    IN  IF Len(s) < sh.need \/ Len(t) > MAX_STACK_DEPTH THEN {} ELSE {t}

(* Pick copies the element at a depth, Roll moves it.                      *)
reach(op, s) ==
    LET n == AsUsize(Top(s, 1).int)
        r == Below(s, 1)
        at == Len(r) - n
    IN  IF ~AreInts(s, 1) \/ n >= Len(r) THEN {}
        ELSE IF op = "Pick" THEN pushed(r, r[at])
        ELSE {SubSeq(r, 1, at - 1) \o SubSeq(r, at + 1, Len(r)) \o <<r[at]>>}

Truncated(a, b) == (IF (a < 0) # (b < 0) THEN -1 ELSE 1)
                   * ((IF a < 0 THEN -a ELSE a) \div (IF b < 0 THEN -b ELSE b))
Arithmetic == {"Add", "Sub", "Mul", "Div", "Mod", "Min", "Max"}
arithmetic(op, a, b) ==
    CASE op = "Add" -> {Wrap(a + b)}
      [] op = "Sub" -> {Wrap(a - b)}
      [] op = "Mul" -> {Wrap(a * b)}
      [] op = "Div" -> IF b = 0 THEN {} ELSE {Wrap(Truncated(a, b))}
      [] op = "Mod" -> IF b = 0 THEN {} ELSE {Wrap(a - b * Truncated(a, b))}
      [] op = "Min" -> {IF a < b THEN a ELSE b}
      [] op = "Max" -> {IF a > b THEN a ELSE b}
Comparisons == {"Lt", "Gt", "Le", "Ge"}
compare(op, a, b) == CASE op = "Lt" -> a < b [] op = "Gt" -> a > b
                       [] op = "Le" -> a <= b [] op = "Ge" -> a >= b
Logic == {"Eq", "Neq", "And", "Or"}
logic(op, a, b) == CASE op = "Eq" -> a = b [] op = "Neq" -> a # b
                     [] op = "And" -> is_truthy(a) /\ is_truthy(b)
                     [] op = "Or" -> is_truthy(a) \/ is_truthy(b)

(* A 128-bit number is its low and its high word.                          *)
U128(n) == <<Word(n), Word(n \div W)>>
OfU128(b) == b[1][1] + W * b[2][1]

binary(op, s) ==
    popped(s, 2, LAMBDA r :
        LET a == Top(s, 2)
            b == Top(s, 1)
            x == as_bytes(a)
            y == as_bytes(b)
        IN  CASE op \in Arithmetic -> IF AreInts(s, 2)
                    THEN {Append(r, IntValue(n)) : n \in arithmetic(op, a.int, b.int)} ELSE {}
              [] op \in Comparisons -> IF AreInts(s, 2)
                    THEN {Append(r, Bool(compare(op, a.int, b.int)))} ELSE {}
              [] op \in Logic -> {Append(r, Bool(logic(op, a, b)))}
              [] op = "MulU128" -> IF AreInts(s, 2)
                    THEN {Append(r, BytesValue(U128(AsUsize(a.int) * AsUsize(b.int))))} ELSE {}
              [] op = "GeU128" -> IF Len(x) = 2 /\ Len(y) = 2
                    THEN {Append(r, Bool(OfU128(x) >= OfU128(y)))} ELSE {}
              [] op = "Cat" -> {Append(r, BytesValue(x \o y))}
              [] op = "BytesToInt" -> IF is_int(b) /\ b.int = 1 /\ Len(x) = 1
                    THEN {Append(r, IntValue(AsI64(x[1][1])))} ELSE {})

Unary == {"Not", "Verify", "HashSha3", "HashBlake3", "Len", "Neg", "Abs"}
unary(op, s) ==
    popped(s, 1, LAMBDA r :
        LET a == Top(s, 1)
        IN  CASE op = "Not" -> {Append(r, Bool(~is_truthy(a)))}
              [] op = "Verify" -> IF is_truthy(a) THEN {r} ELSE {}
              [] op = "HashSha3" -> {Append(r, BytesValue(sha3_256(as_bytes(a))))}
              [] op = "HashBlake3" -> {Append(r, BytesValue(blake3(as_bytes(a))))}
              [] op = "Len" -> {Append(r, IntValue(Len(as_bytes(a))))}
              [] op = "Neg" -> IF is_int(a) THEN {Append(r, IntValue(Wrap(-a.int)))} ELSE {}
              [] op = "Abs" -> IF is_int(a)
                    THEN {Append(r, IntValue(Wrap(IF a.int < 0 THEN -a.int ELSE a.int)))} ELSE {})

slice(s) ==
    popped(s, 3, LAMBDA r :
        LET start == AsUsize(Top(s, 2).int)
            end   == start + AsUsize(Top(s, 1).int)
            data  == as_bytes(Top(s, 3))
        IN  IF ~AreInts(s, 2) \/ end > Len(data) THEN {}
            ELSE {Append(r, BytesValue(SubSeq(data, start + 1, end)))})

checksig(s) ==
    popped(s, 3, LAMBDA r : {Append(r, Bool(checksig_pqc(
        as_bytes(Top(s, 1)), as_bytes(Top(s, 2)), as_bytes(Top(s, 3)))))})

(* ... message, signatures, their number, keys, their number.              *)
checkmultisig(s) ==
    LET n   == IF AreInts(s, 1) THEN AsUsize(Top(s, 1).int) ELSE Len(s)
        m   == IF Len(s) >= n + 2 /\ is_int(Top(s, n + 2))
               THEN AsUsize(Top(s, n + 2).int) ELSE Len(s)
        pks  == [i \in 1..n |-> as_bytes(Top(s, i + 1))]
        sigs == [i \in 1..m |-> as_bytes(Top(s, n + 2 + i))]
    IN  popped(s, n + m + 3, LAMBDA r : {Append(r, Bool(checkmultisig_pqc(
            pks, sigs, as_bytes(Top(s, n + m + 3)), m)))})

(* Introspection of the transaction.                                       *)
Item(seq, s) == IF AreInts(s, 1) /\ AsUsize(Top(s, 1).int) < Len(seq)
                THEN {seq[AsUsize(Top(s, 1).int) + 1]} ELSE {}
IndexedReads == {"ReadInputValue", "ReadOutputValue", "ReadOutputScript",
                 "ReadOutputDatum", "ReadInputDatum"}
read(op, s, ctx) ==
    LET items == Item(IF op \in {"ReadInputValue", "ReadInputDatum"}
                      THEN ctx.inputs ELSE ctx.outputs, s)
    IN  {Append(Below(s, 1),
            CASE op \in {"ReadInputValue", "ReadOutputValue"} -> IntValue(AsI64(o.value))
              [] op = "ReadOutputScript" -> BytesValue(o.script)
              [] OTHER -> BytesValue(o.datum)) : o \in items}
Reads == {"SelfScriptHash", "TxHash", "SigHash", "SlotNumber",
          "InputCount", "OutputCount", "TxFee"}
introspect(op, ctx) ==
    CASE op = "SelfScriptHash" -> BytesValue(ctx.locking_script_hash)
      [] op = "TxHash" -> BytesValue(ctx.tx_hash)
      [] op = "SigHash" -> BytesValue(ctx.sighash)
      [] op = "SlotNumber" -> IntValue(AsI64(ctx.slot))
      [] op = "InputCount" -> IntValue(Len(ctx.inputs))
      [] op = "OutputCount" -> IntValue(Len(ctx.outputs))
      [] op = "TxFee" -> IntValue(AsI64(ctx.fee))

(* Covenant assertions on an output: its script, its datum or its value.   *)
Assertions == {"AssertOutputScriptHash", "AssertDatumHash", "AssertValue"}
assertion(op, s, ctx) ==
    popped(s, 2, LAMBDA r :
        LET holds(o) ==
                CASE op = "AssertOutputScriptHash" ->
                        sha3_256(o.script) = as_bytes(Top(s, 1))
                  [] op = "AssertDatumHash" ->
                        o.datum # <<>> /\ sha3_256(o.datum) = as_bytes(Top(s, 1))
                  [] op = "AssertValue" ->
                        is_int(Top(s, 1)) /\ AsI64(o.value) = Top(s, 1).int
        IN  IF \E o \in Item(ctx.outputs, Below(s, 1)) : holds(o) THEN {r} ELSE {})

effect(instr, s, ctx) ==
    LET op == instr.op
    IN  CASE op = "Op0" -> pushed(s, IntValue(0))
          [] op = "Op1" -> pushed(s, IntValue(1))
          [] op = "Push" -> pushed(s, BytesValue(instr.data))
          [] op = "PushInt" -> pushed(s, IntValue(AsI64(instr.data[1][1])))
          [] op \in DOMAIN Shuffles -> shuffle(op, s)
          [] op \in {"Pick", "Roll"} -> reach(op, s)
          [] op \in Unary -> unary(op, s)
          [] op = "Slice" -> slice(s)
          [] op = "CheckSigPqc" -> checksig(s)
          [] op = "CheckMultiSigPqc" -> checkmultisig(s)
          [] op \in IndexedReads -> read(op, s, ctx)
          [] op \in Reads -> pushed(s, introspect(op, ctx))
          [] op \in Assertions -> assertion(op, s, ctx)
          [] op = "Nop" -> {s}
          [] op = "Return" -> {}
          [] OTHER -> binary(op, s)

-----------------------------------------------------------------------------
(* gas.rs *)
gas_cost(op) ==
    CASE op \in {"Op0", "Op1", "Nop", "Drop"} -> 1
      [] op \in Arithmetic \cup {"Neg", "Abs"} -> 5
      [] op \in {"MulU128", "GeU128"} -> 15
      [] op \in {"Push", "PushInt", "Cat", "Slice", "Len", "BytesToInt"}
                \cup IndexedReads \cup Reads -> 10
      [] op \in Assertions -> 20
      [] op \in {"HashSha3", "HashBlake3"} -> 50
      [] op = "CheckSigPqc" -> 500
      [] op = "CheckMultiSigPqc" -> 2000
      [] OTHER -> 2
MULTISIG_PER_KEY_COST == 500
per_key(op, s) == IF op = "CheckMultiSigPqc" /\ AreInts(s, 1)
                  THEN MULTISIG_PER_KEY_COST * AsUsize(Top(s, 1).int) ELSE 0

executing == \A i \in DOMAIN exec_stack : exec_stack[i]
halt(verdict) == status' = verdict /\ UNCHANGED <<job, ip, stack, exec_stack, gas>>

(* One instruction of execute_instructions.  Gas is charged for skipped    *)
(* instructions too.                                                       *)
If == /\ IF executing THEN /\ stack # <<>>
                           /\ exec_stack' = Append(exec_stack, is_truthy(Top(stack, 1)))
                           /\ stack' = Below(stack, 1)
         ELSE exec_stack' = Append(exec_stack, FALSE) /\ UNCHANGED stack

parent_executing == \A i \in 1..Len(exec_stack) - 1 : exec_stack[i]
Else == /\ exec_stack # <<>>
        /\ exec_stack' = IF parent_executing
                         THEN [exec_stack EXCEPT ![Len(exec_stack)] = ~@]
                         ELSE exec_stack
        /\ UNCHANGED stack
EndIf == exec_stack # <<>> /\ exec_stack' = Below(exec_stack, 1) /\ UNCHANGED stack

Fails(instr, cost) ==
    \/ gas + cost > GasLimit
    \/ instr.op = "If" /\ executing /\ stack = <<>>
    \/ instr.op \in {"Else", "EndIf"} /\ exec_stack = <<>>
    \/ /\ instr.op \notin {"If", "Else", "EndIf"} /\ executing
       /\ effect(instr, stack, job.ctx) = {}

Step ==
    /\ status = "run" /\ ip <= Len(job.script)
    /\ LET instr == job.script[ip]
           cost  == gas_cost(instr.op)
                    + IF executing THEN per_key(instr.op, stack) ELSE 0
       IN  IF Fails(instr, cost) THEN halt("error")
           ELSE /\ ip' = ip + 1 /\ gas' = gas + cost
                /\ CASE instr.op = "If" -> If
                     [] instr.op = "Else" -> Else
                     [] instr.op = "EndIf" -> EndIf
                     [] OTHER -> /\ stack' \in IF executing
                                        THEN effect(instr, stack, job.ctx) ELSE {stack}
                                 /\ UNCHANGED exec_stack
                /\ UNCHANGED <<job, status>>

(* An unterminated conditional fails; the verdict is the top of the stack. *)
Finish ==
    /\ status = "run" /\ ip > Len(job.script)
    /\ halt(IF exec_stack # <<>> THEN "error"
            ELSE IF stack # <<>> /\ is_truthy(Top(stack, 1)) THEN "accept" ELSE "reject")

(* validate_script: witness and locking script run as one script, in a     *)
(* context that knows the hash of the locking script.                      *)
start(j) ==
    /\ job = j /\ ip = 1 /\ stack = <<>> /\ exec_stack = <<>> /\ gas = 0
    /\ status = IF decode_script(j.script) THEN "run" ELSE "error"

-----------------------------------------------------------------------------
(* Locking scripts of the standard templates (qv-script/src/templates.rs).  *)
(* The bytes of a script are named by its template and arguments; a datum   *)
(* is a sequence of cells at the offsets of its canonical layout.           *)
CONSTANTS BPS, LENDING_PRICE_SCALE      \* 10_000 and 10^6

Ops(names) == [i \in DOMAIN names |-> Op(names[i])]
ScriptBytes(template, args) == <<<<1, <<template, args>>>>>>
Id(name) == <<<<1, <<"id", <<name>>>>>>>>
STEALTH_KDF_TAG == Id("stealth")
LENDING_ORACLE_DOMAIN_TAG == Id("oracle")

(* Authorisation: the signature covers the transaction without witnesses.   *)
SignedByTop == Ops(<<"SigHash", "Rot", "Rot", "CheckSigPqc">>)

p2pkh_pqc(pubkey_hash) ==
    Ops(<<"Dup", "HashSha3">>) \o <<PushBytes(pubkey_hash)>> \o Ops(<<"Eq", "Verify">>)
    \o SignedByTop

onetime_pk_hash(secret, pk) == sha3_256(STEALTH_KDF_TAG \o secret \o pk)
stealth_p2pkh(commitment) ==
    Ops(<<"Over", "Cat">>) \o <<PushBytes(STEALTH_KDF_TAG)>>
    \o Ops(<<"Swap", "Cat", "HashSha3">>) \o <<PushBytes(commitment)>>
    \o Ops(<<"Eq", "Verify">>) \o SignedByTop

multisig_pqc(threshold, keys) ==
    <<PushInt(threshold), PushInt(keys), Op("CheckMultiSigPqc")>>

-----------------------------------------------------------------------------
(* Pool transactions spend the pool as input 0 and recreate it as output 0. *)
Both(R(_)) == R("ReadInputDatum") \o R("ReadOutputDatum")
Cells(read_op, offset, n) ==
    <<PushInt(0), Op(read_op), PushInt(offset), PushInt(n), Op("Slice")>>
assert_datum_len(read_op, n) ==
    <<PushInt(0), Op(read_op), Op("Len"), PushInt(n)>> \o Ops(<<"Eq", "Verify">>)
assert_lending_datum_region(read_op, offset, expected) ==
    Cells(read_op, offset, Len(expected)) \o <<PushBytes(expected)>> \o Ops(<<"Eq", "Verify">>)
assert_pool_datum_field(read_op, offset, expected) ==
    assert_lending_datum_region(read_op, offset, expected)
push_lending_u64_as_int(read_op, offset) ==
    Cells(read_op, offset, 1) \o <<PushInt(1), Op("BytesToInt")>>
push_pool_reserve(read_op, offset) == push_lending_u64_as_int(read_op, offset)
push_lending_u64_as_u128(read_op, offset) ==
    Cells(read_op, offset, 1) \o <<PushBytes(<<Word(0)>>), Op("Cat")>>
SelfContinues ==
    <<PushInt(0)>> \o Ops(<<"SelfScriptHash", "AssertOutputScriptHash", "Op1">>)

(* PoolDatum: token a, token b, reserve a, reserve b, LP total, fee.        *)
POOL_DATUM_LEN == 6
amm_pool_lock(token_a, token_b, fee) ==
    Both(LAMBDA r : assert_datum_len(r, POOL_DATUM_LEN))
    \o Both(LAMBDA r : assert_pool_datum_field(r, 0, token_a))
    \o Both(LAMBDA r : assert_pool_datum_field(r, 1, token_b))
    \o Both(LAMBDA r : assert_pool_datum_field(r, 5, <<Word(fee)>>))
    \o push_pool_reserve("ReadOutputDatum", 2) \o push_pool_reserve("ReadOutputDatum", 3)
    \o <<Op("MulU128")>>
    \o push_pool_reserve("ReadInputDatum", 2) \o push_pool_reserve("ReadInputDatum", 3)
    \o Ops(<<"MulU128", "GeU128", "Verify">>)
    \o SelfContinues

(* The older swap covenant: slices both datums, then checks only the        *)
(* successor's script and that it has a datum.                              *)
amm_swap(pool_script_hash, index) ==
    LET part(o) == <<PushInt(o), PushInt(1), Op("Slice")>>
    IN  <<Op("Dup")>> \o part(0) \o Ops(<<"Swap", "Dup">>) \o part(1)
        \o Ops(<<"Rot", "Rot", "Drop">>) \o <<PushInt(index), Op("ReadOutputDatum"), Op("Dup")>>
        \o part(0) \o Ops(<<"Swap", "Dup">>) \o part(1)
        \o Ops(<<"Swap", "Drop", "Drop", "Drop", "Drop", "Drop">>)
        \o <<PushInt(index), PushBytes(pool_script_hash), Op("AssertOutputScriptHash"),
             PushInt(index), Op("ReadOutputDatum"), Op("Len"), PushInt(0)>>
        \o Ops(<<"Gt", "Verify", "Op1">>)

lending_repay(pool_script_hash, index, min_repay) ==
    <<PushInt(index), Op("ReadOutputValue"), PushInt(min_repay), Op("Ge"), Op("Verify"),
      PushInt(index), PushBytes(pool_script_hash), Op("AssertOutputScriptHash"), Op("Op1")>>

-----------------------------------------------------------------------------
(* LendingPoolDatum: pool, collateral token, debt token, total collateral,  *)
(* total debt, five rates, interest multiplier (two words), accrual slot.   *)
LENDING_DATUM_LEN == 13
COLLATERAL == 3
DEBT == 4
PARAMS == 5
INTEREST == 10

ltv_valid(ltv) == ltv \in 1..BPS
lending_ltv_factor(ltv) == (BPS * LENDING_PRICE_SCALE + ltv - 1) \div ltv

(* Stack on the way in: signature, key, price, slot.                        *)
PriceIsFresh(max_age) ==
    <<Op("Over"), PushInt(1), Op("BytesToInt"), Op("Over"), PushInt(1), Op("BytesToInt")>>
    \o Ops(<<"Dup", "SlotNumber", "Le", "Verify", "SlotNumber", "Swap", "Sub">>)
    \o <<PushInt(max_age)>> \o Ops(<<"Le", "Verify">>)
Collateralised_reversed(k) ==
    push_lending_u64_as_int("ReadOutputDatum", DEBT) \o <<PushInt(k), Op("MulU128")>>
    \o push_lending_u64_as_int("ReadOutputDatum", COLLATERAL)
    \o Ops(<<"Rot", "MulU128", "GeU128", "Verify">>)
Collateralised(k) ==
    push_lending_u64_as_int("ReadOutputDatum", DEBT) \o <<PushInt(k), Op("MulU128")>>
    \o push_lending_u64_as_int("ReadOutputDatum", COLLATERAL)
    \o Ops(<<"Rot", "MulU128", "Swap", "GeU128", "Verify">>)
PriceIsSigned(prefix, oracle_pk_hash) ==
    <<Op("Swap"), PushBytes(prefix)>> \o Ops(<<"Swap", "Cat", "Swap", "Cat", "Over", "HashSha3">>)
    \o <<PushBytes(oracle_pk_hash)>>
    \o Ops(<<"Eq", "Verify", "Rot", "Rot", "CheckSigPqc", "Verify">>)
NotDecreased(old, new, offset) ==
    push_lending_u64_as_u128(new, offset) \o push_lending_u64_as_u128(old, offset) \o Ops(<<"GeU128", "Verify">>)

lending_pool_lock(pool_id, collateral_token, debt_token, params, oracle_pk_hash, max_age) ==
    LET ids == pool_id \o collateral_token \o debt_token
        interest(r) == Cells(r, INTEREST, 3)
        pinned(r) == assert_lending_datum_region(r, 0, ids) \o assert_lending_datum_region(r, PARAMS, params)
    IN  Both(LAMBDA r : assert_datum_len(r, LENDING_DATUM_LEN)) \o Both(pinned)
        \o Both(interest) \o Ops(<<"Eq", "Verify">>)
        \o <<PushInt(0), Op("ReadOutputValue"), PushInt(0), Op("ReadInputValue"),
             Op("Ge"), Op("Verify"), Op("If")>>
        \o PriceIsFresh(max_age) \o Collateralised(lending_ltv_factor(params[3][1]))
        \o PriceIsSigned(LENDING_ORACLE_DOMAIN_TAG \o pool_id, oracle_pk_hash)
        \o <<Op("Else")>>
        \o NotDecreased("ReadInputDatum", "ReadOutputDatum", COLLATERAL)
        \o NotDecreased("ReadOutputDatum", "ReadInputDatum", DEBT)
        \o <<Op("EndIf")>> \o SelfContinues

================================================================================
