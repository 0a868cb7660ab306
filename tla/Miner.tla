--------------------------------- MODULE Miner ---------------------------------
(* An operator that produces blocks over the RPC interface of a node: the    *)
(* slot loop, leader election, the sequence of calls that builds a block, the*)
(* header it stamps, and the header rules of qv-consensus.  Hashes are terms.*)
EXTENDS Integers, Sequences, SequencesExt

CONSTANTS slot_duration_ms, epoch_slots, tick_ms, MaxTime,   \* clock and its bound
          FIXED_BITS, LN_ONE_MINUS_F_MAG, LEADER_EXP_TERMS,  \* 64, ~2^64 ln(1/0.95), 9
          VrfValues,          \* outcomes of a VRF, below 2^FIXED_BITS
          pool_stake, total_stake,
          VrfKey, KesKey, Nonce, Txs,
          MaxBlocks           \* bound on the blocks of other producers

VARIABLES now,       \* wall clock in ms
          due,       \* ticks of the interval that wait to be handled
          loop,      \* SlotLoop: current_slot, current_epoch, epoch_nonce
          node,      \* what the RPC answers: tip and pending transactions
          work,      \* the block under construction, by stage
          submitted  \* history: headers that were submitted, with parent and time

vars == <<now, due, loop, node, work, submitted>>

-------------------------------------------------------------------------------
(* Slots, epochs and stake.                                                  *)

time_to_slot(ms) == ms \div slot_duration_ms
slot_to_epoch(slot) == slot \div epoch_slots
slot_start_time_ms(slot) == slot * slot_duration_ms
sha3(x) == <<"sha3", x>>
pool_id_from(vrf_key) == sha3(vrf_key)

-------------------------------------------------------------------------------
(* Leader election in fixed point.                                           *)

LEADER_FIXED_SCALE == 2 ^ FIXED_BITS

\* exp(-m) as a Taylor sum, each term rounded down.
exp_neg_fixed(m) ==
    FoldLeft(LAMBDA s, k :
                 LET term == ((s.term * m) \div LEADER_FIXED_SCALE) \div k IN
                 [term |-> term, acc |-> IF k % 2 = 1 THEN s.acc - term ELSE s.acc + term],
             [term |-> LEADER_FIXED_SCALE, acc |-> LEADER_FIXED_SCALE],
             [k \in 1..LEADER_EXP_TERMS |-> k]).acc

leader_threshold_fixed(num, den) == LEADER_FIXED_SCALE - exp_neg_fixed((num * LN_ONE_MINUS_F_MAG) \div den)

is_slot_leader(num, den, value) == num # 0 /\ den # 0 /\ value < leader_threshold_fixed(num, den)

vrf_input(nonce, slot) == <<"QV-VRF", nonce, slot>>
\* A proof binds key, input and output; the output is any value, fixed by the other two.
evaluate(key, input, value) == [key |-> key, input |-> input, value |-> value]
verify(key, input, proof) == proof = evaluate(key, input, proof.value)
vrf_evaluate(nonce, slot, value) == evaluate(VrfKey, vrf_input(nonce, slot), value)

check_leadership(proof) == is_slot_leader(pool_stake, total_stake, proof.value)
verify_leadership(key, nonce, slot, proof) ==
    /\ verify(key, vrf_input(nonce, slot), proof)
    /\ is_slot_leader(pool_stake, total_stake, proof.value)

-------------------------------------------------------------------------------
(* Headers.                                                                  *)

Unsigned == [period |-> -1]

\* The key is loaded once, in the period on file, and not rotated while the miner runs.
kes_sign(message) == [period |-> 0, key |-> KesKey, message |-> message]

unsigned_header(w) ==
    [prev_hash |-> w.tip.hash, height |-> w.tip.height + 1, slot |-> w.slot,
     timestamp |-> now \div 1000, body |-> w.txs, utxo_commitment |-> w.commitment,
     vrf_proof |-> w.proof, kes_sig |-> Unsigned,
     producer_key_hash |-> sha3(pool_id_from(VrfKey))]

signed_header(w) == [unsigned_header(w) EXCEPT !.kes_sig = kes_sign(unsigned_header(w))]

canonical_bytes(header) == header
slot_to_kes_period(slot) == slot_to_epoch(slot)

verify_kes(period, message, sig) ==
    /\ sig # Unsigned
    /\ sig.period = period
    /\ sig = [period |-> sig.period, key |-> KesKey, message |-> message]

find_pool_by_key_hash(hash) == {key \in {VrfKey} : sha3(key) = hash}

validate_block_header(header, parent) ==
    /\ header.prev_hash = parent.hash
    /\ header.slot > parent.slot
    /\ header.height = parent.height + 1
    /\ LET start == slot_start_time_ms(header.slot) \div 1000 IN
       header.timestamp >= start /\ header.timestamp < start + (slot_duration_ms \div 1000)
    /\ \E key \in find_pool_by_key_hash(header.producer_key_hash) :
         verify_leadership(key, Nonce, header.slot, header.vrf_proof)
    /\ verify_kes(slot_to_kes_period(header.slot), canonical_bytes(header), header.kes_sig)

-------------------------------------------------------------------------------
Waiting == [stage |-> "waiting"]

\* cmd_run reads the clock once, then the loop counts.
Init ==
    /\ now = 0
    /\ due = 1
    /\ loop = [current_slot |-> time_to_slot(0), current_epoch |-> slot_to_epoch(time_to_slot(0))]
    /\ node = [tip |-> [hash |-> 0, height |-> 0, slot |-> 0], pending |-> {}]
    /\ work = Waiting
    /\ submitted = {}

Elapse ==
    /\ now < MaxTime
    /\ now' = now + tick_ms
    /\ due' = IF now' % slot_duration_ms = 0 THEN due + 1 ELSE due
    /\ UNCHANGED <<loop, node, work, submitted>>

\* The nonce and the stakes stay those of the start.
advance_slot_by_clock == [current_slot |-> time_to_slot(now), current_epoch |-> slot_to_epoch(time_to_slot(now))]
advance_slot == [current_slot |-> loop.current_slot + 1,
                 current_epoch |-> slot_to_epoch(loop.current_slot + 1)]

RunSlotLoop ==
    /\ due > 0
    /\ work = Waiting
    /\ due' = due - 1
    /\ loop' = advance_slot
    /\ \E value \in VrfValues :
         LET proof == vrf_evaluate(Nonce, advance_slot.current_slot, value) IN
         work' = IF check_leadership(proof)
                 THEN [stage |-> "get_tip", slot |-> advance_slot.current_slot, proof |-> proof]
                 ELSE Waiting
    /\ UNCHANGED <<now, node, submitted>>

Call(stage, result) ==
    /\ work.stage = stage
    /\ work' = result
    /\ UNCHANGED <<now, due, loop, node, submitted>>

\* What the node answers, each call from its state at that moment.
get_tip == node.tip
get_pending_transactions == node.pending
get_post_apply_commitment(txs) == <<node.tip.hash, txs>>

GetTip == Call("get_tip", [stage |-> "get_pending", slot |-> work.slot, proof |-> work.proof,
                           tip |-> get_tip])
GetPending == Call("get_pending", [stage |-> "get_commitment", slot |-> work.slot, proof |-> work.proof,
                                   tip |-> work.tip, txs |-> get_pending_transactions])
GetCommitment == Call("get_commitment",
    [stage |-> "sign", slot |-> work.slot, proof |-> work.proof, tip |-> work.tip,
     txs |-> work.txs, commitment |-> get_post_apply_commitment(work.txs)])

submit_block(header) == submitted' = submitted \cup {[header |-> header, parent |-> work.tip, at |-> now]}
SubmitBlock ==
    /\ work.stage = "sign"
    /\ submit_block(signed_header(work))
    /\ work' = Waiting
    /\ UNCHANGED <<now, due, loop, node>>

\* An RPC call fails; the slot is given up.
Fail == work # Waiting /\ work' = Waiting /\ UNCHANGED <<now, due, loop, node, submitted>>

\* Another producer extends the chain of the node, or a transaction arrives.
NodeMoves ==
    /\ \/ /\ node.tip.height < MaxBlocks
          /\ time_to_slot(now) > node.tip.slot
          /\ node' = [tip |-> [hash |-> node.tip.hash + 1, height |-> node.tip.height + 1,
                               slot |-> time_to_slot(now)], pending |-> {}]
       \/ \E t \in Txs : node' = [node EXCEPT !.pending = @ \cup {t}]
    /\ UNCHANGED <<now, due, loop, work, submitted>>

Next ==
    \/ Elapse \/ RunSlotLoop \/ GetTip \/ GetPending \/ GetCommitment \/ SubmitBlock
    \/ Fail \/ NodeMoves

Spec == Init /\ [][Next]_vars

-------------------------------------------------------------------------------
\* The miner never signs two headers for one slot, whatever fails or is delayed, and
\* runs at most one slot ahead of the clock; what it submits is a header for the tip
\* it read first (SlotLoop::advance_slot, the block producer of cmd_run).
SignsOnce ==
    /\ \A r, s \in submitted : r.header.slot = s.header.slot => r = s
    /\ loop.current_slot <= time_to_slot(now) + 1
    /\ \A s \in submitted : s.header.slot <= loop.current_slot

\* A header that is stamped in its slot, in the first KES period, passes the header
\* rules: the producer "matches the symmetric verifier path in `qv-consensus`" (main.rs).
HeadersPass ==
    \A s \in submitted :
        time_to_slot(s.at) = s.header.slot /\ slot_to_kes_period(s.header.slot) = 0
            => validate_block_header(s.header, s.parent)

===============================================================================
