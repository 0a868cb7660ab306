----------------------------- MODULE EncryptedPool -----------------------------
(* The encrypted mempool (qv-mempool/src/encrypted.rs), the committee that  *)
(* makes decryption shares for it (qv-miner/src/committee.rs) and the two   *)
(* block assemblers that read it (qv-miner/src/block_producer.rs).          *)
(*                                                                         *)
(* An envelope is identified by the hash of its ciphertext, a transaction   *)
(* by its own hash: the two are different values.  A decryption share is   *)
(* C1^s, so it opens the one ciphertext it was made from.                   *)
EXTENDS Integers, Sequences, FiniteSets, FiniteSetsExt, SequencesExt

CONSTANTS
    Envelopes,          \* ciphertext hashes
    Body(_),            \* the transaction sealed in an envelope, or Garbage
    Garbage,            \* a plaintext that does not deserialize
    WellFormed(_),      \* kem_ciphertext has its 64 bytes, the body its nonce
    SizeOf(_),          \* estimated_size
    ClearSnapshots,     \* sequences of [tx, fee] that all_sorted may return
    RankValues,         \* what the first bytes of a committee VRF output encode
    committee_size, committee_threshold,
    max_tx_count, max_pool_bytes, max_age_secs,
    MaxAmount,          \* Amount::MAX: a fee sum above it is an error
    Subsidy,            \* block subsidy of the height produced
    Coinbase,           \* the coinbase transaction
    MaxEpoch, MaxTime, MaxShares    \* bounds

VARIABLES
    by_id,          \* envelope -> [target_epoch, received_at]
    current_epoch,
    total_bytes,
    now,            \* the system clock
    shares,         \* decryption shares collected by the slot leader
    block           \* the last block assembled, or NoBlock

vars == <<by_id, current_epoch, total_bytes, now, shares, block>>

NoBlock == [ids |-> <<>>, txs |-> <<>>]
Entries == DOMAIN by_id
SumSizes(ids) == SumFunction([e \in ids |-> SizeOf(e)])
Without(ids) == [e \in Entries \ ids |-> by_id[e]]

Init ==
    /\ by_id = <<>> /\ current_epoch = 0 /\ total_bytes = 0
    /\ now = 0 /\ shares = <<>> /\ block = NoBlock

Tick == now < MaxTime /\ now' = now + 1
        /\ UNCHANGED <<by_id, current_epoch, total_bytes, shares, block>>

(* add: the epoch, the duplicate and both limits are checked in turn.      *)
add_envelope(e, epoch) ==
    /\ epoch = current_epoch
    /\ e \notin Entries
    /\ Cardinality(Entries) < max_tx_count
    /\ total_bytes + SizeOf(e) <= max_pool_bytes
    /\ by_id' = [x \in Entries \cup {e} |->
                    IF x = e THEN [target_epoch |-> epoch, received_at |-> now]
                    ELSE by_id[x]]
    /\ total_bytes' = total_bytes + SizeOf(e)
    /\ UNCHANGED <<current_epoch, now, shares, block>>

removed_keeping_bytes(ids) == by_id' = Without(ids) /\ UNCHANGED total_bytes
removed(ids) ==
    /\ by_id' = Without(ids)
    /\ total_bytes' = Max({0, total_bytes - SumSizes(ids)})

remove(e) == e \in Entries /\ removed({e})
             /\ UNCHANGED <<current_epoch, now, shares, block>>

expired == {e \in Entries : by_id[e].received_at < Max({0, now - max_age_secs})}
evict_expired == expired # {} /\ removed(expired)
                 /\ UNCHANGED <<current_epoch, now, shares, block>>

drain_all == by_id' = <<>> /\ total_bytes' = 0

(* Any epoch may follow: everything pooled for the old one is dropped.     *)
advance_epoch(epoch) ==
    /\ drain_all /\ current_epoch' = epoch
    /\ UNCHANGED <<now, shares, block>>

-----------------------------------------------------------------------------
(* Committee: the VRF rank of an operator in the epoch.                    *)

vrf_output_to_rank(value) == value % committee_size
is_committee_member(value) ==
    /\ committee_size # 0 /\ committee_threshold <= committee_size
    /\ vrf_output_to_rank(value) < committee_threshold

(* A member's share for one pooled envelope reaches the leader.            *)
create_envelope_share(member, e) ==
    /\ is_committee_member(member) /\ e \in Entries /\ WellFormed(e)
    /\ Len(shares) < MaxShares
    /\ shares' = Append(shares, [member |-> member, opens |-> e])
    /\ UNCHANGED <<by_id, current_epoch, total_bytes, now, block>>

(* DkgEnvelopeDecryptor::decrypt: the first `threshold` shares are          *)
(* interpolated without looking whose they are; what does not interpolate  *)
(* to the envelope's own key fails the authentication tag.                 *)
decrypts(e) ==
    /\ Len(shares) >= committee_threshold /\ WellFormed(e)
    /\ \A i \in 1..committee_threshold :
        /\ shares[i].opens = e
        /\ \A j \in 1..committee_threshold :
            i # j => shares[i].member # shares[j].member

(* decrypt_batch drains the pool first, then opens what it can, in the     *)
(* order of a hash map.                                                    *)
decrypt_batch(order) ==
    /\ drain_all
    /\ ToSet(order) = {e \in Entries : decrypts(e)} /\ IsInjective(order)

-----------------------------------------------------------------------------
(* Block assembly.                                                         *)

Fees(clear) == FoldSeq(LAMBDA c, acc : acc + c.fee, 0, clear)
TxsOf(clear) == [i \in DOMAIN clear |-> clear[i].tx]
build_coinbase(rewarded, fees) ==
    IF rewarded /\ Subsidy + fees # 0 THEN <<Coinbase>> ELSE <<>>

(* Without a place on the committee only the clear pool goes in.           *)
produce_block(clear, rewarded) ==
    /\ Fees(clear) <= MaxAmount
    /\ LET txs == build_coinbase(rewarded, Fees(clear)) \o TxsOf(clear)
       IN  block' = [ids |-> txs, txs |-> txs]
    /\ UNCHANGED <<by_id, current_epoch, total_bytes, now, shares>>

(* The merkle root is taken over the envelope identifiers of the decrypted *)
(* transactions; a fee overflow is noticed after the pool was drained.     *)
(* The leader collects shares anew for the next block.                     *)
produce_block_with_decryption(clear, rewarded, order) ==
    /\ decrypt_batch(order)
    /\ LET readable == SelectSeq(order, LAMBDA e : Body(e) # Garbage)
           opened   == [i \in DOMAIN readable |-> Body(readable[i])]
           coinbase == build_coinbase(rewarded, Fees(clear))
       IN  block' = IF Fees(clear) > MaxAmount THEN block
                    ELSE [ids |-> coinbase \o TxsOf(clear) \o readable,
                          txs |-> coinbase \o TxsOf(clear) \o opened]
    /\ shares' = <<>>
    /\ UNCHANGED <<current_epoch, now>>

Orders == UNION {{o \in [1..n -> Entries] : IsInjective(o)} : n \in 0..Cardinality(Entries)}

Next ==
    \/ Tick
    \/ \E e \in Envelopes, epoch \in 0..MaxEpoch : add_envelope(e, epoch)
    \/ \E e \in Entries : remove(e)
    \/ evict_expired
    \/ \E epoch \in 0..MaxEpoch : advance_epoch(epoch)
    \/ \E m \in RankValues, e \in Entries : create_envelope_share(m, e)
    \/ \E c \in ClearSnapshots, r \in BOOLEAN : produce_block(c, r)
    \/ \E c \in ClearSnapshots, r \in BOOLEAN, o \in Orders :
            produce_block_with_decryption(c, r, o)

Spec == Init /\ [][Next]_vars

-----------------------------------------------------------------------------

(* The byte counter that admission relies on is the size of what is in the *)
(* pool after any mix of removals, expiry, epoch changes and drains, the    *)
(* pool stays within both limits, and every entry is of the current epoch. *)
Accounted ==
    /\ total_bytes = SumSizes(Entries)
    /\ total_bytes <= max_pool_bytes /\ Cardinality(Entries) <= max_tx_count
    /\ \A e \in Entries : by_id[e].target_epoch = current_epoch

================================================================================
