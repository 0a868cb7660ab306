-------------------------------- MODULE Stealth --------------------------------
(* Stealth payments and what is told about them (qv-privacy: stealth.rs,       *)
(* view_key.rs; qv-crypto: hybrid_kem.rs, pqc_sign.rs; qv-wallet: scanner.rs,  *)
(* view_export.rs, disclose.rs, rpc_client.rs, the handlers of server.rs and   *)
(* commands of main.rs; qv-node: rpc.rs).  A sender makes a one-time output    *)
(* for an address; the recipient, an auditor with the exported view key and    *)
(* the block scanner find it again; a disclosure file proves one of them.      *)
(*                                                                             *)
(* Keys and random choices are numbers; a byte string is a record of what it   *)
(* comes from and its length, so that every length check is kept.  A digest    *)
(* is the tuple of what is hashed, and only the one-byte view tag may collide. *)
(* Kyber rejects implicitly: a ciphertext for another key gives some other     *)
(* secret, not an error.                                                       *)
EXTENDS Integers, Sequences, FiniteSets, FiniteSetsExt

CONSTANTS Wallets,                      \* numbers: each wallet's keys
          KyberLevelOf(_),              \* the Kyber level of a wallet's view key
          Values, None,
          MaxOutputs                    \* bound on outputs on the chain

VARIABLES
    blocks,     \* every output ever put on the chain
    utxo,       \* those unspent
    made,       \* whom each output was made for; 0 for a malformed one
    qvview,     \* the last exported view key
    qvdisclose, \* the last disclosure file
    changed     \* the field altered in it since, or None

vars == <<blocks, utxo, made, qvview, qvdisclose, changed>>

KyberLevel == {1, 3, 5}
DilithiumLevel == {2, 3, 5}
Bytes(of, len) == [of |-> of, len |-> len]
X25519_PK_BYTES == 32
kyber_key_bytes(level) == 100 + level
hybrid_ciphertext_bytes(level) == 200 + level
public_key_bytes(level) == 300 + level

-------------------------------------------------------------------------------
(* Keys.                                                                       *)
HybridPublicKey(w, level) ==
    [x25519 |-> Bytes(w, X25519_PK_BYTES), kyber |-> Bytes(w, kyber_key_bytes(level)), level |-> level]
generate_keypair(w, level) ==
    [public |-> HybridPublicKey(w, level), x25519_secret |-> Bytes(w, X25519_PK_BYTES),
     kyber_secret |-> Bytes(w, kyber_key_bytes(level))]
PqcPublicKey(level, bytes) ==
    IF bytes.len = public_key_bytes(level) THEN [level |-> level, bytes |-> bytes] ELSE None
from_raw_parts(level, x_pk, x_sk, k_pk, k_sk) ==
    IF x_sk.len = X25519_PK_BYTES /\ k_pk.len = kyber_key_bytes(level) /\ k_sk.len = kyber_key_bytes(level)
      THEN [public |-> [x25519 |-> x_pk, kyber |-> k_pk, level |-> level],
            x25519_secret |-> x_sk, kyber_secret |-> k_sk]
      ELSE None

(* The spend key follows from the seed at the default level; the view key is   *)
(* random and kept in the keystore.                                            *)
derive_spend_key(w) == PqcPublicKey(3, Bytes(w, public_key_bytes(3)))
PersistedViewKey(kp) ==
    [kyber_level |-> kp.public.level, x25519_pk |-> kp.public.x25519, x25519_sk |-> kp.x25519_secret,
     kyber_pk |-> kp.public.kyber, kyber_sk |-> kp.kyber_secret]
into_keypair(p) ==
    IF p.kyber_level \in KyberLevel /\ p.x25519_pk.len = X25519_PK_BYTES
      THEN from_raw_parts(p.kyber_level, p.x25519_pk, p.x25519_sk, p.kyber_pk, p.kyber_sk) ELSE None
derive_account_with_view(w) ==
    [view_kp |-> into_keypair(PersistedViewKey(generate_keypair(w, KyberLevelOf(w)))),
     spend_pk |-> derive_spend_key(w)]
address(keys) == [view_pk |-> keys.view_kp.public, spend_pk |-> keys.spend_pk]

-------------------------------------------------------------------------------
(* The hybrid KEM.                                                             *)
ecdh(a, b) == <<a, b>>
kyber_decapsulate(ct, sk) == <<ct.eph, ct.to, sk.of>>
kdf_combine(x, k, eph, peer, ct) == <<x, k, eph, peer, ct>>

encapsulate(peer, n) ==
    LET ct == [eph |-> n, to |-> peer.kyber.of, len |-> hybrid_ciphertext_bytes(peer.level)]
    IN  IF peer.kyber.len # kyber_key_bytes(peer.level) THEN None ELSE
        [ciphertext |-> ct,
         secret |-> kdf_combine(ecdh(n, peer.x25519.of), kyber_decapsulate(ct, peer.kyber), n,
                                peer.x25519, ct)]
decapsulate(local, ct, level) ==
    IF level # local.public.level \/ ct.len # hybrid_ciphertext_bytes(level) THEN None
    ELSE kdf_combine(ecdh(ct.eph, local.x25519_secret.of), kyber_decapsulate(ct, local.kyber_secret),
                     ct.eph, local.public.x25519, ct)

-------------------------------------------------------------------------------
(* Outputs.                                                                    *)
compute_view_tag(secret) == (secret[1][1] * secret[1][2]) % 2
compute_onetime_pk_hash(secret, spend_pk) == <<secret, spend_pk.bytes>>
stealth_p2pkh(hash) == hash

create_stealth_output(recipient, n) ==
    LET kem == encapsulate(recipient.view_pk, n)
    IN  IF kem = None THEN None ELSE
        [kem_ciphertext |-> kem.ciphertext, kyber_level |-> recipient.view_pk.level,
         view_tag |-> compute_view_tag(kem.secret),
         onetime_pk_hash |-> compute_onetime_pk_hash(kem.secret, recipient.spend_pk)]

scan_output_view(view_kp, spend_pk, info) ==
    LET secret == decapsulate(view_kp, info.ephemeral_pubkey, info.kyber_level)
    IN  IF info.kyber_level \notin KyberLevel THEN None
        ELSE IF secret = None THEN None
        ELSE IF compute_view_tag(secret) # info.view_tag THEN None
        ELSE [secret |-> secret, onetime_pk_hash |-> compute_onetime_pk_hash(secret, spend_pk)]

Locks(o, scan) == o.locking_script = stealth_p2pkh(scan.onetime_pk_hash)
scan_transaction(o, view_kp, spend_pk) ==
    /\ o.stealth_info # None
    /\ LET scan == scan_output_view(view_kp, spend_pk, o.stealth_info)
       IN  scan # None /\ Locks(o, scan)
scan_block(keys) == {o \in blocks : scan_transaction(o, keys.view_kp, keys.spend_pk)}

-------------------------------------------------------------------------------
(* The node's scan.  A client sends the view key part by part; the node builds *)
(* it again, and the two check the same lengths.                               *)
StealthViewKey(view_kp, spend_pk) ==
    [kyber_level |-> view_kp.public.level, dilithium_level |-> spend_pk.level,
     x25519_pk |-> view_kp.public.x25519, x25519_sk |-> view_kp.x25519_secret,
     kyber_pk |-> view_kp.public.kyber, kyber_sk |-> view_kp.kyber_secret,
     spend_pk |-> spend_pk.bytes]
into_view_keys(k) ==
    IF k.kyber_level \in KyberLevel /\ k.dilithium_level \in DilithiumLevel
       /\ k.x25519_pk.len = X25519_PK_BYTES
      THEN [view_kp |-> from_raw_parts(k.kyber_level, k.x25519_pk, k.x25519_sk, k.kyber_pk, k.kyber_sk),
            spend_pk |-> PqcPublicKey(k.dilithium_level, k.spend_pk)]
      ELSE [view_kp |-> None, spend_pk |-> None]

StealthScan(o, scan) ==
    [op |-> o.op, value |-> o.value, shared_secret |-> scan.secret,
     onetime_pk_hash |-> scan.onetime_pk_hash, kem_ciphertext |-> o.stealth_info.ephemeral_pubkey,
     view_tag |-> o.stealth_info.view_tag, kyber_level |-> o.stealth_info.kyber_level]
scan_stealth_by_tag(view_key) ==
    LET k == into_view_keys(view_key)
        hit(o) == scan_output_view(k.view_kp, k.spend_pk, o.stealth_info)
    IN  IF k.view_kp = None \/ k.spend_pk = None THEN {}
        ELSE {StealthScan(o, hit(o)) : o \in {u \in utxo : u.stealth_info # None /\ hit(u) # None}}
scan_stealth(view_key) ==
    LET k == into_view_keys(view_key)
        hit(o) == scan_output_view(k.view_kp, k.spend_pk, o.stealth_info)
    IN  IF k.view_kp = None \/ k.spend_pk = None THEN {}
        ELSE {StealthScan(o, hit(o)) : o \in {u \in utxo :
                 /\ u.stealth_info # None
                 /\ hit(u) # None
                 /\ Locks(u, hit(u))}}
get_balance_for(view_key) == FoldSet(LAMBDA m, sum : sum + m.value, 0, scan_stealth(view_key))

p2pkh_pqc(w) == <<w>>
scan_p2pkh(w) == {o \in utxo : o.stealth_info = None /\ o.locking_script = p2pkh_pqc(w)}

KeysOf(w) == derive_account_with_view(w)
view_key_payload(w) == StealthViewKey(KeysOf(w).view_kp, KeysOf(w).spend_pk)
handle_utxos(w) == [stealth |-> scan_stealth(view_key_payload(w)), plain |-> scan_p2pkh(w)]
cmd_balance(w) == [stealth |-> get_balance_for(view_key_payload(w)),
                   plain |-> FoldSet(LAMBDA o, sum : sum + o.value, 0, scan_p2pkh(w))]
handle_balance(w) == cmd_balance(w).stealth + cmd_balance(w).plain
cmd_scan(w) == handle_utxos(w)

-------------------------------------------------------------------------------
(* Payments.  A stealth payload is not checked by the chain: any field may be  *)
(* other than create_stealth_output makes it.                                  *)
Init == /\ blocks = {} /\ utxo = {} /\ made = <<>>
        /\ qvview = None /\ qvdisclose = None /\ changed = None

Fresh == Len(made) + 1
Publish(o, w) == /\ Fresh <= MaxOutputs
                 /\ blocks' = blocks \cup {o} /\ utxo' = utxo \cup {o}
                 /\ made' = Append(made, w)
                 /\ UNCHANGED <<qvview, qvdisclose, changed>>

StealthTxOutput(to, v, n) ==
    LET s == create_stealth_output(to, n)
    IN  IF s = None THEN None ELSE
        [op |-> n, value |-> v, locking_script |-> stealth_p2pkh(s.onetime_pk_hash),
         stealth_info |-> [ephemeral_pubkey |-> s.kem_ciphertext, view_tag |-> s.view_tag,
                           kyber_level |-> s.kyber_level]]

Pay(w, v) == Publish(StealthTxOutput(address(KeysOf(w)), v, Fresh), w)
PayPlain(w, v) == Publish([op |-> Fresh, value |-> v, locking_script |-> p2pkh_pqc(w),
                           stealth_info |-> None], 0)

Malformed(o) ==
    {[o EXCEPT !.stealth_info.kyber_level = 2], [o EXCEPT !.stealth_info.kyber_level = 1],
     [o EXCEPT !.stealth_info.ephemeral_pubkey.len = 0],
     [o EXCEPT !.stealth_info.view_tag = 1 - o.stealth_info.view_tag],
     [o EXCEPT !.locking_script = <<o.locking_script[1], Bytes(0, public_key_bytes(3))>>]}
PayMalformed(w, v) ==
    \E o \in Malformed(StealthTxOutput(address(KeysOf(w)), v, Fresh)) : Publish(o, 0)

Spend(o) == utxo' = utxo \ {o} /\ UNCHANGED <<blocks, made, qvview, qvdisclose, changed>>

-------------------------------------------------------------------------------
(* The view key as a file, for an auditor.                                     *)
from_keys(view_kp, spend_pk) == StealthViewKey(view_kp, spend_pk)
into_keys(export) == into_view_keys(export)

\* The server offers a download; the command refuses to overwrite a file.
handle_view_key_export(w) ==
    /\ qvview' = [wallet |-> w, export |-> from_keys(KeysOf(w).view_kp, KeysOf(w).spend_pk)]
    /\ UNCHANGED <<blocks, utxo, made, qvdisclose, changed>>
cmd_export_view_key(w) == qvview = None /\ handle_view_key_export(w)

scan_stealth_with_view_key(view_kp, spend_pk) == scan_stealth(StealthViewKey(view_kp, spend_pk))
cmd_audit_scan(export) ==
    LET k == into_keys(export) IN scan_stealth_with_view_key(k.view_kp, k.spend_pk)

-------------------------------------------------------------------------------
(* Disclosures.                                                                *)
compute_binding_hash(secret, hash, amount, blinding) == <<secret, hash, amount, blinding>>

create_disclosure(m, spend_pk, amount) ==
    [op |-> m.op, kyber_level |-> m.kyber_level, dilithium_level |-> 3,
     kem_ciphertext |-> m.kem_ciphertext, view_tag |-> m.view_tag,
     onetime_pk_hash |-> m.onetime_pk_hash, spend_pk |-> spend_pk.bytes,
     shared_secret |-> m.shared_secret, disclosed_amount |-> amount, disclosed_blinding |-> None,
     binding_hash |-> compute_binding_hash(m.shared_secret, m.onetime_pk_hash, amount, None)]

\* The proof is good if the tag, the one-time hash and the binding are those of the
\* disclosed secret.  No commitment is passed, so a blinding only enters the binding.
verify(f, spend_pk) ==
    /\ compute_view_tag(f.shared_secret) = f.view_tag
    /\ compute_onetime_pk_hash(f.shared_secret, spend_pk) = f.onetime_pk_hash
    /\ f.binding_hash = compute_binding_hash(f.shared_secret, f.onetime_pk_hash,
                                             f.disclosed_amount, f.disclosed_blinding)
verify_self_contained(f) ==
    IF f.kyber_level \notin KyberLevel \/ f.dilithium_level \notin DilithiumLevel THEN "error"
    ELSE LET spend_pk == PqcPublicKey(f.dilithium_level, f.spend_pk)
         IN  IF spend_pk = None THEN "error" ELSE IF verify(f, spend_pk) THEN "valid" ELSE "invalid"

cmd_verify_disclosure(f) == verify_self_contained(f)
handle_verify_disclosure(f) == verify_self_contained(f)

\* Only an output the wallet's own scan reports can be disclosed; the amount is the
\* caller's and need not be that of the output.
handle_disclose(w, amount) ==
    \E m \in scan_stealth(view_key_payload(w)) :
        /\ qvdisclose' = create_disclosure(m, KeysOf(w).spend_pk, amount) /\ changed' = None
        /\ UNCHANGED <<blocks, utxo, made, qvview>>
cmd_disclose(w, amount) == qvdisclose = None /\ handle_disclose(w, amount)

\* One field of the file is altered on its way to the verifier.
Altered(f) ==
    {<<"op", [f EXCEPT !.op = 0]>>, <<"kyber_level", [f EXCEPT !.kyber_level = 5]>>,
     <<"unknown_level", [f EXCEPT !.kyber_level = 2]>>,
     <<"dilithium_level", [f EXCEPT !.dilithium_level = 5]>>,
     <<"kem_ciphertext", [f EXCEPT !.kem_ciphertext.len = 0]>>,
     <<"view_tag", [f EXCEPT !.view_tag = 1 - f.view_tag]>>,
     <<"onetime_pk_hash", [f EXCEPT !.onetime_pk_hash = <<f.shared_secret, Bytes(0, 0)>>]>>,
     <<"spend_pk", [f EXCEPT !.spend_pk.of = 0]>>,
     <<"shared_secret", [f EXCEPT !.shared_secret[2] = <<0, 0, 0>>]>>,
     <<"disclosed_amount", [f EXCEPT !.disclosed_amount = 0]>>,
     <<"disclosed_blinding", [f EXCEPT !.disclosed_blinding = 0]>>,
     <<"binding_hash", [f EXCEPT !.binding_hash = <<>>]>>}
Alter == /\ qvdisclose # None /\ changed = None
         /\ \E a \in Altered(qvdisclose) : changed' = a[1] /\ qvdisclose' = a[2]
         /\ UNCHANGED <<blocks, utxo, made, qvview>>

Next == \/ \E w \in Wallets, v \in Values : Pay(w, v) \/ PayPlain(w, v) \/ PayMalformed(w, v)
        \/ \E o \in utxo : Spend(o)
        \/ \E w \in Wallets : handle_view_key_export(w) \/ cmd_export_view_key(w)
        \/ \E w \in Wallets, a \in Values \cup {None} : handle_disclose(w, a) \/ cmd_disclose(w, a)
        \/ Alter

Spec == Init /\ [][Next]_vars

-------------------------------------------------------------------------------
Ours(w, outputs) == {o.op : o \in {u \in outputs : made[u.op] = w}}

\* A wallet, an auditor with its exported view key and the block scanner find exactly
\* the outputs that were made for it, malformed and foreign ones with its view tag left
\* out, and the balance is their sum with the plain outputs (scan_stealth,
\* scan_transaction, get_balance_for, ViewKeyExport::into_keys).
FoundExactly ==
    \A w \in Wallets :
        LET found == {m.op : m \in cmd_scan(w).stealth}
        IN  /\ found = Ours(w, utxo)
            /\ {o.op : o \in scan_block(KeysOf(w))} = Ours(w, blocks)
            /\ (qvview # None => (qvview.wallet = w =>
                    {m.op : m \in cmd_audit_scan(qvview.export)} = found))
            /\ handle_balance(w) =
                   FoldSet(LAMBDA o, sum : sum + o.value, 0,
                           {o \in utxo : made[o.op] = w \/ o \in scan_p2pkh(w)})

\* A disclosure verifies as it was written, and with one field altered only if that
\* field is not part of what it proves: the outpoint, the ciphertext and the Kyber level
\* (DisclosureFile::verify_self_contained).
Unbound == {"op", "kyber_level", "kem_ciphertext"}
DisclosureBinds ==
    qvdisclose # None =>
        \A verdict \in {handle_verify_disclosure(qvdisclose), cmd_verify_disclosure(qvdisclose)} :
            verdict = "valid" <=> (changed = None \/ changed \in Unbound)

StealthExact == FoundExactly /\ DisclosureBinds
================================================================================
