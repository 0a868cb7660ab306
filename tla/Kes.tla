---------------------------------- MODULE Kes ----------------------------------
(* The key-evolving signatures of a block producer (qv-crypto kes.rs) and    *)
(* the keystore file that carries the key over restarts (qv-miner keys.rs,   *)
(* keystore.rs).  Hashes are terms; the key pair of a leaf is its seed.      *)
EXTENDS Integers, Sequences, FiniteSets

CONSTANTS KES_TREE_DEPTH,   \* 11 in the code
          Headers,          \* messages to sign
          Passwords,
          MaxSignatures     \* bound on the history

VARIABLES sk,      \* KesSecretKey in memory, or Down
          file,    \* the keystore: Absent, TornFile or [password, kes_period]
          signed   \* history: [sig, msg, floor], floor the period on file

vars == <<sk, file, signed>>

power[d \in 0..KES_TREE_DEPTH] == IF d = 0 THEN 1 ELSE 2 * power[d - 1]   \* 1 << d
KES_TOTAL_PERIODS == power[KES_TREE_DEPTH]
Periods == 0..(KES_TOTAL_PERIODS - 1)
Down == [period |-> -1, leaf_seeds |-> <<>>]
Absent == [kind |-> "absent"]
TornFile == [kind |-> "torn"]

-------------------------------------------------------------------------------
(* The Merkle tree over the leaf keys.                                       *)

derive_leaf_seed(period) == <<"seed", period>>
Zeroed == <<"seed", -1>>
leaf_pk_hash(leaf_pk) == <<"leaf", leaf_pk>>
internal_node_hash(left, right) == <<"node", left, right>>

leaves == [i \in 1..KES_TOTAL_PERIODS |-> leaf_pk_hash(derive_leaf_seed(i - 1))]
next_layer(layer) ==
    [i \in 1..(Len(layer) \div 2) |-> internal_node_hash(layer[2 * i - 1], layer[2 * i])]

\* layers[d] is the d-th layer above the leaves.
layers[d \in 0..KES_TREE_DEPTH] == IF d = 0 THEN leaves ELSE next_layer(layers[d - 1])

merkle_root_from_leaves == layers[KES_TREE_DEPTH][1]

sibling(i) == IF i % 2 = 0 THEN i + 1 ELSE i - 1

\* The index in each layer on the way up from leaf i.
indices(i) ==
    LET idx[d \in 0..KES_TREE_DEPTH] == IF d = 0 THEN i ELSE idx[d - 1] \div 2 IN idx

merkle_path_for_flat(i) == [d \in 1..KES_TREE_DEPTH |-> layers[d - 1][1 + indices(sibling(i))[d - 1]]]
merkle_path_for(i) == [d \in 1..KES_TREE_DEPTH |-> layers[d - 1][1 + sibling(indices(i)[d - 1])]]

climb(node, step) ==
    [index |-> node.index \div 2,
     hash |-> IF node.index % 2 = 0 THEN internal_node_hash(node.hash, step)
              ELSE internal_node_hash(step, node.hash)]

merkle_root_from_path(leaf_hash, i, path) ==
    LET current[d \in 0..Len(path)] ==
            IF d = 0 THEN [index |-> i, hash |-> leaf_hash] ELSE climb(current[d - 1], path[d])
    IN  current[Len(path)].hash

-------------------------------------------------------------------------------
(* The secret key.                                                           *)

public_key == merkle_root_from_leaves
generate == [period |-> 0, leaf_seeds |-> [i \in 1..KES_TOTAL_PERIODS |-> derive_leaf_seed(i - 1)]]
is_exhausted(key) == key.period >= KES_TOTAL_PERIODS

\* The leaf signature binds its period.
kes_sign(key, msg) ==
    LET seed == key.leaf_seeds[key.period + 1] IN
    [period |-> key.period,
     leaf_pk |-> seed,
     leaf_signature |-> [by |-> seed, period |-> key.period, msg |-> msg],
     merkle_path |-> merkle_path_for(key.period)]

kes_verify(sig, msg) ==
    /\ sig.period < KES_TOTAL_PERIODS
    /\ Len(sig.merkle_path) = KES_TREE_DEPTH
    /\ sig.leaf_signature = [by |-> sig.leaf_pk, period |-> sig.period, msg |-> msg]
    /\ merkle_root_from_path(leaf_pk_hash(sig.leaf_pk), sig.period, sig.merkle_path) = public_key

kes_evolve(key) ==
    [period |-> key.period + 1, leaf_seeds |-> [key.leaf_seeds EXCEPT ![key.period + 1] = Zeroed]]

\* The key is derived again and evolved to the period on file.
load_encrypted(stored) ==
    [period |-> stored.kes_period,
     leaf_seeds |-> [i \in 1..KES_TOTAL_PERIODS |->
                        IF i <= stored.kes_period THEN Zeroed ELSE derive_leaf_seed(i - 1)]]

-------------------------------------------------------------------------------
Init == sk = Down /\ file = Absent /\ signed = {}

Generate == sk = Down /\ file = Absent /\ sk' = generate /\ UNCHANGED <<file, signed>>

Sign(msg) ==
    /\ sk # Down
    /\ ~is_exhausted(sk)
    /\ Cardinality(signed) < MaxSignatures
    /\ signed' = signed \cup {[sig |-> kes_sign(sk, msg), msg |-> msg,
                               floor |-> IF file.kind = "ok" THEN file.kes_period ELSE 0]}
    /\ UNCHANGED <<sk, file>>

RotateKes ==
    /\ sk # Down
    /\ ~is_exhausted(sk)
    /\ sk' = kes_evolve(sk)
    /\ UNCHANGED <<file, signed>>

Stored(password, period) == [kind |-> "ok", password |-> password, kes_period |-> period]

SaveEncrypted(password) ==
    /\ sk # Down
    /\ file' = Stored(password, sk.period)
    /\ UNCHANGED <<sk, signed>>

\* The file is written in place: a crash in the middle leaves neither version.
CrashInSave == sk # Down /\ sk' = Down /\ file' = TornFile /\ UNCHANGED signed

Stop == sk # Down /\ sk' = Down /\ UNCHANGED <<file, signed>>

\* Another password, or a torn file, is an error.
Load(password) ==
    /\ sk = Down
    /\ file.kind = "ok"
    /\ file.password = password
    /\ sk' = load_encrypted(file)
    /\ UNCHANGED <<file, signed>>

ChangePassword(old, new) ==
    /\ file.kind = "ok"
    /\ file.password = old
    /\ file' = Stored(new, file.kes_period)
    /\ UNCHANGED <<sk, signed>>

Next ==
    \/ Generate \/ RotateKes \/ CrashInSave \/ Stop
    \/ \E msg \in Headers : Sign(msg)
    \/ \E p \in Passwords : SaveEncrypted(p) \/ Load(p)
    \/ \E p, q \in Passwords : ChangePassword(p, q)

Spec == Init /\ [][Next]_vars

-------------------------------------------------------------------------------
\* Whatever the key went through - rotations, restarts, new passwords - each of its
\* signatures verifies, for its own period and message only, is not older than the
\* period on file when it was made, and the key in memory cannot sign for a period
\* that is over (kes sign, verify and evolve; OperatorKeys::load_encrypted).
SignaturesExact ==
    /\ \A s \in signed :
         /\ kes_verify(s.sig, s.msg)
         /\ \A p \in Periods, m \in Headers :
              kes_verify([s.sig EXCEPT !.period = p], m) => p = s.sig.period /\ m = s.msg
         /\ s.sig.period >= s.floor
    /\ sk # Down => \A p \in Periods : sk.leaf_seeds[p + 1] = derive_leaf_seed(p) <=> p >= sk.period

===============================================================================
