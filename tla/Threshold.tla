------------------------------- MODULE Threshold -------------------------------
(* Secret sharing and distributed key generation of the encrypted mempool  *)
(* (qv-crypto/src/threshold.rs): Shamir shares, Feldman commitments, the    *)
(* Pedersen round and ElGamal decryption by shares, over the field of P     *)
(* elements.  The 256-bit limb arithmetic of `field` is arithmetic modulo   *)
(* P; a coefficient, a hash in the code, is any member of Coefficients.     *)
EXTENDS Integers, Sequences

CONSTANTS
    P,              \* the prime modulus, 2^256 - 189 in the code
    GENERATOR,      \* 2
    Coefficients,   \* the values a hashed coefficient takes
    threshold, total,
    MaxHeld         \* bound: shares a combiner collects

VARIABLES
    round,  \* the last sharing round: its secret, its shares, its public key
    held,   \* the shares a combiner has received, in order of arrival
    sealed  \* a ciphertext under the round's key

vars == <<round, held, sealed>>

(* mod field *)
add(a, b) == (a + b) % P
sub(a, b) == (a - b) % P
mul(a, b) == (a * b) % P
pow(base, exp) ==
    LET p[e \in 0..exp] == IF e = 0 THEN 1 ELSE mul(p[e - 1], base) IN p[exp]
inv(a) == pow(a, P - 2)

(* The constant coefficient is the secret; Horner from the last one.       *)
poly_eval_reversed(coeffs, x) ==
    LET h[k \in 0..Len(coeffs)] ==
            IF k = 0 THEN 0 ELSE add(mul(h[k - 1], x), coeffs[k])
    IN  h[Len(coeffs)]
poly_eval(coeffs, x) ==
    LET n == Len(coeffs)
        h[k \in 0..n] ==
            IF k = 0 THEN 0 ELSE add(mul(h[k - 1], x), coeffs[n + 1 - k])
    IN  h[n]

Polynomials == [1..threshold -> Coefficients]
ShamirShare(index, value) == [index |-> index, value |-> value]

split_secret(coefficients) ==
    [idx \in 1..total |-> ShamirShare(idx, poly_eval(coefficients, idx))]

(* Lagrange weight at zero of the i-th of the used indices.                *)
basis(used, i) ==
    LET num[j \in 0..Len(used)] ==
            CASE j = 0 -> 1
              [] j = i -> num[j - 1]
              [] OTHER -> mul(num[j - 1], sub(0, used[j].index))
        den[j \in 0..Len(used)] ==
            CASE j = 0 -> 1
              [] j = i -> den[j - 1]
              [] OTHER -> mul(den[j - 1], sub(used[i].index, used[j].index))
    IN  mul(num[Len(used)], inv(den[Len(used)]))

distinct(used) ==
    \A i, j \in DOMAIN used : i # j => used[i].index # used[j].index

Error == [error |-> TRUE]
Ok(v) == [error |-> FALSE, value |-> v]

reconstruct_secret(shares, t) ==
    IF Len(shares) < t THEN Error
    ELSE LET used == SubSeq(shares, 1, t)
             sum[i \in 0..t] ==
                IF i = 0 THEN 0
                ELSE add(sum[i - 1], mul(used[i].value, basis(used, i)))
         IN  IF distinct(used) /\ \A i \in 1..t : used[i].index # 0
             THEN Ok(sum[t]) ELSE Error

(* FeldmanVssParticipant: commitments to the coefficients, and the check   *)
(* of the share that participant j (counted from zero) receives.           *)
compute_commitments(coefficients) ==
    [k \in DOMAIN coefficients |-> pow(GENERATOR, coefficients[k])]
compute_shares(coefficients, id) ==
    [j \in (0..total - 1) \ {id} |-> poly_eval(coefficients, j + 1)]
verify_share_against_commitments(j, share, commitments) ==
    LET n == Len(commitments)
        j_power[k \in 1..n] == IF k = 1 THEN 1 ELSE mul(j_power[k - 1], j + 1)
        rhs[k \in 0..n] ==
            IF k = 0 THEN 1
            ELSE mul(rhs[k - 1], pow(commitments[k], j_power[k]))
    IN  pow(GENERATOR, share) = rhs[n]

FeldmanVerifies(parts) ==
    \A i \in 0..total - 1 :
        LET shares == compute_shares(parts[i], i)
        IN  \A j \in DOMAIN shares :
                verify_share_against_commitments(
                    j, shares[j], compute_commitments(parts[i]))

SumOf(f) == LET s[i \in 0..total] == IF i = 0 THEN 0 ELSE add(s[i - 1], f[i - 1])
            IN  s[total]
ProductOf(f) == LET s[i \in 0..total] == IF i = 0 THEN 1 ELSE mul(s[i - 1], f[i - 1])
                IN  s[total]

(* Every share is verified, the shares of one recipient are added up, and  *)
(* the product of the constant commitments must be the key of the sum.     *)
run_pedersen_dkg(parts) ==
    LET ids    == 0..total - 1
        secret == SumOf([i \in ids |-> parts[i][1]])
        pk     == ProductOf([i \in ids |-> compute_commitments(parts[i])[1]])
    IN  IF total < 2 \/ ~FeldmanVerifies(parts) \/ pk # pow(GENERATOR, secret)
        THEN Error
        ELSE Ok([secret |-> secret, public_key |-> pk,
                 shares |-> [j \in 1..total |-> ShamirShare(j,
                     SumOf([i \in ids |-> poly_eval(parts[i], j)]))]])

(* DkgThresholdDecryptor: C1 is g^r, C2 the message under a mask that is   *)
(* known to whoever knows pk^r.                                            *)
encrypt(pk, r) == [c1 |-> pow(GENERATOR, r), shared |-> pow(pk, r)]
create_decryption_share(key, c1) == ShamirShare(key.index, pow(c1, key.value))
combine_shares(shares, t) ==
    LET used == SubSeq(shares, 1, t)
        prod[i \in 0..t] ==
            IF i = 0 THEN 1
            ELSE mul(prod[i - 1], pow(used[i].value, basis(used, i)))
    IN  IF Len(shares) < t THEN Error ELSE Ok(prod[t])

-----------------------------------------------------------------------------

Idle == [kind |-> "idle"]
Unsealed == [c1 |-> 0, shared |-> 0]
Init == round = Idle /\ held = <<>> /\ sealed = Unsealed

Split(coefficients) ==
    /\ round = Idle
    /\ threshold # 0 /\ threshold <= total /\ total <= 255
    /\ round' = [kind |-> "split", secret |-> coefficients[1],
                 shares |-> split_secret(coefficients)]
    /\ UNCHANGED <<held, sealed>>

(* One Pedersen round of honest participants.                              *)
Generate(parts) ==
    /\ round = Idle
    /\ LET r == run_pedersen_dkg(parts)
       IN  round' = IF r.error THEN [kind |-> "failed"]
                    ELSE [kind |-> "dkg", secret |-> r.value.secret,
                          shares |-> r.value.shares, public_key |-> r.value.public_key]
    /\ UNCHANGED <<held, sealed>>

(* A share arrives: in any order, any of them more than once.              *)
Receive(j) ==
    /\ round.kind \in {"split", "dkg"} /\ Len(held) < MaxHeld
    /\ held' = Append(held, round.shares[j])
    /\ UNCHANGED <<round, sealed>>

Seal(r) ==
    /\ round.kind = "dkg" /\ sealed = Unsealed /\ held = <<>>
    /\ sealed' = encrypt(round.public_key, r)
    /\ UNCHANGED <<round, held>>

Retry == round.kind = "failed" /\ round' = Idle /\ UNCHANGED <<held, sealed>>

Next ==
    \/ \E c \in Polynomials : Split(c)
    \/ \E parts \in [0..total - 1 -> Polynomials] : Generate(parts)
    \/ \E j \in 1..total : Receive(j)
    \/ \E r \in Coefficients \ {0} : Seal(r)
    \/ Retry

Spec == Init /\ [][Next]_vars

-----------------------------------------------------------------------------

(* reconstruct_secret gives the shared secret for the first `threshold`     *)
(* shares to arrive, whichever members sent them and in whichever order,   *)
(* for a dealer's polynomial and for the sum of the participants' own, and *)
(* never anything else: it fails for too few shares and for a repeated one. *)
(* combine_shares opens a ciphertext as long as the weighted shares add up  *)
(* without passing P: its exponents live modulo P - 1, the shares modulo P. *)
Enough == Len(held) >= threshold /\ distinct(SubSeq(held, 1, threshold))
WeightedSum ==
    LET used == SubSeq(held, 1, threshold)
        sum[i \in 0..threshold] ==
            IF i = 0 THEN 0 ELSE sum[i - 1] + used[i].value * basis(used, i)
    IN  sum[threshold]
SharesReconstruct ==
    round.kind \in {"split", "dkg"} =>
        LET r == reconstruct_secret(held, threshold)
            d == [i \in DOMAIN held |-> create_decryption_share(held[i], sealed.c1)]
        IN  /\ IF Enough THEN r = Ok(round.secret) ELSE r.error
            /\ (sealed # Unsealed /\ Enough) =>
                   (WeightedSum < P => combine_shares(d, threshold) = Ok(sealed.shared))

================================================================================
