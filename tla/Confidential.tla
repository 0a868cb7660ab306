------------------------------ MODULE Confidential ------------------------------
(* Hidden amounts (qv-privacy/src/confidential.rs): the amounts of a transfer   *)
(* are plain or commitments with range proofs, and anyone checks that inputs    *)
(* and outputs balance.  The committer and prover are those of the source, the  *)
(* hash commitment and the proof that shows its opening; no other is there.     *)
(*                                                                              *)
(* A commitment is the term hashed; a proof is the sequence of what it shows,   *)
(* value and blinding, and shorter if cut.  Between making and checking, parts  *)
(* of the transfer may be exchanged or cut.                                     *)
EXTENDS Integers, Sequences, SequencesExt, FiniteSetsExt

CONSTANTS Values, Blindings, Fees, None,
          MaxAmounts            \* bound on the amounts of either side

VARIABLES inputs, outputs,      \* sequences of amounts
          fee,
          altered               \* has a part been exchanged or cut?
vars == <<inputs, outputs, fee, altered>>

-------------------------------------------------------------------------------
mock_commit_hash(value, blinding) == [domain |-> "commitment", value |-> value, blinding |-> blinding]
commit(value, blinding) == mock_commit_hash(value, blinding)
verify_opening(commitment, value, blinding) == commitment = mock_commit_hash(value, blinding)

prove(value, blinding) == <<value, blinding>>
verify(commitment, proof) == Len(proof) >= 2 /\ verify_opening(commitment, proof[1], proof[2])

plain(v) == [plain |-> v, commitment |-> None, range_proof |-> <<>>]
confidential(v, r) == [plain |-> None, commitment |-> commit(v, r), range_proof |-> prove(v, r)]
is_confidential(a) == a.commitment # None
plain_value(a) == a.plain

\* The value counted is the proof's, once the proof is verified.
Counted(a) == IF is_confidential(a) THEN a.range_proof[1] ELSE plain_value(a)
Sum(amounts) == FoldLeft(LAMBDA acc, a : acc + Counted(a), 0, amounts)
Verified(amounts) == \A i \in DOMAIN amounts :
    is_confidential(amounts[i]) => verify(amounts[i].commitment, amounts[i].range_proof)
verify_balance_mock == IF ~Verified(inputs) \/ ~Verified(outputs) THEN "InvalidProof"
                       ELSE IF Sum(inputs) = Sum(outputs) + fee THEN "balanced" ELSE "unbalanced"

-------------------------------------------------------------------------------
Init == inputs = <<>> /\ outputs = <<>> /\ fee \in Fees /\ altered = FALSE

Amount == {plain(v) : v \in Values} \cup {confidential(v, r) : v \in Values, r \in Blindings}
AddInput(a) == /\ Len(inputs) < MaxAmounts /\ ~altered
               /\ inputs' = Append(inputs, a) /\ UNCHANGED <<outputs, fee, altered>>
AddOutput(a) == /\ Len(outputs) < MaxAmounts /\ ~altered
                /\ outputs' = Append(outputs, a) /\ UNCHANGED <<inputs, fee, altered>>

\* One amount shows another's commitment, or its proof is another's or cut.
AlterOutput(i, a) ==
    /\ i \in DOMAIN outputs /\ is_confidential(outputs[i]) /\ is_confidential(a) /\ ~altered
    /\ \/ outputs' = [outputs EXCEPT ![i].commitment = a.commitment]
       \/ outputs' = [outputs EXCEPT ![i].range_proof = a.range_proof]
       \/ outputs' = [outputs EXCEPT ![i].range_proof = SubSeq(@, 1, 1)]
    /\ altered' = TRUE /\ UNCHANGED <<inputs, fee>>

Next == \/ \E a \in Amount : AddInput(a) \/ AddOutput(a)
        \/ \E i \in 1..MaxAmounts, a \in Amount : AlterOutput(i, a)
Spec == Init /\ [][Next]_vars

-------------------------------------------------------------------------------
\* What an amount is bound to: the value committed, whatever its proof shows.
Bound(a) == IF is_confidential(a) THEN a.commitment.value ELSE a.plain
BoundSum(amounts) == FoldLeft(LAMBDA acc, a : acc + Bound(a), 0, amounts)

\* A transfer passes exactly if the committed values balance and every proof opens its
\* commitment: a hidden amount counts for what it is bound to, and one whose commitment
\* or proof was exchanged for another's is refused (verify_balance_mock, verify).
BalanceExact ==
    /\ verify_balance_mock = "balanced" => BoundSum(inputs) = BoundSum(outputs) + fee
    /\ ~altered => verify_balance_mock = (IF BoundSum(inputs) = BoundSum(outputs) + fee
                                          THEN "balanced" ELSE "unbalanced")
    /\ \A i \in DOMAIN outputs : is_confidential(outputs[i]) =>
        (verify_balance_mock # "InvalidProof" =>
            outputs[i] = confidential(Bound(outputs[i]), outputs[i].commitment.blinding))
================================================================================
