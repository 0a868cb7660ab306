------------------------------- MODULE Ceremony -------------------------------
(* The genesis ceremony: a coordinator collects registrations, then one      *)
(* contribution of randomness per participant, and derives the epoch nonce   *)
(* and the genesis block; anyone can replay the transcript.  Signatures are  *)
(* the key that made them and what they cover; hashes are the terms they commit to.  *)
EXTENDS Integers, Sequences, SequencesExt, FiniteSetsExt

CONSTANTS Keys,            \* identity keys
          Stakes,          \* pledges, a set of numbers
          Randomness,      \* contributions; 0 stands for 32 zero bytes
          min_participants, max_participants,
          min_stake_per_participant, max_total_stake

VARIABLES coordinator, transcript

vars == <<coordinator, transcript>>

NoTranscript == [contributions |-> <<>>, participant_count |-> 0]
Refused == [phase |-> "Refused"]

new_coordinator ==
    [phase |-> "Registration", registrations |-> <<>>, contributions |-> <<>>,
     raw_registrations |-> <<>>, raw_contributions |-> <<>>]

Put(f, d, e) == [x \in DOMAIN f \cup {d} |-> IF x = d THEN e ELSE f[x]]
total_stake(registrations) == SumFunction(registrations)

-------------------------------------------------------------------------------
(* The methods of the coordinator, as functions on its state; Refused is an  *)
(* error, which leaves the coordinator as it was.                            *)

\* ML-DSA signatures.  A participant signs for itself; messages signed by someone else,
\* or over something else, arrive too.
sign(key, message) == [by |-> key, over |-> message]
verify(key, message, signature) == signature = sign(key, message)

create_registration(key, stake) ==
    [identity_key |-> key, stake_pledge |-> stake, signature |-> sign(key, stake)]
create_contribution(key, randomness) ==
    [identity_key |-> key, randomness |-> randomness, signature |-> sign(key, randomness)]
Registration == {[create_registration(k, s) EXCEPT !.signature = sign(j, o)] :
                    k \in Keys, j \in Keys, s \in Stakes, o \in Stakes}
Contribution == {[create_contribution(k, r) EXCEPT !.signature = sign(j, o)] :
                    k \in Keys, j \in Keys, r \in Randomness, o \in Randomness}

accept_registration(c, reg) ==
    IF /\ c.phase = "Registration"
       /\ Len(c.raw_registrations) < max_participants
       /\ reg.stake_pledge >= min_stake_per_participant
       /\ reg.identity_key \notin DOMAIN c.registrations
       /\ verify(reg.identity_key, reg.stake_pledge, reg.signature)
       /\ total_stake(c.registrations) + reg.stake_pledge <= max_total_stake
    THEN [c EXCEPT !.registrations = Put(@, reg.identity_key, reg.stake_pledge),
                   !.raw_registrations = Append(@, reg)]
    ELSE Refused

close_registration(c) ==
    IF c.phase = "Registration" /\ Len(c.raw_registrations) >= min_participants
    THEN [c EXCEPT !.phase = "Contribution"]
    ELSE Refused

accept_contribution_again(c, contrib) ==
    IF /\ c.phase = "Contribution"
       /\ contrib.identity_key \in DOMAIN c.registrations
       /\ verify(contrib.identity_key, contrib.randomness, contrib.signature)
       /\ contrib.randomness # 0
    THEN [c EXCEPT !.contributions = Put(@, contrib.identity_key, contrib.randomness),
                   !.raw_contributions = Append(@, contrib)]
    ELSE Refused

accept_contribution(c, contrib) ==
    IF /\ c.phase = "Contribution"
       /\ contrib.identity_key \in DOMAIN c.registrations
       /\ contrib.identity_key \notin DOMAIN c.contributions
       /\ verify(contrib.identity_key, contrib.randomness, contrib.signature)
       /\ contrib.randomness # 0
    THEN [c EXCEPT !.contributions = Put(@, contrib.identity_key, contrib.randomness),
                   !.raw_contributions = Append(@, contrib)]
    ELSE Refused

\* Both are read from maps in the order of the key hashes, whatever the order of arrival.
derive_epoch_nonce(c) == <<"nonce", c.contributions>>
build_genesis_block(c) == <<"genesis", c.registrations>>

finalize(c) ==
    IF c.phase = "Contribution" /\ DOMAIN c.contributions = DOMAIN c.registrations
    THEN [phase |-> "Finalized",
          registrations |-> c.raw_registrations,
          contributions |-> c.raw_contributions,
          epoch_nonce |-> derive_epoch_nonce(c),
          genesis_block_hash |-> build_genesis_block(c),
          total_stake |-> total_stake(c.registrations),
          participant_count |-> Len(c.raw_registrations)]
    ELSE Refused

replay(c, messages, accept(_, _)) ==
    FoldLeft(LAMBDA d, msg : IF d = Refused THEN Refused ELSE accept(d, msg), c, messages)

verify_transcript(t) ==
    LET registered == replay(new_coordinator, t.registrations, accept_registration)
        closed == IF registered = Refused THEN Refused ELSE close_registration(registered)
        contributed == IF closed = Refused THEN Refused
                       ELSE replay(closed, t.contributions, accept_contribution)
        result == IF contributed = Refused THEN Refused ELSE finalize(contributed)
    IN  /\ result # Refused
        /\ result.epoch_nonce = t.epoch_nonce
        /\ result.genesis_block_hash = t.genesis_block_hash

-------------------------------------------------------------------------------
Init == coordinator = new_coordinator /\ transcript = NoTranscript

Step(result) ==
    /\ transcript = NoTranscript
    /\ result # Refused
    /\ coordinator' = result
    /\ UNCHANGED transcript

Register == \E reg \in Registration : Step(accept_registration(coordinator, reg))
CloseRegistration == Step(close_registration(coordinator))
Contribute == \E contrib \in Contribution : Step(accept_contribution(coordinator, contrib))

\* finalize consumes the coordinator: too early, it destroys the ceremony.
Finalize ==
    /\ coordinator # Refused
    /\ transcript = NoTranscript
    /\ coordinator' = Refused
    /\ transcript' = IF finalize(coordinator) = Refused THEN transcript ELSE finalize(coordinator)

Next == coordinator # Refused /\ (Register \/ CloseRegistration \/ Contribute \/ Finalize)

Spec == Init /\ [][Next]_vars

-------------------------------------------------------------------------------
\* A transcript passes its own replay, also with its messages in another order; each
\* participant counts once, with randomness of its own; the stakes stay below the cap;
\* and a transcript with a contribution missing, repeated or altered does not pass
\* (finalize and verify_transcript).
TranscriptVerifies ==
    transcript # NoTranscript =>
      LET cs == transcript.contributions
          rs == transcript.registrations
      IN  /\ verify_transcript(transcript)
          /\ verify_transcript([transcript EXCEPT !.contributions = Reverse(cs), !.registrations = Reverse(rs)])
          /\ Len(cs) = Len(rs) /\ Len(rs) \in min_participants..max_participants
          /\ {cs[i].identity_key : i \in DOMAIN cs} = {rs[i].identity_key : i \in DOMAIN rs}
          /\ transcript.total_stake <= max_total_stake
          /\ \A i \in DOMAIN cs :
               /\ ~verify_transcript([transcript EXCEPT !.contributions = RemoveAt(cs, i)])
               /\ ~verify_transcript([transcript EXCEPT !.contributions = Append(cs, cs[i])])
               /\ \A r \in Randomness \ {cs[i].randomness} :
                    /\ ~verify_transcript([transcript EXCEPT !.contributions[i].randomness = r])
                    /\ ~verify_transcript([transcript EXCEPT !.contributions[i] =
                           [@ EXCEPT !.randomness = r, !.signature.over = r]])

===============================================================================
