--------------------------------- MODULE Stake ---------------------------------
(* Stake pools and delegations, the stake distribution of an epoch, and the  *)
(* division of a block reward (qv-consensus stake.rs, rewards.rs).           *)
EXTENDS Integers, Sequences, SequencesExt, FiniteSetsExt

CONSTANTS PoolIds,
          PoolTerms,      \* records [margin_num, margin_den, fixed_cost, pledge, active]
          Amounts,        \* delegations and rewards
          MAX_U64,        \* arithmetic saturates here
          MaxPools, MaxDelegations   \* bounds

VARIABLES pools,         \* sequence of registered pools
          delegations,   \* sequence of [pool_id, amount]
          distribution,  \* the last StakeDistribution
          payout         \* the last division of a reward

vars == <<pools, delegations, distribution, payout>>

sat(x) == IF x > MAX_U64 THEN MAX_U64 ELSE x
SumOver(op(_), S) == MapThenSumSet(op, S)

NoPayout == [reward |-> 0, margin_ok |-> TRUE, operator |-> 0, shares |-> <<>>, stakes |-> <<>>, cost |-> 0]

Init ==
    /\ pools = <<>>
    /\ delegations = <<>>
    /\ distribution = [pool_stakes |-> <<>>, total_stake |-> 0]
    /\ payout = NoPayout

\* Called by tests only: nothing refuses a pool for its margin.
validate(pool) == pool.margin_den # 0 /\ pool.margin_num <= pool.margin_den

Active(id) == {i \in DOMAIN pools : pools[i].id = id /\ pools[i].active}

\* Pledges of active pools and the delegations to them, per pool.
stake_of(id) ==
    IF Active(id) = {} THEN 0
    ELSE sat(SumOver(LAMBDA i : pools[i].pledge, Active(id))
             + SumOver(LAMBDA i : delegations[i].amount,
                       {i \in DOMAIN delegations : delegations[i].pool_id = id}))

\* Pools without stake are left out.
snapshot ==
    LET ids == {id \in PoolIds : stake_of(id) # 0} IN
    [pool_stakes |-> [id \in ids |-> stake_of(id)], total_stake |-> SumOver(stake_of, ids)]

pool_stake(id) ==
    IF id \in DOMAIN distribution.pool_stakes THEN distribution.pool_stakes[id] ELSE 0

relative_stake(id) ==
    IF distribution.total_stake = 0 \/ pool_stake(id) = 0
    THEN <<0, 1>> ELSE <<pool_stake(id), distribution.total_stake>>

-------------------------------------------------------------------------------
delegated(stakes) == sat(SumOver(LAMBDA i : stakes[i], DOMAIN stakes))

distribute_reward_dropped(total, pool, stakes) ==
    LET cost == IF pool.fixed_cost < total THEN pool.fixed_cost ELSE total
        after_cost == total - cost
        margin_share == (after_cost * pool.margin_num) \div pool.margin_den
        rest == after_cost - margin_share
        shares == IF delegated(stakes) > 0
                  THEN [i \in DOMAIN stakes |-> (rest * stakes[i]) \div delegated(stakes)] ELSE <<>>
    IN  [operator |-> cost + margin_share, shares |-> shares]

\* Fixed cost and margin first, the rest pro rata, rounded down; the operator keeps
\* the dust.
distribute_reward(total, pool, stakes) ==
    LET cost == IF pool.fixed_cost < total THEN pool.fixed_cost ELSE total
        after_cost == total - cost
        margin_share == IF pool.margin_den > 0
                        THEN (after_cost * pool.margin_num) \div pool.margin_den ELSE 0
        delegator_pool == IF margin_share < after_cost THEN after_cost - margin_share ELSE 0
        shares == IF delegated(stakes) > 0 /\ delegator_pool > 0
                  THEN [i \in DOMAIN stakes |-> (delegator_pool * stakes[i]) \div delegated(stakes)]
                  ELSE <<>>
        distributed == SumOver(LAMBDA i : shares[i], DOMAIN shares)
        dust == IF distributed < delegator_pool THEN delegator_pool - distributed ELSE 0
    IN  [operator |-> sat(cost + margin_share + dust), shares |-> shares]

-------------------------------------------------------------------------------
RegisterPool ==
    /\ Len(pools) < MaxPools
    /\ \E id \in PoolIds, terms \in PoolTerms :
         pools' = Append(pools, [id |-> id] @@ terms)
    /\ UNCHANGED <<delegations, distribution, payout>>

Delegate ==
    /\ Len(delegations) < MaxDelegations
    /\ \E id \in PoolIds, a \in Amounts :
         delegations' = Append(delegations, [pool_id |-> id, amount |-> a])
    /\ UNCHANGED <<pools, distribution, payout>>

\* A total beyond 64 bits is an error.
TakeSnapshot ==
    /\ snapshot.total_stake <= MAX_U64
    /\ distribution' = snapshot
    /\ UNCHANGED <<pools, delegations, payout>>

PayReward ==
    /\ payout = NoPayout
    /\ \E i \in DOMAIN pools, total \in Amounts :
         LET mine == SelectSeq(delegations, LAMBDA d : d.pool_id = pools[i].id)
             stakes == [j \in DOMAIN mine |-> mine[j].amount]
             result == distribute_reward(total, pools[i], stakes)
         IN  /\ total > 0
             /\ payout' = [reward |-> total, margin_ok |-> validate(pools[i]), stakes |-> stakes, cost |-> pools[i].fixed_cost,
                           operator |-> result.operator, shares |-> result.shares]
    /\ UNCHANGED <<pools, delegations, distribution>>

Next == RegisterPool \/ Delegate \/ TakeSnapshot \/ PayReward

Spec == Init /\ [][Next]_vars

-------------------------------------------------------------------------------
\* A reward is paid out to the last unit and no further, unless the stakes overflow or the
\* margin is not the fraction in [0, 1] that StakePool asks for; the operator gets its costs, and more stake never earns less.  The relative stakes
\* of an epoch add up to one (distribute_reward, StakeDistribution::snapshot).
RewardConserved ==
    /\ LET paid == payout.operator + SumOver(LAMBDA i : payout.shares[i], DOMAIN payout.shares)
           stakes == payout.stakes
       IN  /\ payout.margin_ok /\ SumOver(LAMBDA i : stakes[i], DOMAIN stakes) <= MAX_U64
                => paid = payout.reward
           /\ payout.operator >= payout.cost \/ payout.operator = payout.reward
           /\ \A i, j \in DOMAIN payout.shares :
                stakes[i] <= stakes[j] => payout.shares[i] <= payout.shares[j]
    /\ distribution.total_stake > 0 =>
         /\ \A id \in PoolIds : relative_stake(id)[1] = 0 \/ relative_stake(id)[2] = distribution.total_stake
         /\ SumOver(LAMBDA id : relative_stake(id)[1], PoolIds) = distribution.total_stake

===============================================================================
