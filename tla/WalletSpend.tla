------------------------------- MODULE WalletSpend -------------------------------
(* How the wallet spends (qv-wallet: server.rs, main.rs, tx_builder.rs,       *)
(* faucet.rs, swap.rs, history.rs, rpc_client.rs): a request asks the node    *)
(* for its coins in one or two calls, picks inputs, builds and signs a        *)
(* transaction, sends it and notes it in the history file.  Every await is a  *)
(* step of its own: blocks and other requests come in between, and the coins  *)
(* a request picked may be gone when it sends.                                *)
(*                                                                            *)
(* A coin is an output with its outpoint; a stealth output is named by its    *)
(* recipient.  A witness says which keys it carries and for which template;   *)
(* pool coins are spent by their covenant (module Covenant), a copy has a     *)
(* pool's datum under another lock.                                           *)
EXTENDS Integers, Sequences, SequencesExt, FiniteSetsExt

CONSTANTS Senders, Recipients, Faucet, PoolOwner,
          Amounts, Fees, PoolValues, Offsets,   \* inputs of requests
          GenesisCoins, Requests, MaxU64,
          MaxTxs                                \* bound on transactions built

VARIABLES
    utxo,       \* the node's coins
    pool,       \* the node's clear pool
    request,    \* the requests in progress
    history,    \* each wallet's history file: a sequence of entries
    built       \* every transaction built, with the request behind it

vars == <<utxo, pool, request, history, built>>

idle == [stage |-> "idle"]
Output(owner, kind, value) == [owner |-> owner, kind |-> kind, value |-> value]
Coin(id, i, o) == [op |-> <<id, i>>, owner |-> o.owner, kind |-> o.kind, value |-> o.value]

Init == /\ utxo = GenesisCoins /\ pool = {} /\ built = {}
        /\ request = [r \in Requests |-> idle]
        /\ history = [w \in Senders |-> <<>>]

Total(coins) == FoldSeq(LAMBDA c, acc : c.value + acc, 0, coins)
Continue(r, q) == request' = [request EXCEPT ![r] = q]

-----------------------------------------------------------------------------
(* What the node answers (rpc.rs).                                         *)
scan_stealth(w) == {c \in utxo : c.kind = "stealth" /\ c.owner = w}
scan_p2pkh(w) == {c \in utxo : c.kind = "plain" /\ c.owner = w}
get_utxo(op) == {c \in utxo : c.op = op}

Spent(tx) == {tx.inputs[i].op : i \in DOMAIN tx.inputs}
validate_structure(tx) == tx.inputs # <<>> /\ tx.outputs # <<>>
                          /\ Cardinality(Spent(tx)) = Len(tx.inputs)
                          /\ Total(tx.outputs) <= MaxU64

(* qv_sendTransaction looks at the structure and at conflicts in the pool, *)
(* not at the coins.                                                       *)
Admits(tx) == validate_structure(tx) /\ \A p \in pool : Spent(p) \cap Spent(tx) = {}

(* A block takes a pooled transaction whose inputs exist, whose witnesses  *)
(* satisfy their locks and which creates no money.                         *)
Unlocks(witness, c) == IF c.kind = "pool" THEN witness = [template |-> "none"]
                       ELSE witness = [template |-> c.kind, key |-> c.owner]
Valid(tx) ==
    LET coin(i) == CHOOSE c \in utxo : c.op = tx.inputs[i].op
    IN  /\ \A i \in DOMAIN tx.inputs :
            get_utxo(tx.inputs[i].op) # {} /\ Unlocks(tx.inputs[i].witness, coin(i))
        /\ Total([i \in DOMAIN tx.inputs |-> coin(i)]) >= Total(tx.outputs)

Mine(tx) ==
    /\ tx \in pool /\ Valid(tx)
    /\ utxo' = {c \in utxo : c.op \notin Spent(tx)}
               \cup {Coin(tx.id, i, tx.outputs[i]) : i \in DOMAIN tx.outputs}
    /\ pool' = {p \in pool : Spent(p) \cap Spent(tx) = {}}
    /\ UNCHANGED <<request, history, built>>

(* Other users and producers: a pooled transaction may also be evicted.    *)
Evict(tx) == tx \in pool /\ pool' = pool \ {tx} /\ UNCHANGED <<utxo, request, history, built>>

-----------------------------------------------------------------------------
(* Coin selection: largest first, until the outflow is covered.            *)
earlier(c, d) == c.op[1] < d.op[1] \/ (c.op[1] = d.op[1] /\ c.op[2] < d.op[2])
sorted(coins) ==
    SetToSortSeq(coins, LAMBDA c, d : c.value > d.value \/ (c.value = d.value /\ earlier(c, d)))
pick(coins, outflow) ==
    SubSeq(coins, 1, Min({n \in 0..Len(coins) : Total(SubSeq(coins, 1, n)) >= outflow}))

(* swap.rs: the smallest single coin that covers what is needed, of equal  *)
(* ones the first.                                                         *)
select_funding_utxo(coins, needed) ==
    LET enough == {c \in coins : c.value >= needed}
    IN  {c \in enough : \A d \in enough \ {c} :
            c.value < d.value \/ (c.value = d.value /\ earlier(c, d))}

(* tx_builder.rs: the signature of every input covers the whole            *)
(* transaction; a stealth input also shows the shared secret.              *)
sign_plain_input(c, w) == [op |-> c.op, witness |-> [template |-> "plain", key |-> w]]
sign_stealth_input(c, w) == [op |-> c.op, witness |-> [template |-> "stealth", key |-> w]]
sign_input(c, w) == IF c.kind = "stealth" THEN sign_stealth_input(c, w) ELSE sign_plain_input(c, w)
covenant_input(c) == [op |-> c.op, witness |-> [template |-> "none"]]

add_stealth_output(value, to) == Output(to, "stealth", value)
plain_output(value, to) == Output(to, "plain", value)
change_output(output) == IF output.value > 0 THEN <<output>> ELSE <<>>

(* The transaction is built and signed in memory; `claimed` is what the    *)
(* wallet takes its inputs to be worth.                                    *)
Build(r, q, inputs, outputs, claimed) ==
    LET tx == [id |-> Cardinality(built) + 1, inputs |-> inputs, outputs |-> outputs]
    IN  /\ Cardinality(built) < MaxTxs
        /\ built' = built \cup {[tx |-> tx, request |-> q, claimed |-> claimed]}
        /\ Continue(r, [q EXCEPT !.stage = "send"] @@ [tx |-> tx])
        /\ UNCHANGED <<utxo, pool, history>>

-----------------------------------------------------------------------------
(* handle_send and cmd_send_stealth: stealth coins, then plain coins.      *)
send(r, op, w, to, amount, fee) ==
    /\ request[r] = idle
    /\ amount # 0 /\ amount + fee <= MaxU64
    /\ Continue(r, [stage |-> "scan", op |-> op, who |-> w, to |-> to, amount |-> amount,
                    fee |-> fee, stealth |-> scan_stealth(w)])
    /\ UNCHANGED <<utxo, pool, history, built>>
handle_send(r, w, to, amount, fee) == send(r, "handle_send", w, to, amount, fee)
cmd_send_stealth(r, w, to, amount, fee) == send(r, "cmd_send_stealth", w, to, amount, fee)

(* A request that cannot go on is refused and forgotten.                   *)
Refuse(r) == Continue(r, idle) /\ UNCHANGED <<utxo, pool, history, built>>

build_send_keep_fee(r) ==
    LET q == request[r]
        coins == sorted(q.stealth) \o sorted(scan_p2pkh(q.who))
        picks == pick(coins, q.amount + q.fee)
        change == Total(picks) - q.amount
    IN  /\ q # idle /\ q.stage = "scan"
        /\ IF Total(coins) < q.amount + q.fee THEN Refuse(r)
           ELSE Build(r, q, [i \in DOMAIN picks |-> sign_input(picks[i], q.who)],
                      <<add_stealth_output(q.amount, q.to)>>
                      \o change_output(add_stealth_output(change, q.who)), Total(picks))
build_send(r) ==
    LET q == request[r]
        outflow == q.amount + q.fee
        coins == sorted(q.stealth) \o sorted(scan_p2pkh(q.who))
        picks == pick(coins, outflow)
        change == Total(picks) - outflow
    IN  /\ q # idle /\ q.stage = "scan"
        /\ IF Total(coins) < outflow THEN Refuse(r)
           ELSE Build(r, q, [i \in DOMAIN picks |-> sign_input(picks[i], q.who)],
                      <<add_stealth_output(q.amount, q.to)>>
                      \o change_output(add_stealth_output(change, q.who)), Total(picks))

(* The devnet faucet spends the plain coins of a published account.        *)
drip(r, to, amount, fee) ==
    LET q == [stage |-> "scan", op |-> "faucet", who |-> Faucet, to |-> to,
              amount |-> amount, fee |-> fee]
        outflow == amount + fee
        coins == sorted(scan_p2pkh(Faucet))
        picks == pick(coins, outflow)
    IN  /\ request[r] = idle
        /\ amount # 0 /\ outflow <= MaxU64 /\ Total(coins) >= outflow
        /\ Build(r, q, [i \in DOMAIN picks |-> sign_plain_input(picks[i], Faucet)],
                 <<add_stealth_output(amount, to)>>
                 \o change_output(plain_output(Total(picks) - outflow, Faucet)), Total(picks))

(* cmd_send_plain takes the value of the input from the command line.      *)
cmd_send_plain(r, w, to, amount, fee, c, value) ==
    LET q == [stage |-> "scan", op |-> "cmd_send_plain", who |-> w, to |-> to,
              amount |-> amount, fee |-> fee]
    IN  /\ request[r] = idle
        /\ amount + fee <= value
        /\ Build(r, q, <<sign_plain_input(c, w)>>,
                 <<plain_output(amount, to)>>
                 \o change_output(plain_output(value - amount - fee, w)), value)

handle_devnet_faucet(r, w, amount, fee) == drip(r, w, amount, fee)

(* The coin that pays: the one named, worth what the command line says or  *)
(* what the node answers, or the smallest plain coin that is enough.       *)
resolve_funding(w, input, needed) ==
    IF input # {} THEN input ELSE select_funding_utxo(scan_p2pkh(w), needed)
Named(c, offset) == {[c EXCEPT !.value = @ + offset]}

(* The pool is there, has a pool's datum and the lock that the datum gives.*)
decode_pool_script(c) == c.kind = "pool"
fetch_verified_pool(op) == {c \in get_utxo(op) : decode_pool_script(c)}

(* execute_swap: the pool first, then the coin that pays the fee.  The     *)
(* outputs keep the pool's value.  The trade itself is in the pool's datum.*)
execute_swap(r, op, w, pool_op, input, fee) ==
    /\ request[r] = idle
    /\ \E p \in fetch_verified_pool(pool_op) :
        Continue(r, [stage |-> "fund", op |-> op, who |-> w, to |-> PoolOwner,
                     amount |-> p.value, fee |-> fee, pool |-> p, input |-> input])
    /\ UNCHANGED <<utxo, pool, history, built>>
fund_swap(r) ==
    LET q == request[r]
        funding == {c \in resolve_funding(q.who, q.input, q.fee) : c.value >= q.fee}
    IN  /\ q # idle /\ q.stage = "fund"
        /\ IF funding = {} THEN Refuse(r)
           ELSE \E c \in funding :
                Build(r, q, <<covenant_input(q.pool), sign_plain_input(c, q.who)>>,
                      <<Output(PoolOwner, "pool", q.pool.value),
                        plain_output(c.value - q.fee, q.who)>>, q.pool.value + c.value)

execute_create_pool(r, op, w, pool_value, input, fee) ==
    LET q == [stage |-> "fund", op |-> op, who |-> w, to |-> PoolOwner,
              amount |-> pool_value, fee |-> fee]
        needed == pool_value + fee
    IN  /\ request[r] = idle
        /\ needed <= MaxU64
        /\ \E c \in resolve_funding(w, input, needed) :
            /\ c.value >= needed
            /\ Build(r, q, <<sign_plain_input(c, w)>>,
                     <<Output(PoolOwner, "pool", pool_value),
                       plain_output(c.value - needed, w)>>, c.value)

(* The server picks the coin, the command line may name it.                *)
handle_defi_swap(r, w, p, fee) == execute_swap(r, "handle_defi_swap", w, p.op, {}, fee)
cmd_swap(r, w, p, input, fee) == execute_swap(r, "cmd_swap", w, p.op, input, fee)
handle_defi_create_pool(r, w, value, fee) ==
    execute_create_pool(r, "handle_defi_create_pool", w, value, {}, fee)
cmd_create_pool(r, w, value, input, fee) ==
    execute_create_pool(r, "cmd_create_pool", w, value, input, fee)

-----------------------------------------------------------------------------
(* qv_sendTransaction.  Only the server keeps a history, and only of what  *)
(* the node took.                                                          *)
send_transaction(r) ==
    /\ request[r].stage = "send"
    /\ IF Admits(request[r].tx)
       THEN /\ pool' = pool \cup {request[r].tx}
            /\ Continue(r, IF request[r].op = "handle_send"
                           THEN [request[r] EXCEPT !.stage = "record"] ELSE idle)
       ELSE UNCHANGED pool /\ Continue(r, idle)
    /\ UNCHANGED <<utxo, history, built>>

Entry(q) == [tx_id |-> q.tx.id, amount |-> q.amount, fee |-> q.fee]
record_send(r) ==
    /\ request[r].stage = "record"
    /\ Continue(r, [request[r] EXCEPT !.stage = "save"]
                   @@ [log |-> Append(history[request[r].who], Entry(request[r]))])
    /\ UNCHANGED <<utxo, pool, history, built>>
History_save(r) ==
    /\ request[r].stage = "save"
    /\ history' = [history EXCEPT ![request[r].who] = request[r].log]
    /\ Continue(r, idle)
    /\ UNCHANGED <<utxo, pool, built>>

(* Without --broadcast the transaction is printed; it may be sent by hand  *)
(* at any time, or never.                                                  *)
Unsent(r) == /\ request[r].stage = "send"
             /\ request[r].op \in {"cmd_send_plain", "cmd_swap", "cmd_create_pool"}
             /\ Refuse(r)

(* The history as shown: the file as it was, then the coins of two scans.  *)
load_or_empty(w) == history[w]
handle_history_list(r, w) ==
    /\ request[r] = idle
    /\ Continue(r, [stage |-> "list", who |-> w, log |-> load_or_empty(w), stealth |-> scan_stealth(w)])
    /\ UNCHANGED <<utxo, pool, history, built>>
ReceivedRow(c) == [kind |-> "Received", tx_id |-> c.op[1], output_index |-> c.op[2], amount |-> c.value]
SentRow(e) == [kind |-> "Sent", tx_id |-> e.tx_id, output_index |-> 0, amount |-> e.amount]
merge_with_received(log, stealth, plain) ==
    [i \in DOMAIN log |-> SentRow(log[i])]
    \o LET coins == sorted(stealth) \o sorted(plain) IN [i \in DOMAIN coins |-> ReceivedRow(coins[i])]
list_plain(r) ==
    /\ request[r].stage = "list"
    /\ Continue(r, [stage |-> "listed", who |-> request[r].who,
                    rows |-> merge_with_received(request[r].log, request[r].stealth,
                                                 scan_p2pkh(request[r].who))])
    /\ UNCHANGED <<utxo, pool, history, built>>
answer_list(r) == request[r].stage = "listed" /\ Refuse(r)

Next ==
    \/ \E r \in Requests, w \in Senders, to \in Recipients, amount \in Amounts, fee \in Fees :
        \/ handle_send(r, w, to, amount, fee) \/ cmd_send_stealth(r, w, to, amount, fee)
        \/ \E c \in utxo, d \in Offsets :
            /\ c.kind = "plain" /\ c.owner = w
            /\ cmd_send_plain(r, w, to, amount, fee, c, c.value + d)
    \/ \E r \in Requests, w \in Senders, fee \in Fees :
        \/ \E amount \in Amounts : handle_devnet_faucet(r, w, amount, fee)
        \/ \E p \in utxo : handle_defi_swap(r, w, p, fee)
        \/ \E v \in PoolValues : handle_defi_create_pool(r, w, v, fee)
        \/ \E c \in scan_p2pkh(w), d \in Offsets :
            \/ \E p \in utxo : cmd_swap(r, w, p, Named(c, d), fee)
            \/ \E v \in PoolValues : cmd_create_pool(r, w, v, Named(c, d), fee)
        \/ handle_history_list(r, w)
    \/ \E r \in Requests : \/ build_send(r) \/ fund_swap(r) \/ send_transaction(r) \/ Unsent(r)
                           \/ record_send(r) \/ History_save(r) \/ list_plain(r) \/ answer_list(r)
    \/ \E tx \in pool : Mine(tx) \/ Evict(tx)

Spec == Init /\ [][Next]_vars

-----------------------------------------------------------------------------
(* Every pooled transaction whose coins are as the wallet took them to be  *)
(* pays its recipient the amount asked for, returns the rest to the sender *)
(* and leaves exactly the fee asked for, whatever was mined between the    *)
(* scans and the sending; and its witnesses fit its coins.  Where the      *)
(* value of the input was given on the command line, the fee differs by    *)
(* the error in it, and an error above the fee makes it invalid.           *)
Received(tx, w) == Total(SelectSeq(tx.outputs, LAMBDA o : o.owner = w))
Exact(b) ==
    LET coins == {c \in utxo : c.op \in Spent(b.tx)}
        q == b.request
        value == MapThenSumSet(LAMBDA c : c.value, coins)
    IN  Cardinality(coins) = Len(b.tx.inputs) =>
        /\ value - Total(b.tx.outputs) = q.fee + (value - b.claimed)
        /\ Received(b.tx, q.to) >= q.amount
        /\ q.to # q.who =>
            /\ Received(b.tx, q.to) = q.amount
            /\ Received(b.tx, q.who) = b.claimed - q.amount - q.fee
        /\ Valid(b.tx) <=> b.claimed - q.fee <= value

(* A row of the history is a send that the node took, with its amount, or  *)
(* a coin that was paid to the wallet, and none is listed twice, whatever  *)
(* was mined between the two scans.                                        *)
Listed(q) ==
    /\ \A i, j \in DOMAIN q.rows : q.rows[i] = q.rows[j] => i = j
    /\ \A i \in DOMAIN q.rows :
        LET row == q.rows[i]
        IN  IF row.kind = "Sent"
            THEN \E b \in built : b.tx.id = row.tx_id /\ b.request.who = q.who /\ b.request.amount = row.amount
            ELSE \E c \in GenesisCoins \cup UNION {{Coin(b.tx.id, k, b.tx.outputs[k]) : k \in DOMAIN b.tx.outputs} : b \in built} :
                    c.op = <<row.tx_id, row.output_index>> /\ c.owner = q.who /\ c.value = row.amount

SpendExact == /\ \A b \in built : b.tx \in pool => Exact(b)
              /\ \A r \in Requests : request[r].stage = "listed" => Listed(request[r])
================================================================================
